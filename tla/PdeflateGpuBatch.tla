---------------------------- MODULE PdeflateGpuBatch ----------------------------
(* compress_chunk_gpu_batch: a batch of chunks compressed with the device.  Groups *)
(* of chunks are submitted, up to a bound before the first of them is collected;   *)
(* a group that fails is only matched on the device, and what that leaves is       *)
(* compressed on the CPU.  Several GPU workers do so at once and share a pool of    *)
(* scratches (the two pools, of matching and of packing, are alike: this is the     *)
(* second).                                                                        *)
(*                                                                                 *)
(* The device is external: it finishes submissions in their order, and a copy into *)
(* a buffer that is mapped panics.  A scratch has two buffers to read back, the    *)
(* results' and the payloads'; "buffer" says whether one of them is mapped.        *)
EXTENDS Integers, Sequences, FiniteSets, SequencesExt, ChunkOrder

CONSTANTS
    GpuWorkers,      \* the threads that compress batches
    WorkerBatches,   \* worker -> its batches, of chunks (see BatchChunk)
    SubmitGroup,     \* submit_group: chunks of one submission
    SparseTarget,    \* target_inflight
    SparseWaitHigh,  \* wait_high_watermark
    SparsePoolLimit, \* GPU_SPARSE_PACK_POOL_LIMIT
    SparseFaults     \* of {"table", "submit", "map", "match", "readback"}

\* Its number, whether its table is to be built on the device, whether a table of the
\* CPU has entries, its payload class, the room predicted for it and what it packs to.
BatchChunk == [id : Nat, gpuTable : BOOLEAN, entries : BOOLEAN, class : {1, 2},
               cap : Nat \ {0}, len : Nat \ {0}]

ASSUME GpuBatchAssumption ==
    /\ WorkerBatches \in [GpuWorkers -> Seq(Seq(BatchChunk))]
    /\ SubmitGroup \in Nat \ {0} /\ SparseTarget \in Nat \ {0}
    /\ SparseWaitHigh \in Nat /\ SparseWaitHigh >= SparseTarget
    /\ SparsePoolLimit \in Nat
    /\ SparseFaults \subseteq {"table", "submit", "map", "match", "readback"}

VARIABLES
    gpuWorker,    \* worker -> the state of its call (see NewCall)
    sparse,       \* [hot, spare, all]: sparse_pack_hot, sparse_pack_pool, the scratches
    sparseQueue,  \* the submissions the device has not finished, in order
    sparseOps,    \* how many there were
    packErrors    \* fallback_integrated_error_chunks

batchVars == <<gpuWorker, sparse, sparseQueue, sparseOps, packErrors>>

NewCall(batches) ==
    [stage |-> IF batches = <<>> THEN "done" ELSE "prepare", batches |-> batches,
     table |-> <<>>, groups |-> <<>>, pending |-> <<>>, fallback |-> {},
     encoded |-> <<>>, matched |-> <<>>, out |-> <<>>]

GpuBatchInit ==
    /\ gpuWorker = [t \in GpuWorkers |-> NewCall(WorkerBatches[t])]
    /\ sparse = [hot |-> 0, spare |-> <<>>, all |-> <<>>]
    /\ sparseQueue = <<>> /\ sparseOps = 0 /\ packErrors = 0

Batch(t) == Head(gpuWorker[t].batches)

Groups(positions) ==
    [k \in 1 .. (Len(positions) + SubmitGroup - 1) \div SubmitGroup |->
        SubSeq(positions, (k - 1) * SubmitGroup + 1,
               IF k * SubmitGroup < Len(positions) THEN k * SubmitGroup ELSE Len(positions))]

\* Tables: on the device for the chunks that ask for it, all in one batch, and one by one
\* when that fails, where each may end up on the CPU.  A chunk goes to the device if its
\* table may have entries.
Prepare(t) ==
    /\ gpuWorker[t].stage = "prepare"
    /\ \E table \in [DOMAIN Batch(t) -> {"device", "host"}] :
          LET eligible == Picked([i \in DOMAIN Batch(t) |-> i],
                              {i \in DOMAIN Batch(t) : table[i] = "device" \/ Batch(t)[i].entries})
          IN  /\ \A i \in DOMAIN Batch(t) : table[i] = "device" => Batch(t)[i].gpuTable
              /\ (\E i \in DOMAIN Batch(t) : Batch(t)[i].gpuTable /\ table[i] = "host")
                    => "table" \in SparseFaults
              /\ gpuWorker' = [gpuWorker EXCEPT ![t] =
                    [@ EXCEPT !.stage = "group", !.table = table, !.groups = Groups(eligible),
                       !.encoded = [i \in DOMAIN Batch(t) |-> {}],
                       !.matched = [i \in DOMAIN Batch(t) |-> "none"]]]
    /\ UNCHANGED <<sparse, sparseQueue, sparseOps, packErrors>>

--------------------------------------------------------------------------------
\* The scratches.

Cap(s, id) == s.all[id].cap

AddSpare(s, id) == IF Len(s.spare) < SparsePoolLimit
                   THEN [s EXCEPT !.spare = Append(@, id)] ELSE s

\* The hot one if it fits, and if not it goes to the others; then the first of those that
\* fits, the last taking its place; then a new one.
acquire_sparse_pack_scratch(s, cap) ==
    LET cooled == IF s.hot = 0 THEN s ELSE AddSpare([s EXCEPT !.hot = 0], s.hot)
        fit    == {i \in DOMAIN cooled.spare : cap <= Cap(s, cooled.spare[i])}
        i      == CHOOSE k \in fit : \A n \in fit : k <= n
        last   == Len(cooled.spare)
    IN  IF s.hot # 0 /\ cap <= Cap(s, s.hot) THEN [id |-> s.hot, s |-> [s EXCEPT !.hot = 0]]
        ELSE IF fit # {} THEN
            [id |-> cooled.spare[i],
             s |-> [cooled EXCEPT !.spare =
                       SubSeq([@ EXCEPT ![i] = cooled.spare[last]], 1, last - 1)]]
        ELSE [id |-> Len(s.all) + 1,
              s |-> [cooled EXCEPT !.all = Append(@, [cap |-> cap, op |-> 0,
                                                      buffer |-> "unmapped"])]]

\* The larger of it and the hot one is hot, the other one spare while there is room.
release_sparse_pack_scratch(s, id) ==
    IF s.hot = 0 THEN [s EXCEPT !.hot = id]
    ELSE IF Cap(s, s.hot) <= Cap(s, id) THEN AddSpare([s EXCEPT !.hot = id], s.hot)
    ELSE AddSpare(s, id)

--------------------------------------------------------------------------------
\* Where the payloads of a group lie: the chunks of a class side by side, one class after
\* the other, and read back in the order of the group.

Total(g, S) == FoldSet(LAMBDA i, sum : sum + g[i].cap, 0, S)

OutBase(g, i) == Total(g, {n \in DOMAIN g : g[n].class < g[i].class \/
                              (g[n].class = g[i].class /\ n < i)})
ReadOffset(g, i) == Total(g, {n \in DOMAIN g : n < i})

\* The chunks the bytes come from that are taken for the payload of chunk i.
Payload(g, i) ==
    LET copied(cell) == {OutBase(g, n) + cell - ReadOffset(g, n) : n \in
                            {k \in DOMAIN g : cell - ReadOffset(g, k) \in 0 .. g[k].cap - 1}}
        packed(cell) == {g[n].id : n \in
                            {k \in DOMAIN g : cell - OutBase(g, k) \in 0 .. g[k].len - 1}}
    IN  UNION {UNION {packed(c) : c \in copied(ReadOffset(g, i) + k)} : k \in 0 .. g[i].len - 1}

ChunksOf(t, positions) == [k \in DOMAIN positions |-> Batch(t)[positions[k]]]

--------------------------------------------------------------------------------
\* A group is submitted with both mappings asked for.  What fails on the way gives its
\* scratch back and leaves the group to the fallback.
SubmitSparse(t) ==
    /\ gpuWorker[t].stage = "submit"
    /\ LET group == Head(gpuWorker[t].groups)
           g     == ChunksOf(t, group)
           got   == acquire_sparse_pack_scratch(sparse, Total(g, DOMAIN g))
           after == [gpuWorker[t] EXCEPT !.groups = Tail(@), !.stage = "after"]
       IN  \/ /\ "submit" \in SparseFaults
              /\ sparse' = release_sparse_pack_scratch(got.s, got.id)
              /\ gpuWorker' = [gpuWorker EXCEPT ![t] =
                                 [after EXCEPT !.fallback = @ \cup ToSet(group)]]
              /\ packErrors' = packErrors + Len(group)
              /\ UNCHANGED <<sparseQueue, sparseOps>>
           \/ /\ got.s.all[got.id].buffer # "unmapped"
              /\ sparse' = got.s
              /\ gpuWorker' = [gpuWorker EXCEPT ![t].stage = "panicked"]
              /\ UNCHANGED <<sparseQueue, sparseOps, packErrors>>
           \/ /\ got.s.all[got.id].buffer = "unmapped"
              /\ sparseOps' = sparseOps + 1
              /\ sparseQueue' = Append(sparseQueue, sparseOps + 1)
              /\ sparse' = [got.s EXCEPT !.all[got.id] =
                               [@ EXCEPT !.op = sparseOps + 1, !.buffer = "pending"]]
              /\ gpuWorker' = [gpuWorker EXCEPT ![t] = [after EXCEPT !.pending =
                    Append(@, [group |-> group, op |-> sparseOps + 1, scratch |-> got.id,
                               map |-> "waiting"])]]
              /\ UNCHANGED packErrors

\* The device finishes the oldest submission; of the two mappings one may fail.
SparseFinishes ==
    /\ sparseQueue # <<>>
    /\ \E map \in {"ok"} \cup (SparseFaults \cap {"map"}) :
          gpuWorker' = [t \in GpuWorkers |-> [gpuWorker[t] EXCEPT !.pending =
              [i \in DOMAIN @ |-> IF @[i].op = Head(sparseQueue)
                                  THEN [@[i] EXCEPT !.map = map] ELSE @[i]]]]
    /\ sparse' = [sparse EXCEPT !.all = [i \in DOMAIN @ |->
                    IF @[i].op = Head(sparseQueue) THEN [@[i] EXCEPT !.buffer = "mapped"]
                    ELSE @[i]]]
    /\ sparseQueue' = Tail(sparseQueue)
    /\ UNCHANGED <<sparseOps, packErrors>>

\* Slip: the packed length is not compared with the room.
CollectsMapped(t, p) == p.map = "ok"

\* A result that did not get room for all it packed: the results are unmapped and the
\* payloads are not.  A mapping that failed leaves the other one.
Collects(t, p) ==
    p.map = "ok" /\ \A k \in DOMAIN p.group : Batch(t)[p.group[k]].len <= Batch(t)[p.group[k]].cap

\* collect_pending_gpu_sparse_pack_batch and handle_integrated_batch, for one group: its
\* scratch goes back whatever the outcome.
Collect(t, acc, p) ==
    LET g    == ChunksOf(t, p.group)
        good == Collects(t, p)
        unmapped == IF good THEN [acc.s EXCEPT !.all[p.scratch].buffer = "unmapped"] ELSE acc.s
    IN  [s |-> release_sparse_pack_scratch(unmapped, p.scratch),
         errors |-> acc.errors + (IF good THEN 0 ELSE Len(g)),
         w |-> IF good
               THEN [acc.w EXCEPT !.encoded = [i \in DOMAIN @ |->
                        IF i \in ToSet(p.group)
                        THEN Payload(g, CHOOSE k \in DOMAIN g : p.group[k] = i) ELSE @[i]]]
               ELSE [acc.w EXCEPT !.fallback = @ \cup ToSet(p.group)]]

\* The state after these have been collected in this order, and left the queue.
CollectAll(t, taken, w) ==
    LET after[n \in 0 .. Len(taken)] ==
            IF n = 0
            THEN [s |-> sparse, errors |-> packErrors,
                  w |-> [w EXCEPT !.pending =
                            Picked(@, {k \in DOMAIN @ : @[k] \notin ToSet(taken)})]]
            ELSE Collect(t, after[n - 1], taken[n])
    IN  after[Len(taken)]

Ready(t) == LET queue == gpuWorker[t].pending IN
            Picked(queue, {k \in DOMAIN queue : queue[k].map # "waiting"})

Becomes(t, acc, stage) ==
    /\ gpuWorker' = [gpuWorker EXCEPT ![t] = [acc.w EXCEPT !.stage = stage]]
    /\ sparse' = acc.s /\ packErrors' = acc.errors
    /\ UNCHANGED <<sparseQueue, sparseOps>>

Pending(acc) == Len(acc.w.pending)

\* drain_ready before a group, which goes on when fewer than the target are pending.
BeforeGroup(t) ==
    /\ gpuWorker[t].stage = "group" /\ gpuWorker[t].groups # <<>>
    /\ Becomes(t, CollectAll(t, Ready(t), gpuWorker[t]), "room")

\* Collect what is ready until there is room, and wait for the oldest when nothing was, or
\* too many are pending.
RoomForGroup(t) ==
    /\ gpuWorker[t].stage = "room"
    /\ LET acc == CollectAll(t, Ready(t), gpuWorker[t]) IN
       IF Len(gpuWorker[t].pending) < SparseTarget
       THEN Becomes(t, CollectAll(t, <<>>, gpuWorker[t]), "submit")
       ELSE IF Ready(t) # <<>> /\ Pending(acc) < SparseTarget THEN Becomes(t, acc, "submit")
       ELSE IF Pending(acc) >= SparseWaitHigh \/ Ready(t) = <<>> THEN Becomes(t, acc, "front")
       ELSE Becomes(t, acc, "room")

OldestCollected(t) ==
    /\ gpuWorker[t].stage = "front"
    /\ Head(gpuWorker[t].pending).map # "waiting"
    /\ Becomes(t, CollectAll(t, <<Head(gpuWorker[t].pending)>>, gpuWorker[t]), "room")

AfterSubmit(t) ==
    /\ gpuWorker[t].stage = "after"
    /\ Becomes(t, CollectAll(t, Ready(t), gpuWorker[t]), "high")

\* While too many are pending the oldest is waited for, and what else is ready with it.
BelowHigh(t) ==
    /\ gpuWorker[t].stage = "high"
    /\ IF Len(gpuWorker[t].pending) < SparseWaitHigh
       THEN Becomes(t, CollectAll(t, <<>>, gpuWorker[t]), "group")
       ELSE /\ Head(gpuWorker[t].pending).map # "waiting"
            /\ Becomes(t, CollectAll(t, Ready(t), gpuWorker[t]), "high")

\* After the last group: what is ready, or else the oldest.
CollectRest(t) ==
    /\ gpuWorker[t].stage = "group" /\ gpuWorker[t].groups = <<>>
    /\ IF gpuWorker[t].pending = <<>>
       THEN Becomes(t, CollectAll(t, <<>>, gpuWorker[t]), "match")
       ELSE /\ Ready(t) # <<>>
            /\ Becomes(t, CollectAll(t, Ready(t), gpuWorker[t]), "group")

\* The groups that failed are matched once more, in one go; that may fail, and a chunk's
\* matches may have the wrong length.
MatchFallback(t) ==
    /\ gpuWorker[t].stage = "match"
    /\ \E missed \in SUBSET gpuWorker[t].fallback :
          /\ missed # {} => "match" \in SparseFaults
          /\ gpuWorker' = [gpuWorker EXCEPT ![t].stage = "finalize",
                ![t].matched = [i \in DOMAIN @ |->
                    IF i \in gpuWorker[t].fallback \ missed THEN gpuWorker[t].table[i] ELSE @[i]]]
    /\ UNCHANGED <<sparse, sparseQueue, sparseOps, packErrors>>

\* The table that is written with chunk i: matches that were found with the table of the
\* device need that one, which is read back; without matches the CPU builds its own.
WrittenTable(w, i) ==
    IF w.table[i] = "device" /\ w.matched[i] # "none" THEN "device" ELSE "host"

Finalize(t) ==
    /\ gpuWorker[t].stage = "finalize"
    /\ LET w        == gpuWorker[t]
           chunk(i) == [position |-> i, payload |-> w.encoded[i],
                        matches |-> w.matched[i], table |-> WrittenTable(w, i)]
           readback == {i \in DOMAIN w.table :
                           w.encoded[i] = {} /\ WrittenTable(w, i) = "device"}
       IN  \/ gpuWorker' = [gpuWorker EXCEPT ![t].stage = "returned",
                                             ![t].out = [i \in DOMAIN w.table |-> chunk(i)]]
           \/ /\ readback # {} /\ "readback" \in SparseFaults
              /\ gpuWorker' = [gpuWorker EXCEPT ![t].stage = "failed"]
    /\ UNCHANGED <<sparse, sparseQueue, sparseOps, packErrors>>

\* The worker takes its next batch, and leaves its loop after an error.
NextBatch(t) ==
    /\ gpuWorker[t].stage \in {"returned", "failed"}
    /\ gpuWorker' = [gpuWorker EXCEPT ![t] =
                       NewCall(IF @.stage = "failed" THEN <<>> ELSE Tail(@.batches))]
    /\ UNCHANGED <<sparse, sparseQueue, sparseOps, packErrors>>

GpuWorkerStep(t) ==
    Prepare(t) \/ BeforeGroup(t) \/ RoomForGroup(t) \/ OldestCollected(t) \/ SubmitSparse(t)
    \/ AfterSubmit(t) \/ BelowHigh(t) \/ CollectRest(t) \/ MatchFallback(t) \/ Finalize(t)
    \/ NextBatch(t)

GpuBatchEnded ==
    /\ sparseQueue = <<>>
    /\ \A t \in GpuWorkers : gpuWorker[t].stage \in {"done", "panicked"}
    /\ UNCHANGED batchVars

GpuBatchNext == (\E t \in GpuWorkers : GpuWorkerStep(t)) \/ SparseFinishes \/ GpuBatchEnded

--------------------------------------------------------------------------------
\* Whatever failed, a batch that is returned has each of its chunks once and in order:
\* packed by the device from its own bytes, or with matches that refer to the very table
\* that is written with them.
GpuBatchExact ==
    \A t \in GpuWorkers : gpuWorker[t].stage = "returned" =>
        /\ DOMAIN gpuWorker[t].out = DOMAIN Batch(t)
        /\ \A i \in DOMAIN Batch(t) : LET c == gpuWorker[t].out[i] IN
              /\ c.payload \in {{}, {Batch(t)[i].id}}
              /\ c.payload = {} => c.matches \in {"none", c.table}

Hands == UNION {{<<t, p.op, p.scratch>> : p \in ToSet(gpuWorker[t].pending)} : t \in GpuWorkers}

\* A scratch is hot, or spare, or works for one group; no more are kept than the limit and
\* the hot one; no group is collected twice; and a worker only panics over a scratch that
\* went back mapped, which takes an error first.
SparseSound ==
    /\ Len(sparse.spare) <= SparsePoolLimit
    /\ \A i, k \in DOMAIN sparse.spare : sparse.spare[i] = sparse.spare[k] => i = k
    /\ sparse.hot \notin ToSet(sparse.spare)
    /\ \A h \in Hands : /\ h[3] \notin {sparse.hot} \cup ToSet(sparse.spare)
                        /\ sparse.all[h[3]].op = h[2]
    /\ \A t \in GpuWorkers : gpuWorker[t].stage = "panicked" => packErrors > 0
================================================================================

------------------------- MODULE PdeflateGpuTrueBatch --------------------------
(* decode_chunks_gpu_v2_true_batch: the other way to decode on the device, which  *)
(* puts many chunks into one submission.  Its buffers are scratches of a pool     *)
(* that all callers share and lock only to take one or to give one back.          *)
(*                                                                                *)
(* The device and its callbacks are external, as in PdeflateGpuDecode.  A call    *)
(* gets its jobs parsed and aligned; "sound" says whether a job's sections and    *)
(* sizes can be laid out.                                                         *)
EXTENDS Integers, Sequences, FiniteSets, SequencesExt, ChunkOrder

CONSTANTS
    BatchCallers,   \* the threads that decode on the device
    BatchJobs,      \* caller -> its prepared_jobs, of [chunk, need, sound]
    SuperBatch,     \* super_batch_jobs: the jobs of one submission
    ReadbackRing,   \* readback_ring: the submissions that may be waiting
    CopyDepth,      \* deferred_copy_depth: those that may wait to be copied out
    TruePoolLimit,  \* GPU_DECODE_V2_TRUE_BATCH_POOL_LIMIT
    BatchTimeout,   \* whether a mapping may be given up
    BatchFaults     \* of {"kernel", "map"}

ASSUME TrueBatchAssumption ==
    /\ SuperBatch \in Nat \ {0} /\ ReadbackRing \in Nat \ {0}
    /\ CopyDepth \in 1 .. ReadbackRing /\ TruePoolLimit \in Nat
    /\ BatchTimeout \in BOOLEAN /\ BatchFaults \subseteq {"kernel", "map"}

\* PreparedGpuDecodeJob, as far as it matters, in the order of the chunks.
PreparedJobs == [chunk : Nat, need : Nat, sound : BOOLEAN]
ASSUME JobsAssumption ==
    /\ BatchJobs \in [BatchCallers -> Seq(PreparedJobs)]
    /\ \A t \in BatchCallers : Increasing(BatchJobs[t])

VARIABLES
    caller,       \* caller -> [stage, rounds, pending, ready, out] of its call
    truePool,     \* decode_v2_true_batch_pool: numbers of scratches
    scratches,    \* every scratch made so far: [cap, holds, op, buffer]
    deviceQueue,  \* the submissions the device has not finished, in order
    submits,      \* how many there were
    givenUp       \* the numbers of the submissions whose mapping was given up

trueVars == <<caller, truePool, scratches, deviceQueue, submits, givenUp>>

SubmittedBatch(jobs, id) ==
    [jobs |-> jobs, op |-> submits + 1, scratch |-> id, map |-> "waiting", bad |-> {}]

Rounds(jobs) ==
    [k \in 1 .. (Len(jobs) + SuperBatch - 1) \div SuperBatch |->
        SubSeq(jobs, (k - 1) * SuperBatch + 1,
               IF k * SuperBatch < Len(jobs) THEN k * SuperBatch ELSE Len(jobs))]

FallbackAll(jobs) == [i \in DOMAIN jobs |-> [chunk |-> jobs[i].chunk, gpu |-> 0]]

TrueBatchInit ==
    /\ caller = [t \in BatchCallers |->
                    [stage |-> "round", rounds |-> Rounds(BatchJobs[t]), pending |-> <<>>,
                     ready |-> <<>>, out |-> <<>>]]
    /\ truePool = <<>> /\ scratches = <<>> /\ deviceQueue = <<>> /\ submits = 0
    /\ givenUp = {}

NeedOf(jobs) == LET needs == {jobs[i].need : i \in DOMAIN jobs}
                IN  CHOOSE n \in needs : \A k \in needs : k <= n

FitIn(jobs) == {i \in DOMAIN truePool : NeedOf(jobs) <= scratches[truePool[i]].cap}

\* swap_remove: the last takes the place of the one that leaves.
WithoutAt(s, i) ==
    LET last == Len(s) IN SubSeq([s EXCEPT ![i] = s[last]], 1, last - 1)

\* The first scratch of the pool that fits, or a new one: its number, the pool without it
\* and all scratches.
acquire_true_batch_scratch(jobs) ==
    IF FitIn(jobs) # {}
    THEN LET i == CHOOSE k \in FitIn(jobs) : \A n \in FitIn(jobs) : k <= n
         IN  [id |-> truePool[i], pool |-> WithoutAt(truePool, i), all |-> scratches]
    ELSE [id |-> Len(scratches) + 1, pool |-> truePool,
          all |-> Append(scratches, [cap |-> NeedOf(jobs), holds |-> <<>>, op |-> 0,
                                     buffer |-> "unmapped"])]

\* One submission: all its jobs are laid out or none is.
SubmitRound(t) ==
    /\ caller[t].stage = "round" /\ caller[t].rounds # <<>>
    /\ LET jobs  == Head(caller[t].rounds)
           got   == acquire_true_batch_scratch(jobs)
           rest  == [caller[t] EXCEPT !.rounds = Tail(@)]
       IN  IF \E i \in DOMAIN jobs : ~jobs[i].sound THEN
              /\ caller' = [caller EXCEPT ![t] = [rest EXCEPT !.out = @ \o FallbackAll(jobs)]]
              /\ UNCHANGED <<truePool, scratches, deviceQueue, submits>>
           ELSE
              /\ truePool' = got.pool
              /\ IF got.all[got.id].buffer # "unmapped" THEN
                    /\ caller' = [caller EXCEPT ![t].stage = "panicked"]
                    /\ UNCHANGED <<scratches, deviceQueue, submits>>
                 ELSE
                    /\ scratches' = [got.all EXCEPT ![got.id] =
                          [@ EXCEPT !.holds = [i \in DOMAIN jobs |-> jobs[i].chunk],
                             !.op = submits + 1, !.buffer = "pending"]]
                    /\ submits' = submits + 1
                    /\ deviceQueue' = Append(deviceQueue, submits + 1)
                    /\ caller' = [caller EXCEPT ![t] = [rest EXCEPT !.stage = "room",
                          !.pending = Append(@, SubmittedBatch(jobs, got.id))]]
    /\ UNCHANGED givenUp

\* The device finishes the oldest submission; the callback reaches whoever waits for it.
BatchFinishes ==
    /\ deviceQueue # <<>>
    /\ LET op   == Head(deviceQueue)
           mine(p, map, bad) == IF p.op = op /\ p.map = "waiting"
                                THEN [p EXCEPT !.map = map, !.bad = bad] ELSE p
           chunks == UNION {ToSet(scratches[i].holds) : i \in {k \in DOMAIN scratches :
                                                               scratches[k].op = op}}
       IN  \E map \in {"ok"} \cup (BatchFaults \cap {"map"}),
              bad \in IF "kernel" \in BatchFaults THEN SUBSET chunks ELSE {{}} :
              /\ map = "map" => bad = {}
              /\ caller' = [t \in BatchCallers |->
                    [caller[t] EXCEPT !.pending = [i \in DOMAIN @ |-> mine(@[i], map, bad)]]]
              /\ scratches' = [i \in DOMAIN scratches |->
                    IF scratches[i].op # op THEN scratches[i]
                    ELSE [scratches[i] EXCEPT !.buffer =
                             IF map = "ok" THEN "mapped" ELSE "unmapped"]]
    /\ deviceQueue' = Tail(deviceQueue)
    /\ UNCHANGED <<truePool, submits, givenUp>>

\* promote_ready_gpu_decode_true_batch: the oldest submission that is mapped, has failed
\* or has waited for too long leaves the ring and waits to be copied.
Promote(t) ==
    \E i \in DOMAIN caller[t].pending :
        LET p == caller[t].pending[i]
            tooLate == p.map = "waiting"
        IN  /\ tooLate => BatchTimeout
            /\ \A k \in 1 .. i - 1 : caller[t].pending[k].map = "waiting"
            /\ caller' = [caller EXCEPT ![t].pending = RemoveAt(@, i),
                             ![t].ready = Append(@, IF tooLate THEN [p EXCEPT !.map = "late"]
                                                    ELSE p)]
            /\ givenUp' = IF tooLate THEN givenUp \cup {p.op} ELSE givenUp
            /\ UNCHANGED <<truePool, scratches, deviceQueue, submits>>

\* A chunk comes from its place in the buffer, unless one of its sections failed.
BatchResults(p) ==
    [i \in DOMAIN p.jobs |->
        [chunk |-> p.jobs[i].chunk,
         gpu |-> IF p.map = "ok" /\ p.jobs[i].chunk \notin p.bad
                 THEN scratches[p.scratch].holds[i] ELSE 0]]

\* Into the pool while there is room, and then in the place of a smaller one.
release_true_batch_scratch(id) ==
    LET smaller == {i \in DOMAIN truePool : scratches[truePool[i]].cap <= scratches[id].cap}
    IN  IF Len(truePool) < TruePoolLimit THEN Append(truePool, id)
        ELSE IF smaller = {} THEN truePool
        ELSE [truePool EXCEPT ![CHOOSE i \in smaller : \A k \in smaller : i <= k] = id]

\* drain_pending, for what was promoted, after the device has finished it: copied out and
\* unmapped if the mapping succeeded in time.
Drain(t) ==
    /\ caller[t].ready # <<>>
    /\ LET p == Head(caller[t].ready) IN
       /\ p.op \notin ToSet(deviceQueue)
       /\ caller' = [caller EXCEPT ![t].ready = Tail(@), ![t].out = @ \o BatchResults(p)]
       /\ scratches' = IF p.map = "ok"
                       THEN [scratches EXCEPT ![p.scratch].buffer = "unmapped"] ELSE scratches
       /\ truePool' = release_true_batch_scratch(p.scratch)
    /\ UNCHANGED <<deviceQueue, submits, givenUp>>

Promotable(t) == \E i \in DOMAIN caller[t].pending : caller[t].pending[i].map # "waiting"

RingFull(t)  == Len(caller[t].pending) >= ReadbackRing
CopiesDue(t) == Len(caller[t].ready) >= CopyDepth

\* After a submission, until the ring has room: copies that are due, what can be promoted,
\* copies that are not due; and else the device is waited for.
MakeRoom(t) ==
    /\ caller[t].stage = "room" /\ (RingFull(t) \/ CopiesDue(t))
    /\ \/ CopiesDue(t) /\ Drain(t)
       \/ ~CopiesDue(t) /\ Promote(t)
       \/ ~CopiesDue(t) /\ ~Promotable(t) /\ Drain(t)

RoomMade(t) ==
    /\ caller[t].stage = "room" /\ ~RingFull(t) /\ ~CopiesDue(t)
    /\ caller' = [caller EXCEPT ![t].stage = "round"]
    /\ UNCHANGED <<truePool, scratches, deviceQueue, submits, givenUp>>

Outstanding(t) == caller[t].pending # <<>> \/ caller[t].ready # <<>>

FinishRounds(t) ==
    /\ caller[t].stage = "round" /\ caller[t].rounds = <<>> /\ Outstanding(t)
    /\ \/ caller[t].pending = <<>> /\ Drain(t)
       \/ Promote(t)
       \/ caller[t].pending # <<>> /\ ~Promotable(t) /\ Drain(t)

TrueBatchReturns(t) ==
    /\ caller[t].stage = "round" /\ caller[t].rounds = <<>> /\ ~Outstanding(t)
    /\ caller' = [caller EXCEPT ![t].stage = "returned",
                     ![t].out = ByChunk(@)]
    /\ UNCHANGED <<truePool, scratches, deviceQueue, submits, givenUp>>

TrueBatchStep(t) == SubmitRound(t) \/ MakeRoom(t) \/ RoomMade(t) \/ FinishRounds(t)
                    \/ TrueBatchReturns(t)

TrueBatchEnded ==
    /\ deviceQueue = <<>>
    /\ \A t \in BatchCallers : caller[t].stage \in {"returned", "panicked"}
    /\ UNCHANGED trueVars

TrueBatchNext == (\E t \in BatchCallers : TrueBatchStep(t)) \/ BatchFinishes \/ TrueBatchEnded

--------------------------------------------------------------------------------
HandsOf(t) == caller[t].pending \o caller[t].ready

\* Each call answers all of its chunks in their order, whatever the order the device,
\* the timeouts and the copies had, and its GPU results are those chunks.
TrueBatchExact ==
    \A t \in BatchCallers : caller[t].stage = "returned" =>
        /\ [i \in DOMAIN caller[t].out |-> caller[t].out[i].chunk]
              = [i \in DOMAIN BatchJobs[t] |-> BatchJobs[t][i].chunk]
        /\ \A i \in DOMAIN caller[t].out : caller[t].out[i].gpu \in {0, caller[t].out[i].chunk}

\* A scratch is in the pool, or in the hands of one submission of one call, and the pool
\* keeps to its limit; a call panics only over a mapping that somebody gave up.
ScratchesSound ==
    /\ Len(truePool) <= TruePoolLimit
    /\ \A i, k \in DOMAIN truePool : i # k => truePool[i] # truePool[k]
    /\ \A t \in BatchCallers : \A i \in DOMAIN HandsOf(t) :
          /\ HandsOf(t)[i].scratch \notin ToSet(truePool)
          /\ scratches[HandsOf(t)[i].scratch].op = HandsOf(t)[i].op
    /\ \A t \in BatchCallers : caller[t].stage = "panicked" => givenUp # {}
================================================================================

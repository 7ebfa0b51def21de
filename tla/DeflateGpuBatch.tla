---------------------------- MODULE DeflateGpuBatch ----------------------------
(* GpuAssist of cozip_deflate: how a batch of chunks is compressed on the device.  *)
(* deflate_fixed_literals_batch cuts a call into batches of as many chunks as       *)
(* there may be slots; the chunk at a position uses the slot at that position.      *)
(* The speed and balanced modes go in groups through two submissions, one for the   *)
(* sizes and one for the bytes; the ratio mode keeps many submissions going, first  *)
(* those that count symbols, then, with a Huffman plan for each chunk, those that   *)
(* pack.  The slots are locked throughout, so one batch is compressed at a time.    *)
(*                                                                                  *)
(* The device is external.  It finishes submissions in order, a poll brings the     *)
(* answers of what is finished, and a submission that copies to a buffer which is    *)
(* mapped, or about to be, is refused with a panic.  Profiling and the dump of bad  *)
(* chunks are left out; chunks are not empty, as the stream makes none that is.     *)
EXTENDS Integers, Sequences, FiniteSets, SequencesExt

CONSTANTS
    DeflateJobs,    \* what is to be done, of [mode, check, calls]; a call is a sequence
                    \* of chunks [id, len, bits, freq]
    SlotLimit,      \* gpu_slot_count
    DeflateGroup,   \* gpu_pipelined_submit_chunks
    ScanBlock,      \* PREFIX_SCAN_BLOCK_SIZE
    MaxPerByte, Spare,  \* GPU_DEFLATE_MAX_BITS_PER_BYTE and what comes on top
    HashOf(_),      \* hash_dynamic_freq_tables
    HuffmanPlans,   \* freq -> [ok, header] of build_dynamic_huffman_plan
    DeflateFaults   \* of {"map", "kernel"}

VARIABLES
    job,       \* the element of Jobs, which does not change
    gpuSlots,  \* deflate_slots: [cap, levels, input, table, freqHeld, readHeld]
    current,   \* the batch that is being compressed, see NoBatch
    device,    \* [submitted, finished]: how many submissions there were
    answered   \* the calls that returned, of [ok, why, out]

deflateVars == <<job, gpuSlots, current, device, answered>>

Ceil(n, d) == (n + d - 1) \div d
Least(m, n) == IF m < n THEN m ELSE n

\* rest: the chunks of the call behind this batch; next: the chunk that is encoded next;
\* staged, packs: positions that are encoded and not submitted; freqs, reads: those that
\* are, of [at, op, fault]; prepared: those with a plan; cache: the plans that were made.
NoBatch == [stage |-> "idle", rest |-> <<>>, batch |-> <<>>, next |-> 1, staged |-> <<>>,
           freqs |-> <<>>, prepared |-> <<>>, cursor |-> 1, packs |-> <<>>, reads |-> <<>>,
           cache |-> <<>>, payload |-> <<>>, results |-> <<>>, out |-> <<>>]

DeflateBatchInit ==
    /\ job \in DeflateJobs /\ gpuSlots = <<>> /\ current = NoBatch /\ answered = <<>>
    /\ device = [submitted |-> 0, finished |-> 0]

--------------------------------------------------------------------------------
(* Slots.                                                                       *)

output_storage_size(cap) == cap * MaxPerByte + Spare

\* The levels of the prefix scan: how many blocks the sums of each fit in.
ScanLevels[len \in Nat] ==
    LET blocks == Ceil(len, ScanBlock)
    IN  <<blocks>> \o IF blocks <= 1 THEN <<>> ELSE ScanLevels[blocks]

create_deflate_slot(len) ==
    [cap |-> len, levels |-> ScanLevels[len], input |-> 0, table |-> 0,
     freqHeld |-> FALSE, readHeld |-> FALSE]

\* Each level scans the sums of the one above it, until one block is left.
dispatch_parallel_prefix_scan(len, levels) ==
    LET needed == ScanLevels[len]
    IN  Len(needed) <= Len(levels) /\ \A k \in DOMAIN needed : needed[k] <= levels[k]

\* The slot of a position, made or made anew where it is too small, with the chunk in it.
SlotFor(all, at, chunk) ==
    LET fits == at <= Len(all) /\ all[at].cap >= chunk.len
        new  == IF fits THEN all
                ELSE IF at <= Len(all) THEN [all EXCEPT ![at] = create_deflate_slot(chunk.len)]
                ELSE Append(all, create_deflate_slot(chunk.len))
    IN  [new EXCEPT ![at].input = chunk.id]

ChunkAt(at) == current.batch[at]
Scans(at)   == dispatch_parallel_prefix_scan(ChunkAt(at).len, gpuSlots[at].levels)

--------------------------------------------------------------------------------
(* Results, and how a call ends.                                                *)

\* bytes: who made them; chunk and table: what the device had; right: whether its stream
\* is that chunk's; end: whose end of stream comes with them.
CpuResult(chunk) == [chunk |-> chunk.id, bytes |-> "cpu", table |-> 0, right |-> TRUE, end |-> "none"]
GpuResult(at, fault) ==
    [chunk |-> gpuSlots[at].input, bytes |-> "gpu", table |-> gpuSlots[at].table,
     right |-> fault # "kernel", end |-> "gpu"]

\* Only the bytes are replaced: the end of the stream stays the device's.
SelfChecked(r) ==
    IF job.mode = "ratio" /\ job.check /\ ~r.right THEN [r EXCEPT !.bytes = "cpu", !.right = TRUE]
    ELSE r

Answer(ok, why, out) == Append(answered, [ok |-> ok, why |-> why, out |-> out])
CallNow == job.calls[Len(answered) + 1]

\* An error gives up the call as it is, and the caller compresses its chunks itself.
GivesUp(why) ==
    /\ answered' = Answer(FALSE, why, [k \in DOMAIN CallNow |-> CpuResult(CallNow[k])])
    /\ current' = NoBatch
Refused == current' = [current EXCEPT !.stage = "panicked"] /\ UNCHANGED <<gpuSlots, answered>>

FirstBatch(chunks, out) ==
    [NoBatch EXCEPT !.stage = IF job.mode = "ratio" THEN "count" ELSE "slots",
                   !.batch = SubSeq(chunks, 1, Least(SlotLimit, Len(chunks))),
                   !.rest = SubSeq(chunks, SlotLimit + 1, Len(chunks)), !.out = out]

\* deflate_fixed_literals_batch, called with the next chunks.
Call ==
    /\ current.stage = "idle" /\ Len(answered) < Len(job.calls)
    /\ gpuSlots' = SubSeq(gpuSlots, 1, Least(SlotLimit, Len(gpuSlots)))
    /\ current' = FirstBatch(CallNow, <<>>)
    /\ UNCHANGED <<job, device, answered>>

\* A batch is done when its results are there; so is the call with the last one.
BatchEnds ==
    /\ current.stage = "done"
    /\ LET out == current.out \o current.results IN
       IF current.rest # <<>>
         THEN current' = FirstBatch(current.rest, out) /\ UNCHANGED answered
       ELSE current' = NoBatch /\ answered' = Answer(TRUE, "", out)
    /\ UNCHANGED <<job, gpuSlots, device>>

Unanswered(n) == [k \in 1 .. n |-> <<>>]

--------------------------------------------------------------------------------
(* The device.                                                                  *)

\* A submission of these positions, whose answers will be as "faults" says.
TableEntries(positions, faults) ==
    [k \in DOMAIN positions |->
        [at |-> positions[k], op |-> device.submitted + 1, fault |-> faults[k]]]
Outcomes(positions, kinds) == [DOMAIN positions -> {"none"} \union (DeflateFaults \intersect kinds)]

Submits  == device' = [device EXCEPT !.submitted = @ + 1]
\* Everything is waited for.
SubmitsAndWaits ==
    device' = [submitted |-> device.submitted + 1, finished |-> device.submitted + 1]

--------------------------------------------------------------------------------
(* The speed and balanced modes.                                                *)

FixedSlots ==
    /\ current.stage = "slots"
    /\ gpuSlots' = FoldLeftDomain(LAMBDA all, k : SlotFor(all, k, current.batch[k]), gpuSlots,
                                  current.batch)
    /\ current' = [current EXCEPT !.stage = "bits", !.results = Unanswered(Len(current.batch))]
    /\ UNCHANGED <<job, device, answered>>

\* What is read in turn: up to the first answer that is an error the buffers are unmapped
\* again, and behind it they stay as they are.
FirstFault(entries) ==
    LET bad == {k \in DOMAIN entries : entries[k].fault = "map"}
    IN  IF bad = {} THEN 0 ELSE CHOOSE k \in bad : \A n \in bad : k <= n
HeldBehind(entries, k) ==
    LET behind == {entries[n].at : n \in k + 1 .. Len(entries)}
    IN  [at \in DOMAIN gpuSlots |-> [gpuSlots[at] EXCEPT !.readHeld = @ \/ at \in behind]]

Group == [k \in 1 .. Least(DeflateGroup, Len(current.batch) - current.next + 1) |-> current.next + k - 1]

\* A group is encoded, submitted and waited for, and then the sizes are read.  What is
\* larger than its buffer goes to the CPU.
FixedBits ==
    /\ current.stage = "bits" /\ current.next <= Len(current.batch)
    /\ IF \E k \in DOMAIN Group : ~Scans(Group[k])
         THEN GivesUp("scan") /\ UNCHANGED <<gpuSlots, device>>
       ELSE IF \E k \in DOMAIN Group : gpuSlots[Group[k]].readHeld
         THEN Refused /\ UNCHANGED device
       ELSE /\ SubmitsAndWaits
            /\ \E faults \in Outcomes(Group, {"map"}) :
               LET entries == TableEntries(Group, faults)
                   bad     == FirstFault(entries)
                   fits(at) == ChunkAt(at).bits <= output_storage_size(gpuSlots[at].cap)
                   large(at) == ~fits(at)
               IN  IF bad # 0 THEN GivesUp("map") /\ gpuSlots' = HeldBehind(entries, bad)
                   ELSE /\ current' = [current EXCEPT !.stage = "payload",
                              !.payload = SelectSeq(Group, fits),
                              !.staged = SelectSeq(Group, large)]
                        /\ UNCHANGED <<gpuSlots, answered>>
    /\ UNCHANGED job

\* And the bytes, whose end is known.
FixedPayload ==
    /\ current.stage = "payload"
    /\ \E faults \in Outcomes(current.payload, {"map", "kernel"}) :
       LET entries == TableEntries(current.payload, faults)
           bad     == FirstFault(entries)
       IN  /\ IF entries # <<>> THEN SubmitsAndWaits ELSE UNCHANGED device
           /\ IF bad # 0 THEN GivesUp("map") /\ gpuSlots' = HeldBehind(entries, bad)
              ELSE /\ current' = [current EXCEPT !.stage = "bits", !.payload = <<>>, !.staged = <<>>,
                        !.next = @ + Len(current.payload) + Len(current.staged),
                        !.results = [at \in DOMAIN @ |->
                            IF at \in ToSet(current.payload)
                              THEN GpuResult(at, faults[CHOOSE k \in DOMAIN faults :
                                                          current.payload[k] = at])
                            ELSE IF at \in ToSet(current.staged) THEN CpuResult(ChunkAt(at))
                            ELSE @[at]]]
                   /\ UNCHANGED <<gpuSlots, answered>>
    /\ UNCHANGED job

FixedEnds ==
    /\ current.stage = "bits" /\ current.next > Len(current.batch)
    /\ current' = [current EXCEPT !.stage = "done"]
    /\ UNCHANGED <<job, gpuSlots, device, answered>>

--------------------------------------------------------------------------------
(* The ratio mode: the plans.                                                   *)

\* The plan of the same counts, among those with the same key; 0 where there is none.
Cached(cache, freq) ==
    IF \E k \in DOMAIN cache : HashOf(cache[k]) = HashOf(freq) /\ cache[k] = freq
      THEN freq ELSE 0

\* One answer of the counting, in its turn.  Its buffers are unmapped before the plan is
\* made, which may fail.
CollectFreq(acc, e) ==
    LET freq   == current.batch[e.at].freq
        cached == Cached(acc.cache, freq)
        plan   == IF cached = 0 THEN freq ELSE cached
        freed  == [acc.slots EXCEPT ![e.at].freqHeld = FALSE]
    IN  IF acc.why # "" THEN acc
        ELSE IF e.fault = "map" THEN [acc EXCEPT !.why = "map"]
        ELSE IF cached = 0 /\ ~HuffmanPlans[freq].ok THEN [acc EXCEPT !.why = "plan", !.slots = freed]
        ELSE [acc EXCEPT !.slots = freed,
                 !.prepared = Append(@, [at |-> e.at, plan |-> plan]),
                 !.cache = IF cached = 0 THEN Append(@, freq) ELSE @]

\* collect_ready_freq_any: the queue goes round once, and what is answered leaves it.
collect_ready_freq_any(finished) ==
    LET ready(e) == e.op <= finished
        late(e)  == e.op > finished
    IN  [FoldLeft(CollectFreq, [why |-> "", slots |-> gpuSlots, prepared |-> current.prepared,
                                cache |-> current.cache, left |-> <<>>],
                  SelectSeq(current.freqs, ready))
         EXCEPT !.left = SelectSeq(current.freqs, late)]

Collected(got, stage) ==
    IF got.why # "" THEN GivesUp(got.why) /\ gpuSlots' = got.slots
    ELSE /\ gpuSlots' = got.slots
         /\ current' = [current EXCEPT !.stage = stage, !.freqs = got.left,
                                 !.prepared = got.prepared, !.cache = got.cache]
         /\ UNCHANGED answered

StageCount ==
    /\ current.stage = "count" /\ current.next <= Len(current.batch)
    /\ gpuSlots' = SlotFor(gpuSlots, current.next, ChunkAt(current.next))
    /\ current' = [current EXCEPT !.staged = Append(@, current.next), !.next = @ + 1,
                   !.stage = IF Len(current.staged) + 1 >= DeflateGroup \/ current.next = Len(current.batch)
                             THEN "submit" ELSE "count"]
    /\ UNCHANGED <<job, device, answered>>

SubmitCount ==
    /\ current.stage = "submit"
    /\ IF \E k \in DOMAIN current.staged : gpuSlots[current.staged[k]].freqHeld
         THEN Refused /\ UNCHANGED device
       ELSE /\ Submits
            /\ \E faults \in Outcomes(current.staged, {"map"}) :
                  current' = [current EXCEPT !.stage = "poll", !.staged = <<>>,
                                       !.freqs = @ \o TableEntries(current.staged, faults)]
            /\ gpuSlots' = [at \in DOMAIN gpuSlots |->
                           [gpuSlots[at] EXCEPT !.freqHeld = @ \/ at \in ToSet(current.staged)]]
            /\ UNCHANGED answered
    /\ UNCHANGED job

\* And again while others are packed.
PollCount ==
    /\ current.stage = "poll"
    /\ \E n \in device.finished .. device.submitted :
         /\ device' = [device EXCEPT !.finished = n]
         /\ Collected(collect_ready_freq_any(n),
                      IF current.next <= Len(current.batch) THEN "count" ELSE "pack")
    /\ UNCHANGED job

--------------------------------------------------------------------------------
(* The ratio mode: packing.                                                     *)

\* A chunk with its plan is encoded; its header has room in front.
PackChunk ==
    /\ current.stage = "pack" /\ current.cursor <= Len(current.prepared)
    /\ LET item == current.prepared[current.cursor]
           at   == item.at
       IN  IF HuffmanPlans[item.plan].header > output_storage_size(gpuSlots[at].cap)
             THEN GivesUp("header") /\ UNCHANGED gpuSlots
           ELSE IF ~Scans(at) THEN GivesUp("scan") /\ UNCHANGED gpuSlots
           ELSE /\ gpuSlots' = [gpuSlots EXCEPT ![at].table = item.plan]
                /\ current' = [current EXCEPT !.packs = Append(@, at), !.cursor = @ + 1,
                       !.stage = IF Len(current.packs) + 1 >= DeflateGroup THEN "submit_pack" ELSE @]
                /\ UNCHANGED answered
    /\ UNCHANGED <<job, device>>

\* One copy takes the bytes and the size.
PackSubmitted(stage) ==
    IF \E k \in DOMAIN current.packs : gpuSlots[current.packs[k]].readHeld
      THEN Refused /\ UNCHANGED device
    ELSE /\ Submits
         /\ \E faults \in Outcomes(current.packs, {"map", "kernel"}) :
               current' = [current EXCEPT !.stage = stage, !.packs = <<>>,
                                    !.reads = @ \o TableEntries(current.packs, faults)]
         /\ gpuSlots' = [at \in DOMAIN gpuSlots |->
                        [gpuSlots[at] EXCEPT !.readHeld = @ \/ at \in ToSet(current.packs)]]
         /\ UNCHANGED answered

SubmitPack ==
    /\ current.stage = "submit_pack" /\ PackSubmitted("poll_pack")
    /\ UNCHANGED job

\* Nothing to pack, and counts that are due: a look at them, and if none is there a wait
\* for all.
Stalls(got, before) == got.why = "" /\ Len(got.left) = Len(before)
AwaitCounts ==
    /\ current.stage = "pack" /\ current.cursor > Len(current.prepared) /\ current.freqs # <<>>
    /\ \E n \in device.finished .. device.submitted :
         IF ~Stalls(collect_ready_freq_any(n), current.freqs)
           THEN /\ device' = [device EXCEPT !.finished = n]
                /\ Collected(collect_ready_freq_any(n), "pack")
         ELSE /\ device' = [device EXCEPT !.finished = device.submitted]
              /\ LET got == collect_ready_freq_any(device.submitted) IN
                 IF Stalls(got, current.freqs) THEN GivesUp("stalled") /\ gpuSlots' = got.slots
                 ELSE Collected(got, "pack")
    /\ UNCHANGED job

\* One answer of the packing, in its turn: too many bits for the buffer are the CPU's.
CollectPack(acc, e) ==
    LET chunk == current.batch[e.at]
        large == chunk.bits > output_storage_size(gpuSlots[e.at].cap)
        freed == [acc.slots EXCEPT ![e.at].readHeld = FALSE]
    IN  IF acc.why # "" THEN acc
        ELSE IF e.fault = "map" THEN [acc EXCEPT !.why = "map", !.slots = freed]
        ELSE [acc EXCEPT !.slots = freed,
                 !.results[e.at] = IF large THEN CpuResult(chunk)
                                   ELSE SelfChecked(GpuResult(e.at, e.fault))]

collect_ready_pack_any(finished) ==
    LET ready(e) == e.op <= finished
        late(e)  == e.op > finished
    IN  [FoldLeft(CollectPack, [why |-> "", slots |-> gpuSlots, left |-> <<>>,
                                results |-> IF current.results # <<>> THEN current.results
                                            ELSE Unanswered(Len(current.batch))],
                  SelectSeq(current.reads, ready))
         EXCEPT !.left = SelectSeq(current.reads, late)]

PackCollected(got, stage) ==
    IF got.why # "" THEN GivesUp(got.why) /\ gpuSlots' = got.slots
    ELSE /\ gpuSlots' = got.slots
         /\ current' = [current EXCEPT !.stage = stage, !.reads = got.left, !.results = got.results]
         /\ UNCHANGED answered

\* After a submission a look at what is packed, and then at what is still counted.
PollPack ==
    /\ current.stage = "poll_pack"
    /\ \E n \in device.finished .. device.submitted :
         /\ device' = [device EXCEPT !.finished = n]
         /\ PackCollected(collect_ready_pack_any(n), IF current.freqs # <<>> THEN "poll" ELSE "pack")
    /\ UNCHANGED job

\* The rest of the last group, if there is one.
LastPack ==
    /\ current.stage = "pack" /\ current.cursor > Len(current.prepared) /\ current.freqs = <<>>
    /\ IF current.packs # <<>> THEN PackSubmitted("read")
       ELSE current' = [current EXCEPT !.stage = "read"] /\ UNCHANGED <<gpuSlots, device, answered>>
    /\ UNCHANGED job

AwaitPacks ==
    /\ current.stage = "read" /\ current.reads # <<>>
    /\ \E n \in device.finished .. device.submitted :
         IF ~Stalls(collect_ready_pack_any(n), current.reads)
           THEN device' = [device EXCEPT !.finished = n] /\ PackCollected(collect_ready_pack_any(n), "read")
         ELSE /\ device' = [device EXCEPT !.finished = device.submitted]
              /\ LET got == collect_ready_pack_any(device.submitted) IN
                 IF Stalls(got, current.reads) THEN GivesUp("stalled") /\ gpuSlots' = got.slots
                 ELSE PackCollected(got, "read")
    /\ UNCHANGED job

RatioEnds ==
    /\ current.stage = "read" /\ current.reads = <<>>
    /\ current' = [current EXCEPT !.stage = "done"]
    /\ UNCHANGED <<job, gpuSlots, device, answered>>

--------------------------------------------------------------------------------
AllAnswered == current.stage = "idle" /\ Len(answered) = Len(job.calls)

BatchStep ==
    \/ Call \/ BatchEnds
    \/ FixedSlots \/ FixedBits \/ FixedPayload \/ FixedEnds
    \/ StageCount \/ SubmitCount \/ PollCount
    \/ PackChunk \/ SubmitPack \/ PollPack \/ AwaitCounts \/ LastPack \/ AwaitPacks \/ RatioEnds

BatchesEnded == (AllAnswered \/ current.stage = "panicked") /\ UNCHANGED deflateVars

BatchesNext == BatchStep \/ BatchesEnded

--------------------------------------------------------------------------------
\* A call is answered with a stream for each of its chunks in their order, whatever the
\* order of the answers: one of the CPU, or what the device made of that very chunk with
\* the plan that was made from its symbols.  What the self-check lets through is right.
\* Errors have their cause in the device or in a plan, never in the buffers' sizes, and
\* no wait is in vain.
CallsExact ==
    \A c \in DOMAIN answered :
        LET call == job.calls[c]  out == answered[c].out IN
        /\ answered[c].why \in {"", "map", "plan"}
        /\ Len(out) = Len(call)
        /\ \A k \in DOMAIN call :
             /\ out[k] # <<>> /\ out[k].chunk = call[k].id
             /\ out[k].bytes = "gpu" => out[k].table = IF job.mode = "ratio" THEN call[k].freq ELSE 0
             /\ job.mode = "ratio" /\ job.check => out[k].right

\* A call that went well leaves no buffer mapped or about to be, for the next call that
\* uses the slot; a submission is refused only after a call that did not go well.  There
\* are never more slots than the options say.
SlotsReleased ==
    /\ Len(gpuSlots) <= SlotLimit
    /\ (\A c \in DOMAIN answered : answered[c].ok) =>
          /\ current.stage # "panicked"
          /\ current.stage = "idle" =>
                \A at \in DOMAIN gpuSlots : ~gpuSlots[at].freqHeld /\ ~gpuSlots[at].readHeld
================================================================================

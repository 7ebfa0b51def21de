--------------------------- MODULE PdeflateGpuDecode ---------------------------
(* decode_chunks_gpu_v2 on its slots: a ring of buffers that the device decodes  *)
(* into, of a normal and a large size, kept from call to call under one mutex    *)
(* that a call holds until it returns.  A call goes round its loop: collect what *)
(* the device is done with, submit into free slots, wait.                        *)
(*                                                                               *)
(* A size stands for the five capacities of a slot.  The device and the mapping  *)
(* of its buffers (wgpu) are external: it takes submissions in their order, and  *)
(* to submit a copy into a buffer that is mapped, or about to be, is a           *)
(* validation error, which nobody handles: the thread panics.                    *)
EXTENDS Integers, Sequences, FiniteSets, SequencesExt, ChunkOrder

CONSTANTS
    DecodeCalls,      \* the sequences of calls: of sequences of jobs
    SlotCount,        \* options.gpu_slot_count
    NormalCap,        \* what a normal slot holds by the options
    MicroSubmit,      \* options.gpu_submit_chunks
    TargetInflight,   \* gpu_decode_v2_target_inflight
    WaitHigh,         \* gpu_decode_v2_wait_high_watermark
    SpinPolls,        \* gpu_decode_v2_spin_polls_before_wait
    MapTimeout,       \* whether COZIP_PDEFLATE_GPU_DECODE_V2_MAP_TIMEOUT_MS is set
    DeviceFaults      \* of {"kernel", "map", "stage"}: what may fail

ASSUME SlotAssumption ==
    /\ SlotCount \in Nat \ {0} /\ NormalCap \in Nat \ {0} /\ MicroSubmit \in Nat \ {0}
    /\ TargetInflight \in 1 .. SlotCount /\ WaitHigh \in 1 .. SlotCount
    /\ SpinPolls \in Nat /\ MapTimeout \in BOOLEAN
    /\ DeviceFaults \subseteq {"kernel", "map", "stage"}

\* GpuDecodeJob, as far as it matters.  A batch is taken from the front of a queue, so that
\* the numbers of its chunks increase.
DecodeJobs == [chunk : Nat, need : Nat, aligned : BOOLEAN, parses : BOOLEAN]
ASSUME CallsAssumption ==
    \A calls \in DecodeCalls :
        calls \in Seq(Seq(DecodeJobs)) /\ \A n \in DOMAIN calls : Increasing(calls[n])

VARIABLES
    decodeCalls,  \* the calls to come, the present one at the head
    pool,         \* decode_slot_pool: [normal, large], each [cap, slots]
    jobs,         \* prepared_jobs of the present call
    nextJob,      \* next_submit_idx
    inflight,     \* set of [op, job, class, slot, map]: submissions not collected
    gpuOps,       \* the submissions the device has not finished, in order
    ops,          \* how many there were: a submission is known by its number
    round,        \* the round's [stage, limit, budget, submitted, completed, stalled]
    spins,        \* no_progress_loops
    results,      \* out: sequence of [chunk, gpu]
    late          \* the numbers of the submissions that timed out

slotVars == <<decodeCalls, pool, jobs, nextJob, inflight, gpuOps, ops, round, spins,
              results, late>>

Classes == {"normal", "large"}

gpu_decode_slot_split ==
    LET large == IF SlotCount = 1 THEN 0 ELSE IF SlotCount >= 4 THEN SlotCount \div 4 ELSE 1
    IN  [normal |-> SlotCount - large, large |-> large]

FreshSlot == [state |-> "free", holds |-> 0, op |-> 0, buffer |-> "unmapped"]

CpuFallback(job)        == [chunk |-> job.chunk, gpu |-> 0]
SubmittedGpu(job, slot) == [chunk |-> job.chunk, gpu |-> slot.holds]

MaxOf(S) == CHOOSE n \in S : \A k \in S : k <= n

Slots(class) == DOMAIN pool[class].slots

\* The group grows to the greatest size asked for so far, with new buffers; a group of
\* no slots takes the size all the same.
ensure_gpu_decode_slot_group(group, count, cap) ==
    LET merged == MaxOf({group.cap, cap})
        kept   == IF merged # group.cap THEN <<>> ELSE group.slots
    IN  IF count = 0 THEN [cap |-> cap, slots |-> <<>>]
        ELSE [cap |-> merged,
              slots |-> kept \o [i \in 1 .. MaxOf({0, count - Len(kept)}) |-> FreshSlot]]

RecycledSlot(slot) == [slot EXCEPT !.state = IF @ = "ready" THEN "free" ELSE @]
recycle_gpu_decode_ready_slots(p) ==
    [c \in Classes |-> [p[c] EXCEPT !.slots = [i \in DOMAIN @ |-> RecycledSlot(@[i])]]]

NewRound == [stage |-> "complete", limit |-> 0, budget |-> 0, submitted |-> 0,
             completed |-> 0, stalled |-> FALSE]

GpuDecodeInit ==
    /\ decodeCalls \in DecodeCalls
    /\ pool = [c \in Classes |-> [cap |-> 0, slots |-> <<>>]]
    /\ jobs = <<>> /\ nextJob = 1 /\ inflight = {} /\ gpuOps = <<>> /\ ops = 0
    /\ round = [NewRound EXCEPT !.stage = "call"] /\ spins = 0
    /\ results = <<>> /\ late = {}

\* Chunks whose sections do not begin on a word go back to the CPU before anything else;
\* one whose layout does not parse fails the call.  The large slots are made to hold the
\* largest job there is.
BeginDecode ==
    /\ round.stage = "call" /\ decodeCalls # <<>>
    /\ LET asked    == Head(decodeCalls)
           aligned  == {i \in DOMAIN asked : asked[i].aligned}
           prepared == Picked(asked, aligned)
           others   == Picked(asked, DOMAIN asked \ aligned)
           answers  == [i \in DOMAIN others |-> CpuFallback(others[i])]
           split    == gpu_decode_slot_split
           largest  == MaxOf({2 * NormalCap} \cup {prepared[i].need : i \in DOMAIN prepared})
       IN  /\ jobs' = prepared /\ nextJob' = 1 /\ spins' = 0
           /\ results' = IF prepared = <<>> THEN ByChunk(answers) ELSE answers
           /\ IF \E i \in DOMAIN prepared : ~prepared[i].parses THEN
                  /\ round' = [NewRound EXCEPT !.stage = "failed"] /\ UNCHANGED pool
              ELSE IF prepared = <<>> THEN
                  /\ round' = [NewRound EXCEPT !.stage = "returned"] /\ UNCHANGED pool
              ELSE
                  /\ round' = NewRound
                  /\ pool' = [normal |-> ensure_gpu_decode_slot_group(pool.normal, split.normal,
                                            NormalCap),
                              large  |-> ensure_gpu_decode_slot_group(pool.large, split.large,
                                            largest)]
    /\ UNCHANGED <<decodeCalls, inflight, gpuOps, ops, late>>

\* The device finishes the submission it is at, and the callback tells how: it decoded,
\* a section reported an error, or the mapping failed.
DeviceFinishes ==
    /\ gpuOps # <<>>
    /\ \E how \in {"ok"} \cup (DeviceFaults \cap {"kernel", "map"}) :
          LET op == Head(gpuOps) IN
          /\ inflight' = {IF s.op = op /\ s.map = "waiting" THEN [s EXCEPT !.map = how] ELSE s :
                             s \in inflight}
          /\ pool' = [c \in Classes |-> [pool[c] EXCEPT !.slots =
                        [i \in DOMAIN @ |-> IF @[i].op # op THEN @[i]
                            ELSE [@[i] EXCEPT !.buffer = IF how = "map" THEN "unmapped"
                                                         ELSE "mapped"]]]]
    /\ gpuOps' = Tail(gpuOps)
    /\ UNCHANGED <<decodeCalls, jobs, nextJob, ops, round, spins, results, late>>

\* Stage 1.  What is mapped is copied out and unmapped; what waits for too long is given
\* up, and its slot is as free as the others although the device may still map it.
CompleteStage ==
    /\ round.stage = "complete"
    /\ \E tooLate \in SUBSET {s \in inflight : MapTimeout /\ s.map = "waiting"} :
          LET recycled == recycle_gpu_decode_ready_slots(pool)
              done     == {s \in inflight : s.map # "waiting"} \cup tooLate
              of(c, i) == {s \in done : s.class = c /\ s.slot = i}
              slotOf(s) == recycled[s.class].slots[s.slot]
              collected(slot, from) ==
                  [slot EXCEPT !.state = "ready",
                     !.buffer = IF \E s \in from : s.map \in {"ok", "kernel"}
                                THEN "unmapped" ELSE @]
              results1 == SetToSeq({<<s.op, IF s.map = "ok" THEN SubmittedGpu(s.job, slotOf(s))
                                            ELSE CpuFallback(s.job)>> : s \in done})
              limit    == IF Cardinality(inflight \ done) < TargetInflight
                          THEN TargetInflight ELSE SlotCount
          IN  /\ pool' = [c \in Classes |-> [recycled[c] EXCEPT !.slots =
                            [i \in DOMAIN @ |->
                                IF of(c, i) = {} THEN @[i] ELSE collected(@[i], of(c, i))]]]
              /\ inflight' = inflight \ done
              /\ late' = late \cup {s.op : s \in tooLate}
              /\ results' = results \o [i \in DOMAIN results1 |-> results1[i][2]]
              /\ round' = [NewRound EXCEPT !.stage = "submit", !.limit = limit,
                             !.completed = Cardinality(done),
                             !.budget = MaxOf({MicroSubmit,
                                               limit - Cardinality(inflight \ done)})]
    /\ UNCHANGED <<decodeCalls, jobs, nextJob, gpuOps, ops, spins>>

MayMicroSubmit ==
    /\ round.stage = "submit"
    /\ nextJob <= Len(jobs)
    /\ round.submitted < round.budget /\ Cardinality(inflight) < round.limit

Fits(class, job) == job.need <= pool[class].cap

\* Slip: whatever the slot is in the middle of.
AnySlot(class) == Slots(class)

FreeSlots(class) == {i \in Slots(class) : pool[class].slots[i].state = "free"}

\* The class a job goes to: the normal slots if it fits them, and the others when those
\* have no free slot.
try_acquire_gpu_decode_slot(job) ==
    LET first  == IF Fits("normal", job) THEN "normal" ELSE "large"
        usable == {c \in Classes : Fits(c, job) /\ FreeSlots(c) # {}}
    IN  IF first \in usable THEN {first} ELSE usable

\* Stage 2, one job: upload, encode, submit, and ask for the mapping.
SubmitJob ==
    /\ MayMicroSubmit
    /\ LET job == jobs[nextJob] IN
       \E class \in try_acquire_gpu_decode_slot(job) :
          LET i    == CHOOSE k \in FreeSlots(class) : \A n \in FreeSlots(class) : k <= n
              slot == pool[class].slots[i]
          IN  IF slot.buffer # "unmapped" THEN
                 /\ round' = [round EXCEPT !.stage = "panicked"]
                 /\ UNCHANGED <<pool, inflight, gpuOps, ops, nextJob, results>>
              ELSE
                 /\ ops' = ops + 1
                 /\ pool' = [pool EXCEPT ![class].slots[i] =
                               [state |-> "inflight", holds |-> job.chunk, op |-> ops + 1,
                                buffer |-> "pending"]]
                 /\ inflight' = inflight \cup {[op |-> ops + 1, job |-> job, class |-> class,
                                                slot |-> i, map |-> "waiting"]}
                 /\ gpuOps' = Append(gpuOps, ops + 1)
                 /\ nextJob' = nextJob + 1
                 /\ round' = [round EXCEPT !.submitted = @ + 1]
                 /\ UNCHANGED results
    /\ UNCHANGED <<decodeCalls, jobs, spins, late>>

\* The job cannot be put into the slot's buffers: the slot is free again.
SubmitFails ==
    /\ MayMicroSubmit /\ "stage" \in DeviceFaults
    /\ try_acquire_gpu_decode_slot(jobs[nextJob]) # {}
    /\ results' = Append(results, CpuFallback(jobs[nextJob]))
    /\ nextJob' = nextJob + 1
    /\ round' = [round EXCEPT !.submitted = @ + 1]
    /\ UNCHANGED <<decodeCalls, pool, jobs, inflight, gpuOps, ops, spins, late>>

\* No free slot: a job that fits no slot at all goes to the CPU, one that fits waits.
NoSlot ==
    /\ MayMicroSubmit
    /\ try_acquire_gpu_decode_slot(jobs[nextJob]) = {}
    /\ IF \E c \in Classes : Fits(c, jobs[nextJob]) THEN
          /\ round' = [round EXCEPT !.stage = "wait", !.stalled = TRUE]
          /\ UNCHANGED <<nextJob, results>>
       ELSE
          /\ results' = Append(results, CpuFallback(jobs[nextJob]))
          /\ nextJob' = nextJob + 1
          /\ round' = [round EXCEPT !.submitted = @ + 1]
    /\ UNCHANGED <<decodeCalls, pool, jobs, inflight, gpuOps, ops, spins, late>>

SubmitStageEnds ==
    /\ round.stage = "submit" /\ ~MayMicroSubmit
    /\ round' = [round EXCEPT !.stage = "wait"]
    /\ UNCHANGED <<decodeCalls, pool, jobs, nextJob, inflight, gpuOps, ops, spins, results, late>>

NoProgress == round.completed = 0 /\ round.submitted = 0

\* Without progress the loop yields, and from time to time blocks until the device has
\* finished everything.
EndRound ==
    /\ round.stage = "wait"
    /\ LET blocks == /\ NoProgress /\ spins + 1 >= SpinPolls
                     /\ round.stalled \/ Cardinality(inflight) >= WaitHigh
       IN  /\ blocks => gpuOps = <<>>
           /\ spins' = IF ~NoProgress \/ blocks THEN 0
                       ELSE IF spins < SpinPolls THEN spins + 1 ELSE spins
    /\ round' = [NewRound EXCEPT !.stage =
                   IF nextJob > Len(jobs) /\ inflight = {} THEN "returned" ELSE "complete"]
    /\ pool' = IF round'.stage = "returned" THEN recycle_gpu_decode_ready_slots(pool) ELSE pool
    /\ results' = IF round'.stage = "returned"
                  THEN ByChunk(results) ELSE results
    /\ UNCHANGED <<decodeCalls, jobs, nextJob, inflight, gpuOps, ops, late>>

\* The caller takes the results and comes back with its next batch.
NextDecodeCall ==
    /\ round.stage \in {"returned", "failed"} /\ decodeCalls # <<>>
    /\ decodeCalls' = Tail(decodeCalls)
    /\ round' = [NewRound EXCEPT !.stage = IF decodeCalls' = <<>> THEN "done" ELSE "call"]
    /\ jobs' = <<>> /\ nextJob' = 1 /\ results' = <<>> /\ spins' = 0
    /\ UNCHANGED <<pool, inflight, gpuOps, ops, late>>

DecodeLoop == BeginDecode \/ CompleteStage \/ SubmitJob \/ SubmitFails \/ NoSlot
              \/ SubmitStageEnds \/ EndRound \/ NextDecodeCall

DecodeEnded == round.stage \in {"done", "panicked"} /\ gpuOps = <<>> /\ UNCHANGED slotVars

GpuDecodeNext == DecodeLoop \/ DeviceFinishes \/ DecodeEnded

--------------------------------------------------------------------------------
GpuDecodeTypeOK ==
    /\ \A c \in Classes : \A i \in Slots(c) :
          /\ pool[c].slots[i].state \in {"free", "inflight", "ready"}
          /\ pool[c].slots[i].buffer \in {"unmapped", "pending", "mapped"}
    /\ nextJob \in 1 .. Len(jobs) + 1
    /\ round.stage \in {"call", "complete", "submit", "wait", "returned", "failed",
                        "panicked", "done"}

\* A call answers every chunk it was asked for exactly once and in their order, and what
\* it says the device decoded is that chunk and not the one the slot held before or after.
AnswersExact ==
    round.stage = "returned" =>
        /\ [i \in DOMAIN results |-> results[i].chunk]
              = [i \in DOMAIN Head(decodeCalls) |-> Head(decodeCalls)[i].chunk]
        /\ \A i \in DOMAIN results : results[i].gpu \in {0, results[i].chunk}

\* A slot that is in flight belongs to one submission, and a slot is only reused with its
\* buffer unmapped, unless a mapping was given up: that is the one way to panic.
SlotsSound ==
    /\ \A s, u \in inflight : s # u => <<s.class, s.slot>> # <<u.class, u.slot>>
    /\ \A s \in inflight : pool[s.class].slots[s.slot].op = s.op
    /\ round.stage = "panicked" => late # {}
    /\ round.stage \in {"returned", "call", "done"} =>
          \A c \in Classes : \A i \in Slots(c) :
             /\ pool[c].slots[i].state = "free"
             /\ pool[c].slots[i].buffer = "unmapped" \/ pool[c].slots[i].op \in late
================================================================================

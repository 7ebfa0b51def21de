---------------------------- MODULE PdeflateInMemory -----------------------------
(* pdeflate_compress_with_stats and pdeflate_decompress_into_with_stats: a whole  *)
(* buffer at a time, by CPU and GPU workers that share queues of chunk numbers.   *)
(* compress_stream_chunk_batch compresses with the same scheduler.                *)
(*                                                                                *)
(* A compressed stream is a sequence of chunks and what follows the last one.     *)
(* What one chunk becomes is left to the codec, what a batch becomes on the       *)
(* device to PdeflateGpuBatch and PdeflateGpuDecode: here it succeeds, fails or   *)
(* panics.                                                                        *)
EXTENDS Integers, Sequences, FiniteSets, SequencesExt

CONSTANTS
    CpuSide, GpuSide,  \* the threads: cpu_worker_count and gpu_workers of them
    GpuBatchLimit,     \* gpu_batch_limit of both directions
    TailStopPercent,   \* gpu_tail_stop_ratio
    MemorySetups,      \* of [chunks, eligible, policy, gpu, force]: an input and its options
    DamagedStreams,    \* streams that no compressor wrote
    MemoryFaults       \* of {"cpu", "gpu", "panic", "mismatch"}: what may go wrong

ASSUME MemoryAssumption ==
    /\ CpuSide # {} /\ CpuSide \cap GpuSide = {}
    /\ GpuBatchLimit \in Nat \ {0} /\ TailStopPercent \in 0 .. 100
    /\ MemorySetups \subseteq [chunks : Nat, eligible : SUBSET Nat, policy : {"global", "split"},
                               gpu : BOOLEAN, force : BOOLEAN]
    /\ \A s \in MemorySetups : s.eligible \subseteq 1 .. s.chunks /\ (s.gpu => GpuSide # {})
    /\ DamagedStreams \subseteq
          [chunks : Seq([id : Nat, final : BOOLEAN, parses : BOOLEAN, decodes : BOOLEAN]),
           rest : BOOLEAN]
    /\ MemoryFaults \subseteq {"cpu", "gpu", "panic", "mismatch"}

VARIABLES
    setup,     \* the input of this run and the options of its calls
    call,      \* [stage, result, stream]: what the caller is at
    queues,    \* [all, cpu, gpu]: CompressTaskQueueState; decoding has "all" only
    workers,   \* thread -> [stage, held, done]; "done" are a decoder's own results
    slots,     \* results: chunk -> {} or the chunk it was compressed from
    slices,    \* chunk -> the threads that wrote to its part of the output
    err        \* err_slot, which err_flag follows

memoryVars == <<setup, call, queues, workers, slots, slices, err>>

Threads == CpuSide \cup GpuSide

\* The scope has one CPU worker at least, none when the GPU is forced on a decoder, and
\* GPU workers only with a device; a decoder has one of those.
Spawned(decoding) ==
    (IF decoding /\ setup.force THEN {} ELSE CpuSide)
    \cup (IF ~setup.gpu THEN {} ELSE IF decoding THEN {CHOOSE g \in GpuSide : TRUE} ELSE GpuSide)

Idle(t, decoding) == [stage |-> IF t \in Spawned(decoding) THEN "top" ELSE "left",
                      held |-> <<>>, done |-> <<>>]

MemoryInit ==
    /\ setup \in MemorySetups
    /\ call = [stage |-> "start", result |-> "none", stream |-> <<>>]
    /\ queues = [all |-> <<>>, cpu |-> <<>>, gpu |-> <<>>]
    /\ workers = [t \in Threads |-> [stage |-> "left", held |-> <<>>, done |-> <<>>]]
    /\ slots = <<>> /\ slices = <<>> /\ err = "none"

--------------------------------------------------------------------------------
\* Compressing.

\* Those of a queue that are in S, in their order.
Kept(q, S) ==
    LET kept[n \in 0 .. Len(q)] == IF n = 0 THEN <<>>
                                   ELSE IF q[n] \in S THEN Append(kept[n - 1], q[n])
                                   ELSE kept[n - 1]
    IN  kept[Len(q)]

Numbers(n)      == [i \in 1 .. n |-> i]
OnDevice(i)     == setup.gpu /\ i \in setup.eligible
InitialQueues(n) ==
    IF setup.policy = "global" THEN [all |-> Numbers(n), cpu |-> <<>>, gpu |-> <<>>]
    ELSE [all |-> <<>>, cpu |-> Kept(Numbers(n), {i \in 1 .. n : ~OnDevice(i)}),
          gpu |-> Kept(Numbers(n), {i \in 1 .. n : OnDevice(i)})]

CompressCall ==
    /\ call.stage = "start"
    /\ call' = [call EXCEPT !.stage = "compress"]
    /\ queues' = InitialQueues(setup.chunks)
    /\ workers' = [t \in Threads |-> Idle(t, FALSE)]
    /\ slots' = [i \in 1 .. setup.chunks |-> {}]
    /\ UNCHANGED <<setup, slices, err>>

Goes(t, stage) == workers' = [workers EXCEPT ![t].stage = stage]

\* A worker looks at the error flag before it looks for work.
LooksAtError(t) ==
    /\ workers[t].stage = "top"
    /\ Goes(t, IF err = "none" THEN "pop" ELSE "left")
    /\ UNCHANGED <<setup, call, queues, slots, slices, err>>

should_stop_gpu_tail_pop(remaining) ==
    /\ TailStopPercent < 100 /\ setup.chunks > 0
    /\ (setup.chunks - remaining) * 100 >= TailStopPercent * setup.chunks

\* Slips: a CPU worker does not wait for the tail of the device, or waits for ever.
SourceNow ==
    IF setup.policy = "global" THEN (IF queues.all = <<>> THEN "none" ELSE "all")
    ELSE IF queues.cpu # <<>> THEN "cpu"
    ELSE IF queues.gpu # <<>> /\ should_stop_gpu_tail_pop(Len(queues.gpu)) THEN "gpu" ELSE "none"
SourceNever ==
    IF setup.policy = "global" THEN (IF queues.all = <<>> THEN "none" ELSE "all")
    ELSE IF queues.cpu # <<>> THEN "cpu"
    ELSE IF queues.gpu = <<>> THEN "none" ELSE "retry"

\* What a CPU worker may take: the queue it pops, or that there is nothing for it, or that
\* the device still leads.
CpuSource ==
    IF setup.policy = "global" THEN (IF queues.all = <<>> THEN "none" ELSE "all")
    ELSE IF queues.cpu # <<>> THEN "cpu"
    ELSE IF queues.gpu = <<>> THEN "none"
    ELSE IF should_stop_gpu_tail_pop(Len(queues.gpu)) THEN "gpu" ELSE "retry"

CpuPops(t) ==
    /\ call.stage = "compress" /\ t \in CpuSide /\ workers[t].stage = "pop"
    /\ CASE CpuSource = "none"  -> Goes(t, "left") /\ UNCHANGED queues
         [] CpuSource = "retry" -> Goes(t, "top") /\ UNCHANGED queues
         [] OTHER -> /\ workers' = [workers EXCEPT ![t] =
                            [@ EXCEPT !.stage = "work", !.held = <<Head(queues[CpuSource])>>]]
                     /\ queues' = [queues EXCEPT ![CpuSource] = Tail(@)]
    /\ UNCHANGED <<setup, call, slots, slices, err>>

BatchFrom(q)   == SubSeq(q, 1, IF Len(q) < GpuBatchLimit THEN Len(q) ELSE GpuBatchLimit)
EligibleOf(q)  == Kept(q, setup.eligible)

\* A GPU worker takes a batch, or leaves: on the shared queue it takes the eligible ones
\* from wherever they are.
GpuBatchOf ==
    IF setup.policy = "global" THEN BatchFrom(EligibleOf(queues.all))
    ELSE IF should_stop_gpu_tail_pop(Len(queues.gpu)) THEN <<>>
    ELSE BatchFrom(queues.gpu)

Without(q, taken) == Kept(q, ToSet(q) \ ToSet(taken))

GpuTakes(t, batch) ==
    /\ IF batch = <<>> THEN Goes(t, "left")
       ELSE workers' = [workers EXCEPT ![t] = [@ EXCEPT !.stage = "work", !.held = batch]]
    /\ queues' = [queues EXCEPT !.all = Without(@, batch), !.gpu = Without(@, batch)]

GpuPops(t) ==
    /\ call.stage = "compress" /\ t \in GpuSide /\ workers[t].stage = "pop"
    /\ GpuTakes(t, GpuBatchOf)
    /\ UNCHANGED <<setup, call, slots, slices, err>>

set_worker_error_once(e) == err' = IF err = "none" THEN e ELSE err

\* The results of a chunk, or of a batch under one lock: a place that is taken is an error.
Stores(t) ==
    /\ call.stage = "compress" /\ workers[t].stage = "work"
    /\ IF \E i \in ToSet(workers[t].held) : slots[i] # {}
       THEN /\ Goes(t, "left") /\ set_worker_error_once("duplicate") /\ UNCHANGED slots
       ELSE /\ slots' = [i \in DOMAIN slots |-> IF i \in ToSet(workers[t].held) THEN {i}
                                                ELSE slots[i]]
            /\ workers' = [workers EXCEPT ![t] = [@ EXCEPT !.stage = "top", !.held = <<>>]]
            /\ UNCHANGED err
    /\ UNCHANGED <<setup, call, queues, slices>>

\* A codec or the device reports an error, and the worker leaves with it; or the device
\* has the thread panic, and nobody hears of it before all threads are joined.
Fails(t) ==
    /\ workers[t].stage = "work"
    /\ LET side == IF t \in CpuSide THEN "cpu" ELSE "gpu" IN
       \/ /\ side \in MemoryFaults /\ (call.stage = "decode" => side = "gpu")
          /\ Goes(t, "left") /\ set_worker_error_once(side)
       \/ /\ side = "gpu" /\ "panic" \in MemoryFaults
          /\ Goes(t, "panicked") /\ UNCHANGED err
    /\ UNCHANGED <<setup, call, queues, slots, slices>>

Joined == \A t \in Threads : workers[t].stage \in {"left", "panicked"}
Panicked == \E t \in Threads : workers[t].stage = "panicked"

Framed == [i \in DOMAIN slots |-> [id |-> CHOOSE c \in slots[i] : TRUE, final |-> i = Len(slots),
                                   parses |-> TRUE, decodes |-> TRUE]]

\* The scope passes a panic on; an error comes before a chunk that is missing; the chunks
\* are framed in order and the last one is flagged.
CompressReturns ==
    /\ call.stage = "compress" /\ Joined
    /\ call' = IF Panicked THEN [call EXCEPT !.stage = "returned", !.result = "panicked"]
               ELSE IF err # "none" THEN [call EXCEPT !.stage = "returned", !.result = err]
               ELSE IF \E i \in DOMAIN slots : slots[i] = {}
                    THEN [call EXCEPT !.stage = "returned", !.result = "missing"]
               ELSE [call EXCEPT !.stage = "written", !.result = "ok", !.stream = Framed]
    /\ UNCHANGED <<setup, queues, workers, slots, slices, err>>

--------------------------------------------------------------------------------
\* Decoding: the caller hands over the stream that was written, or another one, with
\* options of its own.

\* Up to the chunk that is flagged; then there must be nothing left.
Chunks(s) ==
    LET flagged == {i \in DOMAIN s.chunks : s.chunks[i].final}
    IN  IF flagged = {} THEN s.chunks
        ELSE SubSeq(s.chunks, 1, CHOOSE i \in flagged : \A k \in flagged : i <= k)

ParseError(s) ==
    IF \E i \in DOMAIN Chunks(s) : ~Chunks(s)[i].parses THEN "parse"
    ELSE IF s.rest /\ Chunks(s) = s.chunks /\ (s.chunks = <<>> \/ ~Last(s.chunks).final) THEN "cut"
    ELSE IF s.rest \/ Len(Chunks(s)) < Len(s.chunks) THEN "trailing"
    ELSE IF s.chunks # <<>> /\ ~Last(s.chunks).final THEN "final"
    ELSE "none"

DecodeCall ==
    /\ call.stage = "written"
    /\ \E s \in {[chunks |-> call.stream, rest |-> FALSE]} \cup DamagedStreams,
          options \in {o \in MemorySetups : o.chunks = setup.chunks} :
          /\ setup' = [options EXCEPT !.chunks = Len(Chunks(s)),
                          !.eligible = @ \cap 1 .. Len(Chunks(s)), !.policy = "global"]
          /\ call' = [stage |-> IF ParseError(s) = "none" THEN "spawn" ELSE "returned",
                      result |-> ParseError(s), stream |-> Chunks(s)]
          /\ queues' = [queues EXCEPT !.all = Numbers(Len(Chunks(s)))]
          /\ slices' = [i \in DOMAIN Chunks(s) |-> <<>>]
    /\ UNCHANGED <<workers, slots, err>>

SpawnDecoders ==
    /\ call.stage = "spawn"
    /\ call' = [call EXCEPT !.stage = "decode"]
    /\ workers' = [t \in Threads |-> Idle(t, TRUE)]
    /\ UNCHANGED <<setup, queues, slots, slices, err>>

\* The forced GPU takes whatever is at the front.
DecoderPops(t) ==
    /\ call.stage = "decode" /\ workers[t].stage = "pop"
    /\ IF t \in GpuSide
       THEN GpuTakes(t, BatchFrom(IF setup.force THEN queues.all ELSE EligibleOf(queues.all)))
       ELSE GpuTakes(t, IF queues.all = <<>> THEN <<>> ELSE <<Head(queues.all)>>)
    /\ UNCHANGED <<setup, call, slots, slices, err>>

\* A chunk goes straight to its part of the output: decoded by the CPU, also when the
\* device did not or gave the wrong length; and its result stays with the worker.
Decodes(t) ==
    /\ call.stage = "decode" /\ workers[t].stage = "work"
    /\ LET i == Head(workers[t].held) IN
       \E gpu \in IF t \in GpuSide THEN BOOLEAN ELSE {FALSE} :
          LET ok == gpu \/ call.stream[i].decodes
          IN  /\ gpu => call.stream[i].decodes
              /\ slices' = [slices EXCEPT ![i] = Append(@, IF ok THEN call.stream[i].id ELSE 0)]
              /\ workers' = [workers EXCEPT ![t] =
                    [stage |-> IF Tail(@.held) = <<>> THEN "top" ELSE "work",
                     held |-> Tail(@.held), done |-> Append(@.done, [chunk |-> i, ok |-> ok])]]
    /\ UNCHANGED <<setup, call, queues, slots, err>>

\* The device answers with another number of results than it was asked for.
Mismatched(t) ==
    /\ call.stage = "decode" /\ t \in GpuSide /\ workers[t].stage = "work"
    /\ "mismatch" \in MemoryFaults
    /\ Goes(t, "left") /\ set_worker_error_once("mismatch")
    /\ UNCHANGED <<setup, call, queues, slots, slices>>

Results == UNION {ToSet(workers[t].done) : t \in Threads}

\* After the joins: a panic, an error of a worker, a result twice, a chunk that does not
\* decode, a chunk that nobody decoded.
DecodeReturns ==
    /\ call.stage = "decode" /\ Joined
    /\ call' = [call EXCEPT !.stage = "returned", !.result =
          IF Panicked THEN "panicked"
          ELSE IF err # "none" THEN err
          ELSE IF \E i \in DOMAIN slices :
                     FoldSet(LAMBDA t, n : n + Len(SelectSeq(workers[t].done,
                                                      LAMBDA r : r.chunk = i)), 0, Threads) > 1
               THEN "duplicate"
          ELSE IF \E r \in Results : ~r.ok THEN "damaged"
          ELSE IF \E i \in DOMAIN slices : \A r \in Results : r.chunk # i THEN "missing"
          ELSE "ok"]
    /\ UNCHANGED <<setup, queues, workers, slots, slices, err>>

MemoryWorker(t) ==
    LooksAtError(t) \/ CpuPops(t) \/ GpuPops(t) \/ Stores(t) \/ Fails(t) \/ DecoderPops(t)
    \/ Decodes(t) \/ Mismatched(t)

MemoryCaller == CompressCall \/ CompressReturns \/ DecodeCall \/ SpawnDecoders \/ DecodeReturns

MemoryEnded == call.stage = "returned" /\ UNCHANGED memoryVars

MemoryNext == MemoryCaller \/ (\E t \in Threads : MemoryWorker(t)) \/ MemoryEnded

MemorySpec == MemoryInit /\ [][MemoryNext]_memoryVars

--------------------------------------------------------------------------------
\* compress_chunks_hybrid returns every chunk, compressed from its own bytes and in order,
\* and it fails only when a codec or the device did: whatever the order the workers came
\* and left in, the tail that the device leaves behind finds a CPU worker.
CompressExact ==
    /\ call.stage = "written" =>
          [i \in DOMAIN call.stream |-> call.stream[i].id] = Numbers(setup.chunks)
    /\ err \in {"none"} \cup MemoryFaults
    /\ call.result # "missing" \/ slices # <<>>

\* No two workers decode into the same part of the output; a buffer is only called
\* decoded when each part has its own chunk; and a stream that the compressor wrote is
\* decoded unless the device fails or is forced and not there.
DecodeExact ==
    /\ \A i \in DOMAIN slices : Len(slices[i]) <= 1
    /\ call.stage = "returned" /\ call.result = "ok" =>
          \A i \in DOMAIN slices : slices[i] = <<call.stream[i].id>>
    /\ call.stage = "returned" /\ call.result = "missing" => setup.force /\ ~setup.gpu

\* A buffer that was compressed is its chunks in order, and is decoded into them.
InMemorySound == CompressExact /\ DecodeExact
================================================================================

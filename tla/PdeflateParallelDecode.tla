------------------------- MODULE PdeflateParallelDecode -------------------------
(* The PDeflate decompressor that writes to a file in parallel (stream.rs,     *)
(* decompress_file_parallel_write_with_stats).  A producer reads frames until  *)
(* one says it is the last, CPU workers and one GPU worker decode chunks and   *)
(* submit them, each at its offset, to a parallel file writer, which throttles *)
(* them; when all threads are joined the caller drains the writer.             *)
(*                                                                             *)
(* The writer is the module this one extends: its clients are the workers and  *)
(* its writes are the chunks.  Shared state of the decoder is behind a mutex   *)
(* and a condition variable of its own, but for the error slot and its flag.   *)
EXTENDS ParallelFileWriter

CONSTANTS
    CpuWorkers,      \* the CPU workers that a call may have
    GpuWorkers,      \* the GPU worker that a call may have
    NumChunks,       \* frames in the stream
    GpuBatchLimit,   \* gpu_decode_batch_limit
    GpuMinChunkSize, \* options.gpu_min_chunk_size
    Calls            \* the calls that are made, see Call

Chunks == 0 .. NumChunks - 1

\* A call: its workers (no CPU worker under gpu_decompress_force_gpu, no GPU worker
\* without a runtime), its scheduler policy, the chunks that are marked final, what
\* may fail ("read", "decode", "gpu": a batch, "fallback": a chunk of a batch that
\* the GPU hands back, or forgets) and the writer's setup.
Call == [workers : SUBSET (CpuWorkers \union GpuWorkers),
         policy  : {"GlobalQueue", "GpuLedSplitQueue"},
         final   : SUBSET Chunks,
         faults  : SUBSET {"read", "decode", "gpu", "fallback"},
         setup   : Setups]

\* What is asked of the constants.
DecodeAssumption ==
    /\ CpuWorkers \intersect GpuWorkers = {}
    /\ Clients = CpuWorkers \union GpuWorkers
    /\ NumChunks \in Nat /\ Writes = Chunks
    /\ GpuBatchLimit \in Nat \ {0} /\ GpuMinChunkSize \in Nat
    /\ Calls \subseteq Call

--------------------------------------------------------------------------------
VARIABLES
    call,     \* the call, one of Calls, which does not change
    queued,   \* the chunks of queue, cpu_queue and gpu_queue, see QueueOf
    produced, \* StreamDecodeState.produced_count
    eof,      \* StreamDecodeState.producer_eof
    halted,   \* StreamDecodeState.stopped
    dozing,   \* workers asleep on the decoder's condition variable
    err_slot, \* the error slot holds an error
    err_flag, \* its flag, which is never cleared
    producer, \* where the producer thread is
    worker,   \* where each worker is
    batch,    \* chunks that each worker took and has not submitted
    result    \* "none" while the call runs, then "ok" or "error"

queueVars   == <<queued, produced, eof>>
errVars     == <<err_slot, err_flag>>
decodeVars  == <<call, queueVars, halted, dozing, errVars, producer, worker, batch, result>>
parallelVars == <<writerVars, decodeVars>>

ParallelInit ==
    /\ WriterInit
    /\ call \in Calls /\ setup = call.setup
    /\ queued = {} /\ produced = 0 /\ eof = FALSE /\ halted = FALSE /\ dozing = {}
    /\ err_slot = FALSE /\ err_flag = FALSE
    /\ producer = "read"
    /\ worker = [w \in Clients |-> IF w \in call.workers THEN "top" ELSE "done"]
    /\ batch = [w \in Clients |-> {}]
    /\ result = "none"

Fault(what) == what \in call.faults
GpuSized(c) == Size[c] >= GpuMinChunkSize
Shared == call.policy = "GlobalQueue"
Eligible(c) == call.workers \intersect GpuWorkers # {} /\ GpuSized(c)

\* Split queues partition what is queued; the shared queue is taken by CPU workers
\* from the front and searched by the GPU worker for chunks worth its while.
QueueOf(w) ==
    IF w \in GpuWorkers THEN {c \in queued : IF Shared THEN GpuSized(c) ELSE Eligible(c)}
    ELSE {c \in queued : Shared \/ ~Eligible(c)}

--------------------------------------------------------------------------------
(* Slips: definitions below as a plausible mistake would write them.           *)

\* The caller looks at what the drain returns only.
CallerReturnsDrained ==
    /\ result = "none" /\ drainer \in {"ok", "failed"}
    /\ result' = IF drainer = "failed" THEN "error" ELSE "ok"
    /\ UNCHANGED <<call, queueVars, halted, dozing, errVars, producer, worker, batch>>
    /\ UNCHANGED writerVars

--------------------------------------------------------------------------------
\* set_worker_error_once
RecordError == err_slot' = TRUE /\ err_flag' = (err_flag \/ ~err_slot)

Halt == halted' = TRUE /\ dozing' = {}

(* The producer.  It looks neither at the error flag nor at `stopped`, and what *)
(* it queues is not bounded.                                                    *)

\* Each error of the reader is recorded before the lock is taken.
ReadFails ==
    /\ producer = "read" /\ Fault("read")
    /\ RecordError
    /\ producer' = "fail"
    /\ UNCHANGED <<call, queueVars, halted, dozing, worker, batch, result>>

ProducerStops ==
    /\ producer = "fail"
    /\ Halt
    /\ producer' = "done"
    /\ UNCHANGED <<call, queueVars, errVars, worker, batch, result>>

\* Without a frame the stream is empty; with frames one must have been the last.
StreamEnds ==
    /\ producer = "read" /\ produced = NumChunks
    /\ eof' = (produced = 0)
    /\ IF produced = 0 THEN UNCHANGED <<halted, errVars>> ELSE halted' = TRUE /\ RecordError
    /\ dozing' = {}
    /\ producer' = "done"
    /\ UNCHANGED <<call, queued, produced, worker, batch, result>>

\* A frame is read and pushed; behind a final one there must be nothing.
ReadFrame ==
    /\ producer = "read" /\ produced < NumChunks
    /\ queued' = queued \union {produced}
    /\ produced' = produced + 1
    /\ \/ /\ produced \notin call.final
          /\ dozing' = {}
          /\ UNCHANGED <<eof, halted, errVars, producer>>
       \/ /\ produced \in call.final /\ produced + 1 = NumChunks
          /\ eof' = TRUE /\ producer' = "done" /\ dozing' = {}
          /\ UNCHANGED <<halted, errVars>>
       \/ /\ produced \in call.final /\ (produced + 1 < NumChunks \/ Fault("read"))
          /\ RecordError /\ Halt /\ producer' = "done"
          /\ UNCHANGED eof
    /\ UNCHANGED <<call, worker, batch, result>>

Producer == ReadFails \/ ProducerStops \/ StreamEnds \/ ReadFrame

--------------------------------------------------------------------------------
(* The workers.                                                                *)

WorkerTop(w) ==
    /\ worker[w] = "top"
    /\ worker' = [worker EXCEPT ![w] = IF err_flag THEN "done" ELSE "pop"]
    /\ UNCHANGED <<call, queueVars, halted, dozing, errVars, producer, batch, result>>

\* One task for a CPU worker, up to a batch for the GPU.
Taken(w) ==
    LET most == IF w \in CpuWorkers THEN 1 ELSE GpuBatchLimit
    IN  {c \in QueueOf(w) : Cardinality({d \in QueueOf(w) : d < c}) < most}

\* Tasks come before the end and before an error.
Pop(w) ==
    /\ worker[w] = "pop" /\ w \notin dozing /\ Taken(w) # {}
    /\ queued' = queued \ Taken(w)
    /\ batch' = [batch EXCEPT ![w] = Taken(w)]
    /\ worker' = [worker EXCEPT ![w] = "decode"]
    /\ UNCHANGED <<call, produced, eof, halted, dozing, errVars, producer, result>>

NoMoreWork(w) == (eof /\ QueueOf(w) = {}) \/ halted \/ err_flag

PopNothing(w) ==
    /\ worker[w] = "pop" /\ w \notin dozing /\ Taken(w) = {}
    /\ IF NoMoreWork(w)
         THEN worker' = [worker EXCEPT ![w] = "done"] /\ UNCHANGED dozing
         ELSE dozing' = dozing \union {w} /\ UNCHANGED worker
    /\ UNCHANGED <<call, queueVars, halted, errVars, producer, batch, result>>

\* A CPU worker decodes its task, the GPU worker its batch.
Decode(w) ==
    /\ worker[w] = "decode"
    /\ \/ worker' = [worker EXCEPT ![w] = "submit"] /\ UNCHANGED errVars
       \/ /\ Fault(IF w \in CpuWorkers THEN "decode" ELSE "gpu")
          /\ RecordError /\ worker' = [worker EXCEPT ![w] = "fail"]
    /\ UNCHANGED <<call, queueVars, halted, dozing, producer, batch, result>>

\* A chunk that the GPU hands back is decoded here when its turn comes, after the
\* chunks before it were submitted.
FallbackFails(w) ==
    /\ w \in GpuWorkers /\ worker[w] = "submit" /\ Fault("fallback")
    /\ RecordError
    /\ worker' = [worker EXCEPT ![w] = "fail"]
    /\ UNCHANGED <<call, queueVars, halted, dozing, producer, batch, result>>

\* The chunks of a batch are submitted in order.
SubmitNext(w) ==
    /\ worker[w] = "submit"
    /\ \E c \in batch[w] :
          /\ \A d \in batch[w] : c <= d
          /\ Submit(w, c)
          /\ batch' = [batch EXCEPT ![w] = @ \ {c}]
    /\ worker' = [worker EXCEPT ![w] = "submitting"]
    /\ UNCHANGED <<call, queueVars, halted, dozing, errVars, producer, result>>

SubmitReturns(w) ==
    /\ worker[w] = "submitting" /\ Return(w)
    /\ IF client[w] = "failed"
         THEN RecordError /\ worker' = [worker EXCEPT ![w] = "fail"]
         ELSE /\ worker' = [worker EXCEPT ![w] = IF batch[w] = {} THEN "top" ELSE "submit"]
              /\ UNCHANGED errVars
    /\ UNCHANGED <<call, queueVars, halted, dozing, producer, batch, result>>

\* stop_decode_state
StopDecode(w) ==
    /\ worker[w] = "fail"
    /\ Halt
    /\ worker' = [worker EXCEPT ![w] = "done"]
    /\ UNCHANGED <<call, queueVars, errVars, producer, batch, result>>

Worker(w) ==
    \/ /\ \/ WorkerTop(w) \/ Pop(w) \/ PopNothing(w) \/ Decode(w) \/ FallbackFails(w)
          \/ StopDecode(w)
       /\ UNCHANGED writerVars
    \/ SubmitNext(w) \/ SubmitReturns(w)
    \/ Client(w) /\ UNCHANGED decodeVars

--------------------------------------------------------------------------------
(* The calling thread: the scope joins every thread, and the writer is drained. *)

CallerDrains ==
    /\ producer = "done" /\ \A w \in Clients : worker[w] = "done"
    /\ Drain /\ UNCHANGED decodeVars

\* An error of the drain comes first, then the one the threads recorded.
CallerReturns ==
    /\ result = "none" /\ drainer \in {"ok", "failed"}
    /\ result' = IF drainer = "failed" \/ err_slot THEN "error" ELSE "ok"
    /\ err_slot' = (err_slot /\ drainer = "failed")
    /\ UNCHANGED <<call, queueVars, halted, dozing, err_flag, producer, worker, batch>>
    /\ UNCHANGED writerVars

Spurious == \E w \in dozing : dozing' = dozing \ {w}

Returned == result # "none" /\ UNCHANGED parallelVars

ParallelNext ==
    \/ Producer /\ UNCHANGED writerVars
    \/ \E w \in Clients : Worker(w)
    \/ CallerDrains \/ CallerReturns
    \/ WriterInternal /\ UNCHANGED decodeVars
    \/ Spurious /\ UNCHANGED <<call, queueVars, halted, errVars, producer, worker, batch, result>>
       /\ UNCHANGED writerVars
    \/ Returned

\* Every thread is scheduled, system calls return, and no wake-up is for free.
ParallelFairness ==
    /\ WF_parallelVars(Producer /\ UNCHANGED writerVars)
    /\ \A w \in Clients : WF_parallelVars(Worker(w))
    /\ WF_parallelVars(CallerDrains) /\ WF_parallelVars(CallerReturns)
    /\ WF_parallelVars(Ring /\ UNCHANGED decodeVars)
    /\ WF_parallelVars(Iocp /\ UNCHANGED decodeVars)
    /\ WF_parallelVars(Draining /\ UNCHANGED decodeVars)
    /\ \A w \in PoolWorkers : WF_parallelVars(Pool(w) /\ UNCHANGED decodeVars)

ParallelSpec == ParallelInit /\ [][ParallelNext]_parallelVars /\ ParallelFairness

--------------------------------------------------------------------------------
(* Properties.                                                                 *)

\* Types of the state.
ParallelTypes ==
    /\ WriterTypeOK
    /\ call \in Calls /\ queued \subseteq Chunks /\ produced \in 0 .. NumChunks
    /\ eof \in BOOLEAN /\ halted \in BOOLEAN /\ dozing \subseteq Clients
    /\ err_slot \in BOOLEAN /\ err_flag \in BOOLEAN
    /\ producer \in {"read", "fail", "done"}
    /\ worker \in [Clients -> {"top", "pop", "decode", "submit", "submitting", "fail", "done"}]
    /\ batch \in [Clients -> SUBSET Chunks]
    /\ result \in {"none", "ok", "error"}

Submitted == (UNION {request[w] : w \in Clients}) \union accepted

\* A chunk that was produced is in one place, queued, in the batch of one worker, or
\* submitted to the writer; only a worker that recorded an error loses what it held.
ChunkAccounting ==
    /\ ParallelTypes
    /\ \A w \in Clients :
          /\ batch[w] \intersect (queued \union Submitted) = {}
          /\ \A v \in Clients \ {w} :
                batch[w] \intersect batch[v] = {} /\ request[w] \intersect request[v] = {}
    /\ queued \intersect Submitted = {}
    /\ ~err_flag =>
          0 .. produced - 1 = queued \union Submitted \union UNION {batch[w] : w \in Clients}

\* Chunks that none of the call's workers takes: without CPU workers the chunks the
\* GPU leaves alone, or all of them where there is no GPU worker either.
Orphans ==
    {c \in Chunks : call.workers \intersect CpuWorkers = {}
                       /\ (call.workers = {} \/ ~GpuSized(c))}

\* The chunks are accounted for on their way, and a call that returns without an error
\* has written every chunk of a stream that marks its last chunk and no other one, but
\* for the chunks no worker takes.
OkMeansWholeFile ==
    /\ ChunkAccounting
    /\ result = "ok" =>
          /\ \A c \in Chunks \ Orphans : left[c] = 0
          /\ call.final = {c \in Chunks : c + 1 = NumChunks}

\* The call returns, unless the drain may wait in vain; a submit may as well, see
\* MayStay of the writer.
DecodeEnds    == result # "none" \/ MayStay
DecodeReturns == <>DecodeEnds
================================================================================

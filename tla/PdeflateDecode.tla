----------------------------- MODULE PdeflateDecode -----------------------------
(* The streaming PDeflate decompressor of cozip_pdeflate (stream.rs,           *)
(* decompress_reader_with_stats): a producer thread reads frames until one     *)
(* says it is the last, CPU workers and one GPU worker decode chunks in any    *)
(* order, and the calling thread writes them in index order.  The results that *)
(* wait for their turn are throttled: past a limit, nobody takes anything but  *)
(* the chunk that is to be written next.                                       *)
(*                                                                             *)
(* As in PdeflateCompress, all shared state is behind one mutex with one       *)
(* condition variable, but for the error slot and its flag; one action is one  *)
(* critical section, or one step between two of them.                          *)
EXTENDS Integers, Sequences, FiniteSets, ChunkBytes

CONSTANTS
    CpuWorkers,      \* the CPU worker threads; none under gpu_decompress_force_gpu
    GpuWorkers,      \* the GPU worker thread, or none
    NumChunks,       \* frames in the stream
    DecodedBytes,    \* uncompressed length of a set of chunks (additive)
    ChunkSize,       \* the largest uncompressed length of a chunk
    ResultLimit,     \* result_limit_bytes
    GpuBatchLimit,   \* gpu_decode_batch_limit
    GpuMinChunkSize, \* options.gpu_min_chunk_size
    Calls            \* the calls that are made, see Call

Chunks  == 0 .. NumChunks - 1
Workers == CpuWorkers \union GpuWorkers
Actors  == Workers \union {"producer", "writer"}

\* What a call is given: the scheduler policy of its options, the chunks whose
\* frame carries FINAL_STREAM, and what may fail: "read" (or a malformed frame),
\* "decode", "gpu" (a whole batch), "fallback" (one chunk of a batch that the GPU
\* hands back, or forgets), "write".
Call == [policy : {"GlobalQueue", "GpuLedSplitQueue"},
         final  : SUBSET Chunks,
         faults : SUBSET {"read", "decode", "gpu", "fallback", "write"}]

ASSUME WorkersAssumption ==
    /\ IsFiniteSet(CpuWorkers) /\ IsFiniteSet(GpuWorkers)
    /\ CpuWorkers \intersect GpuWorkers = {}
    /\ "producer" \notin Workers /\ "writer" \notin Workers

ASSUME OptionsAssumption ==
    /\ NumChunks \in Nat /\ ChunkSize \in Nat
    /\ ResultLimit \in Nat \ {0}
    /\ GpuBatchLimit \in Nat \ {0} /\ GpuMinChunkSize \in Nat
    /\ Calls \subseteq Call

ASSUME BytesAssumption ==
    /\ Additive(DecodedBytes, Chunks)
    /\ \A c \in Chunks : DecodedBytes[{c}] <= ChunkSize

--------------------------------------------------------------------------------
VARIABLES
    call,                  \* the call, one of Calls, which does not change
    queue,                 \* StreamDecodeState.queue: indexes, see Push
    cpu_queue,             \* StreamDecodeState.cpu_queue
    gpu_queue,             \* StreamDecodeState.gpu_queue
    produced_count,        \* StreamDecodeState.produced_count, and results.len()
    producer_eof,          \* StreamDecodeState.producer_eof
    stopped,               \* StreamDecodeState.stopped
    results,               \* StreamDecodeState.results: indexes whose slot is Some
    buffered_result_bytes, \* StreamDecodeState.buffered_result_bytes
    next_write_index,      \* StreamDecodeState.next_write_index
    waiters,               \* threads asleep on the condition variable
    err_slot,              \* the error slot holds an error
    err_flag,              \* its flag, which is never cleared
    producer,              \* where the producer thread is
    worker,                \* where each worker thread is
    held,                  \* chunks in the hands of each thread
    writer,                \* where the calling thread is
    next_index,            \* local to the calling thread
    output,                \* chunks written
    result                 \* "none" while the call runs, then "ok" or "error"

queueVars  == <<queue, cpu_queue, gpu_queue>>
inputVars  == <<call, produced_count, producer_eof>>
resultVars == <<results, buffered_result_bytes, next_write_index>>
errVars    == <<err_slot, err_flag>>
writerVars == <<writer, next_index, output, result>>
vars == <<queueVars, inputVars, stopped, resultVars, waiters, errVars, producer, worker,
          held, writerVars>>

Policy == call.policy
Faults == call.faults
Final  == call.final

\* A well-formed stream marks its last chunk and no other one; the reader may
\* be given any other as well.
Init ==
    /\ call \in Calls
    /\ queue = {} /\ cpu_queue = {} /\ gpu_queue = {}
    /\ produced_count = 0 /\ producer_eof = FALSE /\ stopped = FALSE
    /\ results = {} /\ buffered_result_bytes = 0 /\ next_write_index = 0
    /\ waiters = {}
    /\ err_slot = FALSE /\ err_flag = FALSE
    /\ producer = "read"
    /\ worker = [w \in Workers |-> "top"]
    /\ held = [a \in Actors |-> {}]
    /\ writer = "next" /\ next_index = 0 /\ output = <<>> /\ result = "none"

Eligible(c) == GpuWorkers # {} /\ DecodedBytes[{c}] >= GpuMinChunkSize

\* The queue a worker takes from.
QueueOf(w) ==
    IF Policy = "GlobalQueue" THEN queue
    ELSE IF w \in CpuWorkers THEN cpu_queue ELSE gpu_queue

\* What a worker may take: on the shared queue the GPU leaves small chunks alone.
Suitable(w) ==
    IF w \in GpuWorkers /\ Policy = "GlobalQueue"
      THEN {c \in QueueOf(w) : DecodedBytes[{c}] >= GpuMinChunkSize}
      ELSE QueueOf(w)

FirstOf(chunks) == {c \in chunks : \A d \in chunks : c <= d}

--------------------------------------------------------------------------------
(* Slips: definitions below as a plausible mistake would write them.  Nothing  *)
(* here is part of the specification; each shows that a property can fail.     *)

\* Whatever follows the final chunk is not looked at.
TrailingNever(c) == FALSE

\* The tasks are read and stay in the queue.
RemovePeek(batch) == UNCHANGED queueVars

\* Past the limit nobody takes anything.
HeadOfNobody(w) == {}

\* A batch of the GPU may start with the head, and goes on.
HeadOfAndMore(w) == Suitable(w)

\* A result is put in its slot and nobody is told.
InsertSilently(w) ==
    /\ worker[w] = "insert"
    /\ results' = results \union held[w]
    /\ buffered_result_bytes' = buffered_result_bytes + DecodedBytes[held[w]]
    /\ held' = [held EXCEPT ![w] = {}]
    /\ worker' = [worker EXCEPT ![w] = "top"]
    /\ UNCHANGED <<queueVars, inputVars, stopped, next_write_index, waiters, errVars,
                   producer, writerVars>>

\* A writer that is ahead of the producer takes it for the end.
AllTakenSoFar == next_index = produced_count

\* The error is taken out of its slot and dropped.
CheckErrorDropped ==
    /\ \/ /\ writer = "check_error"
          /\ writer' = IF held["writer"] # {} THEN "write" ELSE "last_check"
       \/ /\ writer = "last_check"
          /\ writer' = IF err_slot THEN "return_error" ELSE "return_ok"
    /\ err_slot' = FALSE
    /\ UNCHANGED <<queueVars, inputVars, stopped, resultVars, waiters, err_flag, producer,
                   worker, held, next_index, output, result>>

--------------------------------------------------------------------------------
(* Errors.                                                                     *)

\* set_worker_error_once
RecordError == err_slot' = TRUE /\ err_flag' = (err_flag \/ ~err_slot)

\* A thread that recorded an error stops the pipeline before it leaves.
StopAfterError(t) ==
    /\ \/ t = "producer" /\ producer = "fail" /\ producer' = "done" /\ UNCHANGED worker
       \/ /\ t \in Workers /\ worker[t] = "fail"
          /\ worker' = [worker EXCEPT ![t] = "done"]
          /\ UNCHANGED producer
    /\ stopped' = TRUE /\ waiters' = {}
    /\ UNCHANGED <<queueVars, inputVars, resultVars, errVars, held, writerVars>>

--------------------------------------------------------------------------------
(* The producer thread.  It looks neither at the error flag nor at `stopped`.  *)

ReadFails ==
    /\ producer = "read" /\ "read" \in Faults
    /\ RecordError
    /\ producer' = "fail"
    /\ UNCHANGED <<queueVars, inputVars, stopped, resultVars, waiters, worker, held,
                   writerVars>>

\* A stream without any frame is empty; one with frames ends at a final chunk.
EndIsLegal == produced_count = 0

\* No frame follows, and none was final.  The error is recorded under the lock.
StreamEnds ==
    /\ producer = "read" /\ produced_count = NumChunks
    /\ producer_eof' = EndIsLegal
    /\ IF EndIsLegal THEN UNCHANGED <<stopped, errVars>> ELSE stopped' = TRUE /\ RecordError
    /\ waiters' = {}
    /\ producer' = "done"
    /\ UNCHANGED <<queueVars, call, produced_count, resultVars, worker, held, writerVars>>

ReadFrame ==
    /\ producer = "read" /\ produced_count < NumChunks
    /\ held' = [held EXCEPT !["producer"] = {produced_count}]
    /\ producer' = "push"
    /\ UNCHANGED <<queueVars, inputVars, stopped, resultVars, waiters, errVars, worker,
                   writerVars>>

\* push_back.  There is one producer and it pushes increasing indexes, so a set
\* of queued indexes, taken in increasing order, is the queue.
PushBack(c) ==
    \/ /\ Policy = "GlobalQueue"
       /\ queue' = queue \union {c} /\ UNCHANGED <<cpu_queue, gpu_queue>>
    \/ /\ Policy = "GpuLedSplitQueue" /\ Eligible(c)
       /\ gpu_queue' = gpu_queue \union {c} /\ UNCHANGED <<queue, cpu_queue>>
    \/ /\ Policy = "GpuLedSplitQueue" /\ ~Eligible(c)
       /\ cpu_queue' = cpu_queue \union {c} /\ UNCHANGED <<queue, gpu_queue>>

Trailing(c) == c + 1 < NumChunks

\* After a final chunk the producer reads once more, under the lock: there must
\* be nothing left.
Push ==
    /\ producer = "push"
    /\ \E c \in held["producer"] :
          /\ PushBack(c)
          /\ \/ /\ c \notin Final
                /\ producer' = "read" /\ UNCHANGED <<producer_eof, stopped, errVars>>
             \/ /\ c \in Final /\ ~Trailing(c)
                /\ producer_eof' = TRUE /\ producer' = "done"
                /\ UNCHANGED <<stopped, errVars>>
             \/ /\ c \in Final /\ (Trailing(c) \/ "read" \in Faults)
                /\ RecordError /\ stopped' = TRUE /\ producer' = "done"
                /\ UNCHANGED producer_eof
    /\ produced_count' = produced_count + 1
    /\ held' = [held EXCEPT !["producer"] = {}]
    /\ waiters' = {}
    /\ UNCHANGED <<call, resultVars, worker, writerVars>>

Producer == ReadFails \/ StreamEnds \/ ReadFrame \/ Push \/ StopAfterError("producer")

--------------------------------------------------------------------------------
(* The workers.                                                                *)

WorkerTop(w) ==
    /\ worker[w] = "top"
    /\ worker' = [worker EXCEPT ![w] = IF err_flag THEN "done" ELSE "pop"]
    /\ UNCHANGED <<queueVars, inputVars, stopped, resultVars, waiters, errVars, producer,
                   held, writerVars>>

Throttled == buffered_result_bytes >= ResultLimit

\* Past the limit: the next chunk to be written, if it is at the front.  On the
\* shared queue the GPU looks for it at any position.
HeadOf(w) ==
    {next_write_index} \intersect
        (IF w \in GpuWorkers /\ Policy = "GlobalQueue" THEN Suitable(w) ELSE FirstOf(QueueOf(w)))

\* A CPU worker takes one task from the front, the GPU worker a batch.
Batch(w) ==
    LET most == IF w \in CpuWorkers THEN 1 ELSE GpuBatchLimit
    IN  IF Throttled THEN HeadOf(w)
        ELSE {c \in Suitable(w) : Cardinality({d \in Suitable(w) : d < c}) < most}

Remove(batch) ==
    /\ queue' = queue \ batch
    /\ cpu_queue' = cpu_queue \ batch
    /\ gpu_queue' = gpu_queue \ batch

Pop(w) ==
    /\ worker[w] = "pop" /\ w \notin waiters
    /\ Batch(w) # {}
    /\ Remove(Batch(w))
    /\ held' = [held EXCEPT ![w] = Batch(w)]
    /\ worker' = [worker EXCEPT ![w] = "decode"]
    /\ UNCHANGED <<inputVars, stopped, resultVars, waiters, errVars, producer, writerVars>>

NoMoreWork(w) == (producer_eof /\ QueueOf(w) = {}) \/ stopped \/ err_flag

PopNothing(w) ==
    /\ worker[w] = "pop" /\ w \notin waiters
    /\ Batch(w) = {}
    /\ \/ /\ NoMoreWork(w)
          /\ worker' = [worker EXCEPT ![w] = "done"] /\ UNCHANGED waiters
       \/ /\ ~NoMoreWork(w)
          /\ waiters' = waiters \union {w} /\ UNCHANGED worker
    /\ UNCHANGED <<queueVars, inputVars, stopped, resultVars, errVars, producer, held,
                   writerVars>>

\* On the GPU worker, the chunks it hands back are decoded here as well.
Decode(w) ==
    /\ worker[w] = "decode"
    /\ worker' = [worker EXCEPT ![w] = "insert"]
    /\ UNCHANGED <<queueVars, inputVars, stopped, resultVars, waiters, errVars, producer,
                   held, writerVars>>

DecodeFails(w) ==
    /\ worker[w] = "decode"
    /\ IF w \in CpuWorkers THEN "decode" \in Faults ELSE "gpu" \in Faults
    /\ RecordError
    /\ worker' = [worker EXCEPT ![w] = "fail"]
    /\ UNCHANGED <<queueVars, inputVars, stopped, resultVars, waiters, producer, held,
                   writerVars>>

\* The GPU worker leaves with the whole batch, and stops nobody.
FallbackFails(w) ==
    /\ w \in GpuWorkers /\ worker[w] = "decode" /\ "fallback" \in Faults
    /\ RecordError
    /\ worker' = [worker EXCEPT ![w] = "done"]
    /\ UNCHANGED <<queueVars, inputVars, stopped, resultVars, waiters, producer, held,
                   writerVars>>

Insert(w) ==
    /\ worker[w] = "insert"
    /\ results' = results \union held[w]
    /\ buffered_result_bytes' = buffered_result_bytes + DecodedBytes[held[w]]
    /\ waiters' = {}
    /\ held' = [held EXCEPT ![w] = {}]
    /\ worker' = [worker EXCEPT ![w] = "top"]
    /\ UNCHANGED <<queueVars, inputVars, stopped, next_write_index, errVars, producer,
                   writerVars>>

Worker(w) ==
    \/ WorkerTop(w) \/ Pop(w) \/ PopNothing(w) \/ Decode(w) \/ DecodeFails(w)
    \/ FallbackFails(w) \/ Insert(w) \/ StopAfterError(w)

--------------------------------------------------------------------------------
(* The calling thread.                                                         *)

\* One pass under the lock, in the order of the code: the error first, then the
\* slot, then the end, and else sleep.
SeeError ==
    /\ writer = "next" /\ "writer" \notin waiters
    /\ err_flag
    /\ stopped' = TRUE /\ waiters' = {}
    /\ writer' = "check_error"
    /\ UNCHANGED <<queueVars, inputVars, resultVars, errVars, producer, worker, held,
                   next_index, output, result>>

BufferedAfterTake == Minus(buffered_result_bytes, DecodedBytes[{next_index}])

TakeResult ==
    /\ writer = "next" /\ "writer" \notin waiters
    /\ ~err_flag /\ next_index \in results
    /\ results' = results \ {next_index}
    /\ buffered_result_bytes' = BufferedAfterTake
    /\ next_write_index' = next_index + 1
    /\ waiters' = {}
    /\ held' = [held EXCEPT !["writer"] = {next_index}]
    /\ writer' = "check_error"
    /\ UNCHANGED <<queueVars, inputVars, stopped, errVars, producer, worker, next_index,
                   output, result>>

AllTaken == producer_eof /\ next_index = produced_count

SeeEnd ==
    /\ writer = "next" /\ "writer" \notin waiters
    /\ ~err_flag /\ next_index \notin results /\ AllTaken
    /\ stopped' = TRUE /\ waiters' = {}
    /\ writer' = "check_error"
    /\ UNCHANGED <<queueVars, inputVars, resultVars, errVars, producer, worker, held,
                   next_index, output, result>>

WriterSleep ==
    /\ writer = "next" /\ "writer" \notin waiters
    /\ ~err_flag /\ next_index \notin results /\ ~AllTaken
    /\ waiters' = waiters \union {"writer"}
    /\ UNCHANGED <<queueVars, inputVars, stopped, resultVars, errVars, producer, worker,
                   held, writerVars>>

\* take_worker_error: it empties the slot, once after each pass under the lock
\* and once more after the loop.
CheckError ==
    /\ \/ /\ writer = "check_error"
          /\ writer' = IF err_slot THEN "return_error"
                       ELSE IF held["writer"] # {} THEN "write" ELSE "last_check"
       \/ /\ writer = "last_check"
          /\ writer' = IF err_slot THEN "return_error" ELSE "return_ok"
    /\ err_slot' = FALSE
    /\ UNCHANGED <<queueVars, inputVars, stopped, resultVars, waiters, err_flag, producer,
                   worker, held, next_index, output, result>>

Write ==
    /\ writer = "write"
    /\ output' = Append(output, next_index)
    /\ next_index' = next_index + 1
    /\ held' = [held EXCEPT !["writer"] = {}]
    /\ writer' = "next"
    /\ UNCHANGED <<queueVars, inputVars, stopped, resultVars, waiters, errVars, producer,
                   worker, result>>

\* `?` leaves the scope at once: the pipeline is not stopped.
WriteFails ==
    /\ writer = "write" /\ "write" \in Faults
    /\ writer' = "return_error"
    /\ UNCHANGED <<queueVars, inputVars, stopped, resultVars, waiters, errVars, producer,
                   worker, held, next_index, output, result>>

AllJoined == producer = "done" /\ \A w \in Workers : worker[w] = "done"

\* The end of the thread scope joins every thread, whichever way it is left.
Join ==
    /\ writer \in {"return_ok", "return_error"} /\ AllJoined
    /\ result' = IF writer = "return_ok" THEN "ok" ELSE "error"
    /\ writer' = "returned"
    /\ UNCHANGED <<queueVars, inputVars, stopped, resultVars, waiters, errVars, producer,
                   worker, held, next_index, output>>

Writer ==
    \/ SeeError \/ TakeResult \/ SeeEnd \/ WriterSleep \/ CheckError \/ Write
    \/ WriteFails \/ Join

--------------------------------------------------------------------------------
\* A condition variable may wake a sleeper for no reason; every wait is in a loop.
SpuriousWake ==
    /\ \E t \in waiters : waiters' = waiters \ {t}
    /\ UNCHANGED <<queueVars, inputVars, stopped, resultVars, errVars, producer, worker,
                   held, writerVars>>

Returned == writer = "returned" /\ UNCHANGED vars

Next == Producer \/ (\E w \in Workers : Worker(w)) \/ Writer \/ SpuriousWake \/ Returned

Spec == Init /\ [][Next]_vars

\* Each thread is scheduled, locks are granted, reads and writes return; a
\* spurious wake-up is never promised.
Fairness ==
    /\ WF_vars(Producer)
    /\ \A w \in Workers : WF_vars(Worker(w))
    /\ WF_vars(Writer)

FairSpec == Spec /\ Fairness

--------------------------------------------------------------------------------
(* Properties.                                                                 *)

ProducerPlaces == {"read", "push", "fail", "done"}
WorkerPlaces   == {"top", "pop", "decode", "insert", "fail", "done"}
WriterPlaces   == {"next", "check_error", "write", "last_check", "return_ok",
                   "return_error", "returned"}

\* Types of the state.
TypeOK ==
    /\ call \in Calls
    /\ queue \subseteq Chunks /\ cpu_queue \subseteq Chunks /\ gpu_queue \subseteq Chunks
    /\ produced_count \in 0 .. NumChunks /\ producer_eof \in BOOLEAN
    /\ stopped \in BOOLEAN /\ results \subseteq Chunks
    /\ buffered_result_bytes \in Nat /\ next_write_index \in 0 .. NumChunks
    /\ waiters \subseteq Workers \union {"writer"}
    /\ err_slot \in BOOLEAN /\ err_flag \in BOOLEAN
    /\ producer \in ProducerPlaces
    /\ worker \in [Workers -> WorkerPlaces]
    /\ held \in [Actors -> SUBSET Chunks]
    /\ writer \in WriterPlaces
    /\ next_index \in 0 .. NumChunks
    /\ output \in Seq(Chunks)
    /\ result \in {"none", "ok", "error"}

Queued  == queue \union cpu_queue \union gpu_queue
Written == {output[k] : k \in 1 .. Len(output)}
InWork  == UNION {held[w] : w \in Workers}

\* Every chunk that was produced is in exactly one place: queued, in the hands
\* of one thread, in its result slot, or written; and what the producer reads
\* ahead of the lock is the next one.
ChunkOwnership ==
    /\ TypeOK
    /\ (0 .. produced_count - 1) \union held["producer"] =
          Queued \union results \union Written \union UNION {held[a] : a \in Actors}
    /\ Queued \intersect (results \union Written) = {}
    /\ results \intersect Written = {}
    /\ \A a \in Actors : held[a] \intersect (Queued \union results \union Written) = {}
    /\ \A a, b \in Actors : a # b => held[a] \intersect held[b] = {}

\* What the workers can have in their hands at once.
Capacity == (Cardinality(CpuWorkers) + Cardinality(GpuWorkers) * GpuBatchLimit) * ChunkSize

\* The level that the workers throttle on is the weight of the results that wait,
\* and the throttle holds although a worker tests it long before it inserts: but
\* for the next chunk to be written, the results and what the workers hold stay
\* below the limit and one load of all workers.  That chunk is never shut out: in
\* whichever queue it is, it is what a worker of that queue takes.
ThrottleSound ==
    /\ buffered_result_bytes = DecodedBytes[results]
    /\ DecodedBytes[(results \union InWork) \ {next_write_index}] < ResultLimit + Capacity
    /\ \A w \in Workers :
          Throttled /\ next_write_index \in Suitable(w) => Batch(w) = {next_write_index}

\* A thread that is about to wake everybody: it has an error to report, or
\* a result to insert.
WillNotify ==
    \/ producer = "fail"
    \/ \E w \in Workers : worker[w] \in {"decode", "insert", "fail"}

\* No lost wake-up: whoever sleeps still has a reason to, or some thread is on
\* its way to a notify_all.  Only the GPU worker's silent exit is exempt.
NoLostWakeup ==
    "fallback" \notin Faults =>
        /\ \A w \in Workers \intersect waiters :
              (Batch(w) = {} /\ ~NoMoreWork(w)) \/ WillNotify
        /\ "writer" \in waiters =>
              (next_index \notin results /\ ~AllTaken /\ ~err_flag) \/ WillNotify

\* What is written is a prefix of the stream, and a call that returns without an
\* error has written all of a stream that marks its last chunk and no other.
OkMeansWholeStream ==
    /\ \A k \in 1 .. Len(output) : output[k] = k - 1
    /\ result = "ok" =>
          /\ Len(output) = NumChunks
          /\ Final = {c \in Chunks : c + 1 = NumChunks}

\* The decompressor implements the ordered pipe.
Pipe == INSTANCE OrderedChunkPipe WITH
            Window <- 0, accepted <- produced_count, emitted <- Len(output),
            outcome <- result

PipeSpec == Pipe!Spec

\* The two faults that leave threads asleep: the GPU worker's silent exit, and an
\* output that fails while the throttle is shut.
MayHang == Faults \intersect {"fallback", "write"} # {}

\* The call returns, whatever else fails.
Termination == <>(result # "none" \/ MayHang)

\* What stops the pipeline reaches the caller: but for the two faults above, an
\* error that a thread has recorded is what the call returns.
ErrorReachesCaller == (err_flag /\ ~MayHang) ~> (result = "error")

\* An error that a thread has recorded is what the call returns.
ErrorIsReturned == err_flag ~> (result = "error")
================================================================================

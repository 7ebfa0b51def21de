---------------------------- MODULE PdeflateCompress ----------------------------
(* The streaming PDeflate compressor of cozip_pdeflate                         *)
(* (stream.rs, compress_reader_with_stats): one producer thread cuts the       *)
(* input into chunks, CPU and GPU workers compress them in any order, and the  *)
(* calling thread writes the frames in index order, holding back the last one  *)
(* until it knows whether another follows.                                     *)
(*                                                                             *)
(* All shared state is behind one mutex with one condition variable, but for   *)
(* the error slot and its flag, which have a lock of their own.  One action is *)
(* one critical section, or one step between two of them.                      *)
EXTENDS Integers, Sequences, FiniteSets, ChunkBytes

CONSTANTS
    CpuWorkers,      \* the CPU worker threads
    GpuWorkers,      \* the GPU worker threads; none when the GPU is off or absent
    NumChunks,       \* chunks the reader will yield before EOF
    RawBytes,        \* raw length of a set of chunks (additive)
    ChunkSize,       \* options.chunk_size
    TargetBuffered,  \* target_buffered_bytes, as the caller gives it
    LowWatermark,    \* low_watermark_bytes, as the caller gives it
    GpuBatchLimit,   \* max(gpu_slot_count, gpu_submit_chunks, 1)
    GpuMinChunkSize, \* options.gpu_min_chunk_size
    Policy,          \* options.hybrid_scheduler_policy
    Faults           \* what may fail: "read", "compress", "write"

Chunks  == 0 .. NumChunks - 1
Workers == CpuWorkers \union GpuWorkers
Actors  == Workers \union {"producer", "writer"}

ASSUME WorkersAssumption ==
    /\ IsFiniteSet(CpuWorkers) /\ CpuWorkers # {}
    /\ IsFiniteSet(GpuWorkers)
    /\ CpuWorkers \intersect GpuWorkers = {}
    /\ "producer" \notin Workers /\ "writer" \notin Workers

ASSUME OptionsAssumption ==
    /\ NumChunks \in Nat
    /\ ChunkSize \in Nat \ {0}
    /\ TargetBuffered \in Nat /\ LowWatermark \in Nat
    /\ GpuBatchLimit \in Nat \ {0} /\ GpuMinChunkSize \in Nat
    /\ Policy \in {"GlobalQueue", "GpuLedSplitQueue"}
    /\ Faults \subseteq {"read", "compress", "write"}

\* The producer fills a chunk until the reader is at EOF, so that only the
\* last one may be shorter than the chunk size.
ASSUME BytesAssumption ==
    /\ Additive(RawBytes, Chunks)
    /\ \A c \in Chunks : RawBytes[{c}] \in 1 .. ChunkSize
    /\ \A c \in Chunks : c # NumChunks - 1 => RawBytes[{c}] = ChunkSize

Target == IF TargetBuffered >= ChunkSize THEN TargetBuffered ELSE ChunkSize
Low ==
    LET low == IF LowWatermark >= ChunkSize THEN LowWatermark ELSE ChunkSize
    IN  IF low <= Target THEN low ELSE Target

--------------------------------------------------------------------------------
VARIABLES
    queue,          \* StreamCompressState.queue: indexes, see Enqueue
    cpu_queue,      \* StreamCompressState.cpu_queue
    gpu_queue,      \* StreamCompressState.gpu_queue
    buffered_bytes, \* StreamCompressState.buffered_bytes
    produced_count, \* StreamCompressState.produced_count, and results.len()
    producer_eof,   \* StreamCompressState.producer_eof
    stopped,        \* StreamCompressState.stopped
    results,        \* StreamCompressState.results: indexes whose slot is Some
    waiters,        \* threads asleep on the condition variable
    err_slot,       \* the error slot holds an error
    err_flag,       \* its flag, which is never cleared
    producer,       \* where the producer thread is
    worker,         \* where each worker thread is
    held,           \* chunks in the hands of each thread
    writer,         \* where the calling thread is
    next_index,     \* local to the calling thread
    is_final,       \* its verdict on the chunk it holds
    pending,        \* pending_encoded: no chunk or one
    output,         \* frames written: [chunk, final]
    result          \* "none" while the call runs, then "ok" or "error"

queueVars  == <<queue, cpu_queue, gpu_queue, buffered_bytes>>
stateVars  == <<produced_count, producer_eof, stopped, results>>
errVars    == <<err_slot, err_flag>>
writerVars == <<writer, next_index, is_final, pending, output, result>>
vars == <<queueVars, stateVars, waiters, errVars, producer, worker, held, writerVars>>

Init ==
    /\ queue = {} /\ cpu_queue = {} /\ gpu_queue = {} /\ buffered_bytes = 0
    /\ produced_count = 0 /\ producer_eof = FALSE /\ stopped = FALSE /\ results = {}
    /\ waiters = {}
    /\ err_slot = FALSE /\ err_flag = FALSE
    /\ producer = "read"
    /\ worker = [w \in Workers |-> "top"]
    /\ held = [a \in Actors |-> {}]
    /\ writer = "next" /\ next_index = 0 /\ is_final = FALSE
    /\ pending = {} /\ output = <<>> /\ result = "none"

Eligible(c) == GpuWorkers # {} /\ RawBytes[{c}] >= GpuMinChunkSize

--------------------------------------------------------------------------------
(* Slips: definitions below as a plausible mistake would write them.  Nothing  *)
(* here is part of the specification; each shows that a property can fail.     *)

\* The level is looked at only when it is past the target by a chunk.
FullLate == buffered_bytes > Target + ChunkSize

\* The tasks are read and stay in the queue.
RemovePeek(batch) == UNCHANGED <<queue, cpu_queue, gpu_queue>>

\* What the GPU takes stays in the count.
BufferedAfterCpuOnly(w, batch) ==
    IF w \in CpuWorkers THEN Minus(buffered_bytes, RawBytes[batch]) ELSE buffered_bytes

\* Every chunk of a GPU batch must be whole, the last one too.
ShortInsideAnywhere(batch) == \E c \in batch : RawBytes[{c}] # ChunkSize

\* A result is put in its slot and nobody is told.
InsertSilently(w) ==
    /\ worker[w] = "insert"
    /\ results' = results \union held[w]
    /\ held' = [held EXCEPT ![w] = {}]
    /\ worker' = [worker EXCEPT ![w] = "top"]
    /\ UNCHANGED <<queueVars, produced_count, producer_eof, stopped, waiters, errVars,
                   producer, writerVars>>

\* The thread that failed leaves without stopping the others.
StopAfterErrorSilently(t) ==
    /\ \/ t = "producer" /\ producer = "fail" /\ producer' = "done" /\ UNCHANGED worker
       \/ /\ t \in Workers /\ worker[t] = "fail"
          /\ worker' = [worker EXCEPT ![t] = "done"]
          /\ UNCHANGED producer
    /\ UNCHANGED <<queueVars, stateVars, waiters, errVars, held, writerVars>>

\* The last chunk produced so far passes for the last one.
IsFinalSoFar == next_index + 1 = produced_count

\* The end of the input stops the pipeline with results still to come.
AllTakenAtEof == producer_eof

\* A writer that is ahead of the producer takes it for the end.
AllTakenSoFar == next_index = produced_count

\* The error is taken out of its slot and dropped.
CheckErrorDropped ==
    /\ \/ /\ writer = "check_error"
          /\ writer' = IF held["writer"] # {} THEN "write_prev" ELSE "last_check"
       \/ /\ writer = "last_check"
          /\ writer' = IF err_slot THEN "return_error" ELSE "return_ok"
    /\ err_slot' = FALSE
    /\ UNCHANGED <<queueVars, stateVars, waiters, err_flag, producer, worker, held,
                   next_index, is_final, pending, output, result>>

--------------------------------------------------------------------------------
(* Errors.                                                                     *)

\* set_worker_error_once
RecordError == err_slot' = TRUE /\ err_flag' = (err_flag \/ ~err_slot)

\* A thread that recorded an error stops the pipeline before it leaves.
StopAfterError(t) ==
    /\ \/ t = "producer" /\ producer = "fail" /\ producer' = "done" /\ UNCHANGED worker
       \/ /\ t \in Workers /\ worker[t] = "fail"
          /\ worker' = [worker EXCEPT ![t] = "done"]
          /\ UNCHANGED producer
    /\ stopped' = TRUE /\ waiters' = {}
    /\ UNCHANGED <<queueVars, produced_count, producer_eof, results, errVars, held, writerVars>>

--------------------------------------------------------------------------------
(* The producer thread.                                                        *)

ReadFails ==
    /\ producer = "read" /\ "read" \in Faults
    /\ RecordError
    /\ producer' = "fail"
    /\ UNCHANGED <<queueVars, stateVars, waiters, worker, held, writerVars>>

\* At EOF the producer holds nothing.
ReadChunk ==
    /\ producer = "read"
    /\ held' = [held EXCEPT !["producer"] = {produced_count} \intersect Chunks]
    /\ producer' = "enqueue"
    /\ UNCHANGED <<queueVars, stateVars, waiters, errVars, worker, writerVars>>

Full == buffered_bytes >= Target

\* A chunk in the hand waits for room, and so does the end of the input.
ProducerSleep ==
    /\ producer = "enqueue" /\ "producer" \notin waiters
    /\ Full /\ ~stopped /\ ~err_flag
    /\ waiters' = waiters \union {"producer"}
    /\ UNCHANGED <<queueVars, stateVars, errVars, producer, worker, held, writerVars>>

ProducerGivesUp ==
    /\ producer = "enqueue" /\ "producer" \notin waiters
    /\ stopped \/ err_flag
    /\ producer' = "done"
    /\ UNCHANGED <<queueVars, stateVars, waiters, errVars, worker, held, writerVars>>

ProducerEof ==
    /\ producer = "enqueue" /\ "producer" \notin waiters
    /\ ~Full /\ ~stopped /\ ~err_flag
    /\ held["producer"] = {}
    /\ producer_eof' = TRUE /\ waiters' = {}
    /\ producer' = "done"
    /\ UNCHANGED <<queueVars, produced_count, stopped, results, errVars, worker, held,
                   writerVars>>

\* push_back.  There is one producer and it pushes increasing indexes, so a set
\* of queued indexes, taken in increasing order, is the queue.
Enqueue ==
    /\ producer = "enqueue" /\ "producer" \notin waiters
    /\ ~Full /\ ~stopped /\ ~err_flag
    /\ \E c \in held["producer"] :
          /\ buffered_bytes' = buffered_bytes + RawBytes[{c}]
          /\ produced_count' = produced_count + 1
          /\ \/ /\ Policy = "GlobalQueue"
                /\ queue' = queue \union {c} /\ UNCHANGED <<cpu_queue, gpu_queue>>
             \/ /\ Policy = "GpuLedSplitQueue" /\ Eligible(c)
                /\ gpu_queue' = gpu_queue \union {c} /\ UNCHANGED <<queue, cpu_queue>>
             \/ /\ Policy = "GpuLedSplitQueue" /\ ~Eligible(c)
                /\ cpu_queue' = cpu_queue \union {c} /\ UNCHANGED <<queue, gpu_queue>>
    /\ held' = [held EXCEPT !["producer"] = {}]
    /\ waiters' = {}
    /\ producer' = "read"
    /\ UNCHANGED <<producer_eof, stopped, results, errVars, worker, writerVars>>

Producer ==
    \/ ReadFails \/ ReadChunk \/ ProducerSleep \/ ProducerGivesUp \/ ProducerEof
    \/ Enqueue \/ StopAfterError("producer")

--------------------------------------------------------------------------------
(* The workers.                                                                *)

WorkerTop(w) ==
    /\ worker[w] = "top"
    /\ worker' = [worker EXCEPT ![w] = IF err_flag THEN "done" ELSE "pop"]
    /\ UNCHANGED <<queueVars, stateVars, waiters, errVars, producer, held, writerVars>>

\* The queue a worker takes from.
QueueOf(w) ==
    IF Policy = "GlobalQueue" THEN queue
    ELSE IF w \in CpuWorkers THEN cpu_queue ELSE gpu_queue

\* What a worker may take: on the shared queue the GPU leaves small chunks alone.
Suitable(w) ==
    IF w \in GpuWorkers /\ Policy = "GlobalQueue"
      THEN {c \in QueueOf(w) : RawBytes[{c}] >= GpuMinChunkSize}
      ELSE QueueOf(w)

\* It takes from the front, a CPU worker one task, a GPU worker a batch.
Batch(w) ==
    LET most == IF w \in CpuWorkers THEN 1 ELSE GpuBatchLimit
    IN  {c \in Suitable(w) : Cardinality({d \in Suitable(w) : d < c}) < most}

Remove(batch) ==
    /\ queue' = queue \ batch
    /\ cpu_queue' = cpu_queue \ batch
    /\ gpu_queue' = gpu_queue \ batch

BufferedAfter(w, batch) == Minus(buffered_bytes, RawBytes[batch])

\* Below the low watermark everybody is woken.
StillAsleep(left) == IF left < Low THEN {} ELSE waiters

Pop(w) ==
    /\ worker[w] = "pop" /\ w \notin waiters
    /\ Suitable(w) # {}
    /\ Remove(Batch(w))
    /\ buffered_bytes' = BufferedAfter(w, Batch(w))
    /\ waiters' = StillAsleep(buffered_bytes')
    /\ held' = [held EXCEPT ![w] = Batch(w)]
    /\ worker' = [worker EXCEPT ![w] = "compress"]
    /\ UNCHANGED <<stateVars, errVars, producer, writerVars>>

NoMoreWork(w) == (producer_eof /\ QueueOf(w) = {}) \/ stopped \/ err_flag

PopNothing(w) ==
    /\ worker[w] = "pop" /\ w \notin waiters
    /\ Suitable(w) = {}
    /\ \/ /\ NoMoreWork(w)
          /\ worker' = [worker EXCEPT ![w] = "done"] /\ UNCHANGED waiters
       \/ /\ ~NoMoreWork(w)
          /\ waiters' = waiters \union {w} /\ UNCHANGED worker
    /\ UNCHANGED <<queueVars, stateVars, errVars, producer, held, writerVars>>

\* A GPU batch is laid out chunk by chunk: only its last one may be short.
ShortInside(batch) ==
    \E c \in batch : RawBytes[{c}] # ChunkSize /\ \E d \in batch : c < d

Compress(w) ==
    /\ worker[w] = "compress"
    /\ w \in GpuWorkers => ~ShortInside(held[w])
    /\ worker' = [worker EXCEPT ![w] = "insert"]
    /\ UNCHANGED <<queueVars, stateVars, waiters, errVars, producer, held, writerVars>>

CompressFails(w) ==
    /\ worker[w] = "compress"
    /\ "compress" \in Faults \/ (w \in GpuWorkers /\ ShortInside(held[w]))
    /\ RecordError
    /\ worker' = [worker EXCEPT ![w] = "fail"]
    /\ UNCHANGED <<queueVars, stateVars, waiters, producer, held, writerVars>>

Insert(w) ==
    /\ worker[w] = "insert"
    /\ results' = results \union held[w]
    /\ waiters' = {}
    /\ held' = [held EXCEPT ![w] = {}]
    /\ worker' = [worker EXCEPT ![w] = "top"]
    /\ UNCHANGED <<queueVars, produced_count, producer_eof, stopped, errVars, producer,
                   writerVars>>

Worker(w) ==
    \/ WorkerTop(w) \/ Pop(w) \/ PopNothing(w) \/ Compress(w) \/ CompressFails(w)
    \/ Insert(w) \/ StopAfterError(w)

--------------------------------------------------------------------------------
(* The calling thread.                                                         *)

IsFinal == producer_eof /\ next_index + 1 = produced_count

AllTaken == producer_eof /\ next_index = produced_count

\* One pass under the lock, in the order of the code: the error first, then the
\* slot, then the end, and else sleep.
SeeError ==
    /\ writer = "next" /\ "writer" \notin waiters
    /\ err_flag
    /\ stopped' = TRUE /\ waiters' = {}
    /\ writer' = "check_error"
    /\ UNCHANGED <<queueVars, produced_count, producer_eof, results, errVars, producer,
                   worker, held, next_index, is_final, pending, output, result>>

TakeResult ==
    /\ writer = "next" /\ "writer" \notin waiters
    /\ ~err_flag /\ next_index \in results
    /\ results' = results \ {next_index}
    /\ held' = [held EXCEPT !["writer"] = {next_index}]
    /\ is_final' = IsFinal
    /\ writer' = "check_error"
    /\ UNCHANGED <<queueVars, produced_count, producer_eof, stopped, waiters, errVars,
                   producer, worker, next_index, pending, output, result>>

SeeEnd ==
    /\ writer = "next" /\ "writer" \notin waiters
    /\ ~err_flag /\ next_index \notin results /\ AllTaken
    /\ stopped' = TRUE /\ waiters' = {}
    /\ writer' = "check_error"
    /\ UNCHANGED <<queueVars, produced_count, producer_eof, results, errVars, producer,
                   worker, held, next_index, is_final, pending, output, result>>

WriterSleep ==
    /\ writer = "next" /\ "writer" \notin waiters
    /\ ~err_flag /\ next_index \notin results /\ ~AllTaken
    /\ waiters' = waiters \union {"writer"}
    /\ UNCHANGED <<queueVars, stateVars, errVars, producer, worker, held, writerVars>>

\* take_worker_error: it empties the slot, once after each pass under the lock
\* and once more after the loop.
CheckError ==
    /\ \/ /\ writer = "check_error"
          /\ writer' = IF err_slot THEN "return_error"
                       ELSE IF held["writer"] # {} THEN "write_prev" ELSE "last_check"
       \/ /\ writer = "last_check"
          /\ writer' = IF err_slot THEN "return_error" ELSE "return_ok"
    /\ err_slot' = FALSE
    /\ UNCHANGED <<queueVars, stateVars, waiters, err_flag, producer, worker, held,
                   next_index, is_final, pending, output, result>>

\* The frame held back so far is followed by another one: it is not the last.
WritePrev ==
    /\ writer = "write_prev"
    /\ output' = IF pending = {} THEN output
                 ELSE Append(output, [chunk |-> CHOOSE c \in pending : TRUE, final |-> FALSE])
    /\ pending' = {}
    /\ next_index' = next_index + 1
    /\ writer' = IF is_final THEN "write_final" ELSE "hold"
    /\ UNCHANGED <<queueVars, stateVars, waiters, errVars, producer, worker, held,
                   is_final, result>>

WriteFinal ==
    /\ writer = "write_final"
    /\ output' = Append(output, [chunk |-> next_index - 1, final |-> TRUE])
    /\ held' = [held EXCEPT !["writer"] = {}]
    /\ is_final' = FALSE
    /\ writer' = "next"
    /\ UNCHANGED <<queueVars, stateVars, waiters, errVars, producer, worker, next_index,
                   pending, result>>

Hold ==
    /\ writer = "hold"
    /\ pending' = held["writer"]
    /\ held' = [held EXCEPT !["writer"] = {}]
    /\ writer' = "next"
    /\ UNCHANGED <<queueVars, stateVars, waiters, errVars, producer, worker, next_index,
                   is_final, output, result>>

\* `?` leaves the scope at once: the pipeline is not stopped.
WriteFails ==
    /\ "write" \in Faults
    /\ \/ writer = "write_prev" /\ pending # {}
       \/ writer = "write_final"
    /\ writer' = "return_error"
    /\ UNCHANGED <<queueVars, stateVars, waiters, errVars, producer, worker, held,
                   next_index, is_final, pending, output, result>>

AllJoined == producer = "done" /\ \A w \in Workers : worker[w] = "done"

\* The end of the thread scope joins every thread, whichever way it is left.
Join ==
    /\ writer \in {"return_ok", "return_error"} /\ AllJoined
    /\ result' = IF writer = "return_ok" THEN "ok" ELSE "error"
    /\ writer' = "returned"
    /\ UNCHANGED <<queueVars, stateVars, waiters, errVars, producer, worker, held,
                   next_index, is_final, pending, output>>

Writer ==
    \/ SeeError \/ TakeResult \/ SeeEnd \/ WriterSleep \/ CheckError \/ WritePrev
    \/ WriteFinal \/ Hold \/ WriteFails \/ Join

--------------------------------------------------------------------------------
\* A condition variable may wake a sleeper for no reason; every wait is in a loop.
SpuriousWake ==
    /\ \E t \in waiters : waiters' = waiters \ {t}
    /\ UNCHANGED <<queueVars, stateVars, errVars, producer, worker, held, writerVars>>

Returned == writer = "returned" /\ UNCHANGED vars

Next == Producer \/ (\E w \in Workers : Worker(w)) \/ Writer \/ SpuriousWake \/ Returned

Spec == Init /\ [][Next]_vars

\* Each thread is scheduled, locks are granted, reads and writes return; a
\* spurious wake-up is never promised.
Fairness ==
    /\ WF_vars(Producer)
    /\ \A w \in Workers : WF_vars(Worker(w))
    /\ WF_vars(Writer)

FairSpec == Spec /\ Fairness

--------------------------------------------------------------------------------
(* Properties.                                                                 *)

ProducerPlaces == {"read", "enqueue", "fail", "done"}
WorkerPlaces   == {"top", "pop", "compress", "insert", "fail", "done"}
WriterPlaces   == {"next", "check_error", "write_prev", "write_final", "hold",
                   "last_check", "return_ok", "return_error", "returned"}

\* Types of the state.
TypeOK ==
    /\ queue \subseteq Chunks /\ cpu_queue \subseteq Chunks /\ gpu_queue \subseteq Chunks
    /\ buffered_bytes \in Nat
    /\ produced_count \in 0 .. NumChunks /\ producer_eof \in BOOLEAN
    /\ stopped \in BOOLEAN /\ results \subseteq Chunks
    /\ waiters \subseteq Actors
    /\ err_slot \in BOOLEAN /\ err_flag \in BOOLEAN
    /\ producer \in ProducerPlaces
    /\ worker \in [Workers -> WorkerPlaces]
    /\ held \in [Actors -> SUBSET Chunks]
    /\ writer \in WriterPlaces
    /\ next_index \in 0 .. NumChunks /\ is_final \in BOOLEAN
    /\ pending \subseteq Chunks
    /\ output \in Seq([chunk : Chunks, final : BOOLEAN])
    /\ result \in {"none", "ok", "error"}

Queued  == queue \union cpu_queue \union gpu_queue
Written == {output[k].chunk : k \in 1 .. Len(output)}

\* Every chunk that was produced is in exactly one place: queued, in the hands
\* of one thread, in its result slot, held back, or written; and what the
\* producer reads ahead of the lock is the next one.
ChunkOwnership ==
    /\ (0 .. produced_count - 1) \union held["producer"] =
          Queued \union results \union pending \union Written
             \union UNION {held[a] : a \in Actors}
    /\ Queued \intersect (results \union pending \union Written) = {}
    /\ results \intersect (pending \union Written) = {}
    /\ pending \intersect Written = {}
    /\ \A a \in Actors :
          held[a] \intersect (Queued \union results \union pending \union Written) = {}
    /\ \A a, b \in Actors : a # b => held[a] \intersect held[b] = {}

\* The level the producer throttles on is the weight of the three queues, and
\* passes the target by less than a chunk.
BufferedExact ==
    /\ buffered_bytes = RawBytes[Queued]
    /\ buffered_bytes < Target + ChunkSize

\* A thread that is about to wake everybody: it has an error to report, or
\* a result to insert.
WillNotify ==
    \/ producer = "fail"
    \/ \E w \in Workers : worker[w] \in {"compress", "insert", "fail"}

\* No lost wake-up: whoever sleeps still has a reason to, or some thread is on
\* its way to a notify_all.  In particular the producer that a pop left asleep
\* between the low watermark and the target is woken by that worker's insert.
NoLostWakeup ==
    /\ "producer" \in waiters => (Full /\ ~stopped /\ ~err_flag) \/ WillNotify
    /\ \A w \in Workers \intersect waiters :
          (Suitable(w) = {} /\ ~NoMoreWork(w)) \/ WillNotify
    /\ "writer" \in waiters =>
          (next_index \notin results /\ ~AllTaken /\ ~err_flag) \/ WillNotify

\* Frames are written in index order, and a frame that carries FINAL_STREAM
\* carries it because the producer was at EOF: it is the last chunk's.
FramesInOrder ==
    \A k \in 1 .. Len(output) :
        /\ output[k].chunk = k - 1
        /\ output[k].final => k = NumChunks

\* A call that returns without an error has read its whole input and written
\* all of it, with the possible exception of the last chunk.
OkMeansAllButLast ==
    result = "ok" =>
        /\ produced_count = NumChunks
        /\ Chunks \ Written \subseteq {NumChunks - 1}
        /\ NumChunks - 1 \in Written => output[Len(output)].final

\* A reader, compressors and an output that never fail give a call that never
\* fails: in particular no GPU batch is refused for a short chunk inside it.
NoErrorWithoutFault == Faults = {} => ~err_flag /\ result # "error"

\* The last chunk of the stream carries FINAL_STREAM.
EndsWithFinal ==
    result = "ok" /\ NumChunks > 0 =>
        Len(output) > 0 /\ output[Len(output)].final

\* The compressor implements the ordered pipe.
Pipe == INSTANCE OrderedChunkPipe WITH
            Window <- 0, accepted <- produced_count, emitted <- Len(output),
            outcome <- result

PipeSpec == Pipe!Spec

\* The call returns, whatever fails.
Termination == <>(result # "none")

\* An error that a thread has recorded is what the call returns.
ErrorIsReturned == err_flag ~> (result = "error")
================================================================================

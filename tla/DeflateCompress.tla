---------------------------- MODULE DeflateCompress ----------------------------
(* The streaming hybrid raw-deflate compressor of cozip_deflate                *)
(* (deflate_compress_stream_hybrid_zip_compatible_continuous_with_context):    *)
(* one producer thread cuts the input into chunks, the CPU workers and the GPU *)
(* worker compress them in any order, and the calling thread writes them back  *)
(* in index order.                                                             *)
(*                                                                             *)
(* One action is one critical section, or one step on the atomics between two  *)
(* critical sections.  A thread asleep on a condition variable is a member of  *)
(* that variable's wait set; notify_all empties the set.  The chunks' contents *)
(* are abstracted to their index and their lengths.                            *)
EXTENDS Integers, Sequences, FiniteSets, ChunkBytes

CONSTANTS
    CpuWorkers,        \* the CPU worker threads
    GpuWorkers,        \* the GPU worker thread, or none
    NumChunks,         \* chunks the reader will yield before EOF
    RawBytes,          \* raw length of a set of chunks (additive)
    CompBytes,         \* compressed length of a set of chunks (additive)
    ChunkSize,         \* options.chunk_size
    MaxInflightChunks, \* options.stream_max_inflight_chunks, 0 = no limit
    MaxInflightBytes,  \* options.stream_max_inflight_bytes, 0 = no limit
    GpuBatchChunks,    \* options.gpu_batch_chunks, clamped to 1..16
    GpuMinChunkSize,   \* options.gpu_min_chunk_size
    TailStopPercent,   \* options.gpu_tail_stop_ratio, in percent
    Faults             \* what may fail: "read", "compress", "write"

Chunks  == 0 .. NumChunks - 1
Workers == CpuWorkers \union GpuWorkers
Actors  == Workers \union {"producer", "writer"}

ASSUME WorkersAssumption ==
    /\ IsFiniteSet(CpuWorkers) /\ CpuWorkers # {}
    /\ IsFiniteSet(GpuWorkers)
    /\ CpuWorkers \intersect GpuWorkers = {}
    /\ "producer" \notin Workers /\ "writer" \notin Workers

ASSUME OptionsAssumption ==
    /\ NumChunks \in Nat
    /\ ChunkSize \in Nat \ {0}
    /\ MaxInflightChunks \in Nat /\ MaxInflightBytes \in Nat
    /\ GpuBatchChunks \in 1 .. 16 /\ GpuMinChunkSize \in Nat
    /\ TailStopPercent \in 0 .. 100
    /\ Faults \subseteq {"read", "compress", "write"}

ASSUME BytesAssumption ==
    /\ Additive(RawBytes, Chunks) /\ Additive(CompBytes, Chunks)
    /\ \A c \in Chunks : RawBytes[{c}] \in 1 .. ChunkSize

--------------------------------------------------------------------------------
VARIABLES
    queue,              \* StreamTaskQueueState.queue: indexes, see Push
    closed,             \* StreamTaskQueueState.closed
    queue_waiters,      \* threads asleep on queue_cv
    ready,              \* StreamReadyState.chunks: indexes present in the map
    ready_bytes,        \* StreamReadyState.ready_bytes
    ready_waiters,      \* workers asleep on ready_cv
    error,              \* the error slot holds an error
    total_tasks,        \* atomic; also the producer's next_read_index
    written_tasks,      \* atomic
    inflight_raw_bytes, \* atomic
    producer,           \* where the producer thread is
    worker,             \* where each worker thread is
    held,               \* chunks in the hands of each thread
    writer,             \* where the calling thread is
    next_write_index,   \* local to the calling thread
    total_seen,         \* its last load of total_tasks
    progressed,         \* local to the calling thread
    output,             \* blocks handed to the bit writer: [chunk, final]
    result              \* "none" while the call runs, then "ok" or "error"

queueVars  == <<queue, closed, queue_waiters>>
readyVars  == <<ready, ready_bytes, ready_waiters>>
atomicVars == <<total_tasks, written_tasks, inflight_raw_bytes>>
writerVars == <<writer, next_write_index, total_seen, progressed, output, result>>
vars == <<queueVars, readyVars, error, atomicVars, producer, worker, held,
          writerVars>>

\* The block written when the input was empty belongs to no chunk.
EmptyBlock == -1

Init ==
    /\ queue = {} /\ closed = FALSE /\ queue_waiters = {}
    /\ ready = {} /\ ready_bytes = 0 /\ ready_waiters = {}
    /\ error = FALSE
    /\ total_tasks = 0 /\ written_tasks = 0 /\ inflight_raw_bytes = 0
    /\ producer = "top"
    /\ worker = [w \in Workers |-> "top"]
    /\ held = [a \in Actors |-> {}]
    /\ writer = "top" /\ next_write_index = 0 /\ total_seen = 0
    /\ progressed = FALSE /\ output = <<>> /\ result = "none"

ReadyByteCap ==
    IF MaxInflightBytes > 0
      THEN IF MaxInflightBytes >= ChunkSize THEN MaxInflightBytes ELSE ChunkSize
      ELSE IF MaxInflightChunks > 0
             THEN ChunkSize * MaxInflightChunks
             ELSE ChunkSize * Cardinality(CpuWorkers) * 4

--------------------------------------------------------------------------------
(* Slips: definitions below as a plausible mistake would write them.  Nothing  *)
(* here is part of the specification; each shows that a property can fail.     *)

\* The limit is passed before it is noticed.
LimitHitLate ==
    MaxInflightChunks > 0 /\ Minus(total_tasks, written_tasks) > MaxInflightChunks

\* EOF ends the producer without closing the queue.
ReadEofSilently ==
    /\ producer = "read" /\ total_tasks = NumChunks
    /\ producer' = "done"
    /\ UNCHANGED <<queueVars, readyVars, error, atomicVars, worker, held, writerVars>>

\* A chunk is pushed and nobody is told.
PushSilently ==
    /\ producer = "push"
    /\ queue' = queue \union held["producer"]
    /\ held' = [held EXCEPT !["producer"] = {}]
    /\ producer' = "top"
    /\ UNCHANGED <<closed, queue_waiters, readyVars, error, atomicVars, worker, writerVars>>

\* The tasks are read and stay in the queue.
TakePeek(w, batch) ==
    /\ held' = [held EXCEPT ![w] = batch]
    /\ worker' = [worker EXCEPT ![w] = "compress"]
    /\ UNCHANGED <<queue, queue_waiters>>

\* The writer never looks at the error slot.
WriterTopBlind ==
    /\ writer = "top" /\ writer' = "take"
    /\ progressed' = FALSE
    /\ UNCHANGED <<queueVars, readyVars, error, atomicVars, producer, worker, held,
                   next_write_index, total_seen, output, result>>

\* The last chunk read so far passes for the last one.
IsFinalChunkSoFar == next_write_index + 1 = total_seen

\* The producer is not told that a chunk was written.
NotifyQueueSilently ==
    /\ writer = "notify_queue"
    /\ next_write_index' = next_write_index + 1
    /\ writer' = "take"
    /\ UNCHANGED <<queueVars, readyVars, error, atomicVars, producer, worker, held,
                   total_seen, progressed, output, result>>

\* The GPU worker is not joined.
AllJoinedButGpu == \A w \in CpuWorkers : worker[w] = "done"

--------------------------------------------------------------------------------
(* The producer thread.                                                        *)

ProducerTop ==
    /\ producer = "top"
    /\ producer' = IF error THEN "done" ELSE "gate"
    /\ UNCHANGED <<queueVars, readyVars, error, atomicVars, worker, held, writerVars>>

LimitHit ==
    \/ /\ MaxInflightChunks > 0
       /\ Minus(total_tasks, written_tasks) >= MaxInflightChunks
    \/ MaxInflightBytes > 0 /\ inflight_raw_bytes >= MaxInflightBytes

\* Under the queue lock: sleep while a limit is hit, give up on a closed queue.
ProducerGate ==
    /\ producer = "gate" /\ "producer" \notin queue_waiters
    /\ IF closed
         THEN producer' = "done" /\ UNCHANGED queue_waiters
         ELSE IF LimitHit
                THEN /\ queue_waiters' = queue_waiters \union {"producer"}
                     /\ UNCHANGED producer
                ELSE producer' = "read" /\ UNCHANGED queue_waiters
    /\ UNCHANGED <<queue, closed, readyVars, error, atomicVars, worker, held, writerVars>>

\* An error of the reader ends the thread without closing the queue.
ReadFails ==
    /\ producer = "read" /\ "read" \in Faults
    /\ error' = TRUE
    /\ producer' = "done"
    /\ UNCHANGED <<queueVars, readyVars, atomicVars, worker, held, writerVars>>

ReadEof ==
    /\ producer = "read" /\ total_tasks = NumChunks
    /\ closed' = TRUE /\ queue_waiters' = {}
    /\ producer' = "done"
    /\ UNCHANGED <<queue, readyVars, error, atomicVars, worker, held, writerVars>>

\* The totals are stored before the chunk is in the queue.
ReadChunk ==
    /\ producer = "read" /\ total_tasks < NumChunks
    /\ held' = [held EXCEPT !["producer"] = {total_tasks}]
    /\ inflight_raw_bytes' = inflight_raw_bytes + RawBytes[{total_tasks}]
    /\ total_tasks' = total_tasks + 1
    /\ producer' = "push"
    /\ UNCHANGED <<queueVars, readyVars, error, written_tasks, worker, writerVars>>

\* push_back.  There is one producer and it pushes increasing indexes, so the
\* set of the queued indexes, taken in increasing order, is the queue.
Push ==
    /\ producer = "push"
    /\ queue' = queue \union held["producer"]
    /\ held' = [held EXCEPT !["producer"] = {}]
    /\ queue_waiters' = {}
    /\ producer' = "top"
    /\ UNCHANGED <<closed, readyVars, error, atomicVars, worker, writerVars>>

Producer == ProducerTop \/ ProducerGate \/ ReadFails \/ ReadEof \/ ReadChunk \/ Push

--------------------------------------------------------------------------------
(* The workers.  The CPU and the GPU workers share their loop and differ in    *)
(* what they take from the queue and in when they may insert.                  *)

WorkerTop(w) ==
    /\ worker[w] = "top"
    /\ worker' = [worker EXCEPT ![w] = IF error THEN "done" ELSE "gate"]
    /\ UNCHANGED <<queueVars, readyVars, error, atomicVars, producer, held, writerVars>>

\* Under the ready lock, before a task is taken: sleep while the map is full.
ReadyGate(w) ==
    /\ worker[w] = "gate" /\ w \notin ready_waiters
    /\ IF ready_bytes >= ReadyByteCap /\ ~error
         THEN ready_waiters' = ready_waiters \union {w} /\ UNCHANGED worker
         ELSE worker' = [worker EXCEPT ![w] = "pop"] /\ UNCHANGED ready_waiters
    /\ UNCHANGED <<queueVars, ready, ready_bytes, error, atomicVars, producer, held, writerVars>>

SleepOnQueue(w) ==
    /\ queue_waiters' = queue_waiters \union {w}
    /\ UNCHANGED <<queue, held, worker>>

Leave(w) ==
    /\ worker' = [worker EXCEPT ![w] = "done"]
    /\ UNCHANGED <<queue, held, queue_waiters>>

Take(w, batch) ==
    /\ queue' = queue \ batch
    /\ held' = [held EXCEPT ![w] = batch]
    /\ worker' = [worker EXCEPT ![w] = "compress"]
    /\ UNCHANGED queue_waiters

Front(S) == {c \in S : \A d \in S : c <= d}

CpuPop(w) ==
    /\ w \in CpuWorkers /\ worker[w] = "pop" /\ w \notin queue_waiters
    /\ \/ queue # {} /\ Take(w, Front(queue))
       \/ queue = {} /\ closed /\ Leave(w)
       \/ queue = {} /\ ~closed /\ SleepOnQueue(w)
    /\ UNCHANGED <<closed, readyVars, error, atomicVars, producer, writerVars>>

Eligible == {c \in queue : RawBytes[{c}] >= GpuMinChunkSize}

ShouldStopTailPop ==
    /\ TailStopPercent < 100 /\ total_tasks > 0
    /\ Minus(total_tasks, Cardinality(queue)) * 100 >= TailStopPercent * total_tasks

\* The first eligible tasks in queue order, up to the batch limit.
GpuBatch ==
    {c \in Eligible : Cardinality({d \in Eligible : d < c}) < GpuBatchChunks}

GpuPop(w) ==
    /\ w \in GpuWorkers /\ worker[w] = "pop" /\ w \notin queue_waiters
    /\ LET stop == closed /\ ShouldStopTailPop IN
          \/ stop /\ Leave(w)
          \/ ~stop /\ Eligible # {} /\ Take(w, GpuBatch)
          \/ ~stop /\ Eligible = {} /\ closed /\ Leave(w)
          \/ ~closed /\ Eligible = {} /\ SleepOnQueue(w)
    /\ UNCHANGED <<closed, readyVars, error, atomicVars, producer, writerVars>>

\* A failed GPU batch is compressed again on the CPU, which looks the same here.
Compress(w) ==
    /\ worker[w] = "compress"
    /\ worker' = [worker EXCEPT ![w] = "insert"]
    /\ UNCHANGED <<queueVars, readyVars, error, atomicVars, producer, held, writerVars>>

\* Nobody is notified, and what the thread held is lost with it.
CompressFails(w) ==
    /\ worker[w] = "compress" /\ "compress" \in Faults
    /\ error' = TRUE
    /\ worker' = [worker EXCEPT ![w] = "done"]
    /\ UNCHANGED <<queueVars, readyVars, atomicVars, producer, held, writerVars>>

NoRoom(w) ==
    IF w \in CpuWorkers
      THEN ready_bytes >= ReadyByteCap
      ELSE ready_bytes + CompBytes[held[w]] > ReadyByteCap

\* Under the ready lock: sleep while there is no room, then insert the whole
\* batch.  An index that is already in the map is an error of the worker.
Insert(w) ==
    /\ worker[w] = "insert" /\ w \notin ready_waiters
    /\ IF NoRoom(w) /\ ~error
         THEN /\ ready_waiters' = ready_waiters \union {w}
              /\ UNCHANGED <<ready, ready_bytes, error, worker, held>>
         ELSE LET duplicate == held[w] \intersect ready # {} IN
              /\ ready' = ready \union held[w]
              /\ ready_bytes' = ready_bytes + CompBytes[held[w] \ ready]
              /\ ready_waiters' = IF duplicate THEN ready_waiters ELSE {}
              /\ error' = (error \/ duplicate)
              /\ held' = [held EXCEPT ![w] = {}]
              /\ worker' = [worker EXCEPT ![w] = IF duplicate THEN "done" ELSE "top"]
    /\ UNCHANGED <<queueVars, atomicVars, producer, writerVars>>

Worker(w) ==
    \/ WorkerTop(w) \/ ReadyGate(w) \/ CpuPop(w) \/ GpuPop(w)
    \/ Compress(w) \/ CompressFails(w) \/ Insert(w)

--------------------------------------------------------------------------------
(* The calling thread: it writes, closes the queue and joins the others.       *)

WriterTop ==
    /\ writer = "top"
    /\ writer' = IF error THEN "close" ELSE "take"
    /\ progressed' = FALSE
    /\ UNCHANGED <<queueVars, readyVars, error, atomicVars, producer, worker, held,
                   next_write_index, total_seen, output, result>>

WriterTake ==
    /\ writer = "take"
    /\ IF next_write_index \in ready
         THEN /\ ready' = ready \ {next_write_index}
              /\ ready_bytes' = Minus(ready_bytes, CompBytes[{next_write_index}])
              /\ held' = [held EXCEPT !["writer"] = {next_write_index}]
              /\ progressed' = TRUE
              /\ writer' = "load_total"
         ELSE writer' = "check_total" /\ UNCHANGED <<ready, ready_bytes, held, progressed>>
    /\ UNCHANGED <<queueVars, ready_waiters, error, atomicVars, producer, worker,
                   next_write_index, total_seen, output, result>>

\* total_tasks is loaded before the queue lock is taken to read closed, both
\* here and at the end of the loop.
LoadTotal ==
    /\ \/ writer = "load_total" /\ writer' = "write"
       \/ writer = "check_total" /\ writer' = "check_closed"
    /\ total_seen' = total_tasks
    /\ UNCHANGED <<queueVars, readyVars, error, atomicVars, producer, worker, held,
                   next_write_index, progressed, output, result>>

IsFinalChunk == closed /\ next_write_index + 1 = total_seen

WriteChunk ==
    /\ writer = "write"
    /\ output' = Append(output, [chunk |-> next_write_index, final |-> IsFinalChunk])
    /\ held' = [held EXCEPT !["writer"] = {}]
    /\ total_seen' = 0
    /\ writer' = "account"
    /\ UNCHANGED <<queueVars, readyVars, error, atomicVars, producer, worker,
                   next_write_index, progressed, result>>

\* `?` leaves the scope at once: the queue is not closed, nobody is notified.
WriteFails ==
    /\ writer = "write" /\ "write" \in Faults
    /\ total_seen' = 0
    /\ writer' = "failed"
    /\ UNCHANGED <<queueVars, readyVars, error, atomicVars, producer, worker, held,
                   next_write_index, progressed, output, result>>

Account ==
    /\ writer = "account"
    /\ inflight_raw_bytes' = inflight_raw_bytes - RawBytes[{next_write_index}]
    /\ written_tasks' = next_write_index + 1
    /\ writer' = "notify_ready"
    /\ UNCHANGED <<queueVars, readyVars, error, total_tasks, producer, worker, held,
                   next_write_index, total_seen, progressed, output, result>>

NotifyReady ==
    /\ writer = "notify_ready"
    /\ ready_waiters' = {}
    /\ writer' = "notify_queue"
    /\ UNCHANGED <<queueVars, ready, ready_bytes, error, atomicVars, producer, worker, held,
                   next_write_index, total_seen, progressed, output, result>>

NotifyQueue ==
    /\ writer = "notify_queue"
    /\ queue_waiters' = {}
    /\ next_write_index' = next_write_index + 1
    /\ writer' = "take"
    /\ UNCHANGED <<queue, closed, readyVars, error, atomicVars, producer, worker, held,
                   total_seen, progressed, output, result>>

CheckDone ==
    /\ writer = "check_closed"
    /\ writer' = IF closed /\ next_write_index = total_seen THEN "close"
                 ELSE IF progressed THEN "top" ELSE "wait"
    /\ total_seen' = 0
    /\ UNCHANGED <<queueVars, readyVars, error, atomicVars, producer, worker, held,
                   next_write_index, progressed, output, result>>

\* The wait is timed (2 ms): it ends whether or not anybody notifies.
WriterWait ==
    /\ writer = "wait"
    /\ writer' = "top"
    /\ UNCHANGED <<queueVars, readyVars, error, atomicVars, producer, worker, held,
                   next_write_index, total_seen, progressed, output, result>>

CloseQueue ==
    /\ writer = "close"
    /\ closed' = TRUE /\ queue_waiters' = {}
    /\ writer' = "join_producer"
    /\ UNCHANGED <<queue, readyVars, error, atomicVars, producer, worker, held,
                   next_write_index, total_seen, progressed, output, result>>

\* The end of the thread scope joins the producer, whichever way it is left;
\* on the normal way the queue is closed a second time.
JoinProducer ==
    /\ producer = "done"
    /\ \/ /\ writer = "join_producer"
          /\ closed' = TRUE /\ queue_waiters' = {}
          /\ writer' = "join_workers"
          /\ UNCHANGED result
       \/ /\ writer = "failed"
          /\ writer' = "returned" /\ result' = "error"
          /\ UNCHANGED <<closed, queue_waiters>>
    /\ UNCHANGED <<queue, readyVars, error, atomicVars, worker, producer, held,
                   next_write_index, total_seen, progressed, output>>

AllJoined == \A w \in Workers : worker[w] = "done"

\* An input without a chunk still gets one block, an empty final one.
JoinWorkers ==
    /\ writer = "join_workers" /\ AllJoined
    /\ writer' = "returned"
    /\ result' = IF error THEN "error" ELSE "ok"
    /\ output' = IF ~error /\ output = <<>>
                   THEN << [chunk |-> EmptyBlock, final |-> TRUE] >>
                   ELSE output
    /\ UNCHANGED <<queueVars, readyVars, error, atomicVars, producer, worker, held,
                   next_write_index, total_seen, progressed>>

Writer ==
    \/ WriterTop \/ WriterTake \/ LoadTotal \/ WriteChunk \/ WriteFails \/ Account
    \/ NotifyReady \/ NotifyQueue \/ CheckDone \/ WriterWait \/ CloseQueue
    \/ JoinProducer \/ JoinWorkers

--------------------------------------------------------------------------------
\* A condition variable may wake a sleeper for no reason; every wait is in a loop.
SpuriousWake ==
    /\ \/ \E t \in queue_waiters :
             queue_waiters' = queue_waiters \ {t} /\ UNCHANGED ready_waiters
       \/ \E t \in ready_waiters :
             ready_waiters' = ready_waiters \ {t} /\ UNCHANGED queue_waiters
    /\ UNCHANGED <<queue, closed, ready, ready_bytes, error, atomicVars, producer,
                   worker, held, writerVars>>

Returned == writer = "returned" /\ UNCHANGED vars

Next == Producer \/ (\E w \in Workers : Worker(w)) \/ Writer \/ SpuriousWake \/ Returned

Spec == Init /\ [][Next]_vars

\* Each thread is scheduled, locks are granted, reads and writes return; a
\* spurious wake-up is never promised.
Fairness ==
    /\ WF_vars(Producer)
    /\ \A w \in Workers : WF_vars(Worker(w))
    /\ WF_vars(Writer)

FairSpec == Spec /\ Fairness

--------------------------------------------------------------------------------
(* Properties.                                                                 *)

ProducerPlaces == {"top", "gate", "read", "push", "done"}
WorkerPlaces   == {"top", "gate", "pop", "compress", "insert", "done"}
WriterPlaces   == {"top", "take", "load_total", "write", "account", "notify_ready",
                   "notify_queue", "check_total", "check_closed", "wait", "close",
                   "join_producer", "join_workers", "failed", "returned"}

\* Types of the state: in particular no counter ever goes below zero, although
\* the atomics are decremented without a check.
TypeOK ==
    /\ queue \subseteq Chunks /\ closed \in BOOLEAN
    /\ queue_waiters \subseteq Workers \union {"producer"}
    /\ ready \subseteq Chunks /\ ready_bytes \in Nat /\ ready_waiters \subseteq Workers
    /\ error \in BOOLEAN
    /\ total_tasks \in 0 .. NumChunks /\ written_tasks \in 0 .. NumChunks
    /\ inflight_raw_bytes \in Nat
    /\ producer \in ProducerPlaces
    /\ worker \in [Workers -> WorkerPlaces]
    /\ held \in [Actors -> SUBSET Chunks]
    /\ writer \in WriterPlaces /\ next_write_index \in 0 .. NumChunks
    /\ total_seen \in 0 .. NumChunks /\ progressed \in BOOLEAN
    /\ output \in Seq([chunk : Chunks \union {EmptyBlock}, final : BOOLEAN])
    /\ result \in {"none", "ok", "error"}

Written == {output[k].chunk : k \in 1 .. Len(output)} \ {EmptyBlock}

\* Every chunk that was read is in exactly one place: queued, in the hands of
\* one thread, waiting in the ready map, or written.  No interleaving of the
\* producer, the workers' batches and the writer loses or duplicates one.
ChunkOwnership ==
    /\ 0 .. total_tasks - 1 =
          queue \union ready \union Written \union UNION {held[a] : a \in Actors}
    /\ queue \intersect ready = {}
    /\ Written \intersect (queue \union ready) = {}
    /\ \A a \in Actors : held[a] \intersect (queue \union ready \union Written) = {}
    /\ \A a, b \in Actors : a # b => held[a] \intersect held[b] = {}

\* The byte counters the threads throttle on are exact: ready_bytes weighs the
\* chunks of the ready map, inflight_raw_bytes the chunks that were read and
\* not yet accounted as written.
ExactBytes ==
    /\ ready_bytes = CompBytes[ready]
    /\ inflight_raw_bytes = RawBytes[written_tasks .. total_tasks - 1]

\* The throttle of the producer: at most MaxInflightChunks chunks are in
\* flight, and the raw bytes in flight pass MaxInflightBytes by less than the
\* last chunk that was let in.
InflightBounded ==
    /\ MaxInflightChunks > 0 => total_tasks - written_tasks <= MaxInflightChunks
    /\ MaxInflightBytes > 0 => inflight_raw_bytes < MaxInflightBytes + ChunkSize

\* The throttle of the workers: unless an error opened the gates, a worker
\* inserts into a ready map that is below its cap, so the map never weighs more
\* than the cap and one chunk, however many workers compress at once.
ReadyBounded ==
    ~error => \/ ready_bytes <= ReadyByteCap
              \/ \E c \in ready : ready_bytes < ReadyByteCap + CompBytes[{c}]

\* No lost wake-up: whoever sleeps has a reason to, or the writer is on its way
\* to the notify_all that wakes it.  Only a failure of the output, which makes
\* the writer leave without notifying anybody, is exempt.
NoLostWakeup ==
    /\ \A w \in CpuWorkers \intersect queue_waiters : queue = {} /\ ~closed
    /\ \A w \in GpuWorkers \intersect queue_waiters : Eligible = {} /\ ~closed
    /\ "producer" \in queue_waiters =>
          ~closed /\ (LimitHit \/ writer \in {"notify_ready", "notify_queue"})
    /\ \A w \in ready_waiters :
          \/ worker[w] = "gate" /\ ready_bytes >= ReadyByteCap
          \/ worker[w] = "insert" /\ NoRoom(w)
          \/ writer \in {"load_total", "write", "account", "notify_ready"}
          \/ writer \in {"failed", "returned"}

\* A call that returns without an error has read all of its input, and no
\* chunk is left in the queue or in a thread: one that was not written is in
\* the ready map.
OkMeansDrained ==
    result = "ok" =>
        /\ total_tasks = NumChunks
        /\ queue = {}
        /\ \A a \in Actors : held[a] = {}

\* Once a block carries BFINAL, the producer has seen EOF, and if the last
\* chunk is written after it, that one carries BFINAL too: the stream that a
\* premature final bit cuts short is never left open as well.
FinalIsSticky ==
    \A k \in 1 .. Len(output) :
        output[k].final =>
            /\ closed /\ total_tasks = NumChunks
            /\ Len(output) = NumChunks => output[NumChunks].final

\* The last chunk, and only the last chunk, carries BFINAL.
OnlyLastChunkFinal ==
    result = "ok" =>
        \A k \in 1 .. Len(output) : output[k].final <=> k = Len(output)

\* What a successful call wrote is its whole input.
OkMeansAllWritten ==
    result = "ok" => Written = Chunks

\* The compressor implements the ordered, bounded pipe.
Pipe == INSTANCE OrderedChunkPipe WITH
            Window <- MaxInflightChunks, accepted <- total_tasks,
            emitted <- written_tasks, outcome <- result

PipeSpec == Pipe!Spec

\* The worker that has the chunk to be written next sleeps, for want of room, at a
\* ready map that later chunks have filled: only that chunk could make room, so
\* nobody ever does, although nothing has failed.
HeadBlocked ==
    \E w \in ready_waiters :
        worker[w] = "insert" /\ next_write_index \in held[w] /\ NoRoom(w)

\* That takes chunks in flight that compress to the cap and more: where the limits
\* keep what is in flight below it, no order of the workers blocks the call.
BlockedByWeight ==
    HeadBlocked => CompBytes[written_tasks .. total_tasks - 1] >= ReadyByteCap

\* The counters are exact, both throttles keep their bounds, and the second blocks
\* the chunk that the writer waits for only under that weight.
Throttles == ExactBytes /\ InflightBounded /\ ReadyBounded /\ BlockedByWeight

\* A thread that fails closes nothing and notifies nobody.  A worker asleep at the
\* full ready map is then woken by no one but a writer that makes progress, and
\* a producer at its limit by no one when it is the output that failed.
MayHang == (error /\ ready_waiters # {}) \/ (writer = "failed" /\ LimitHit)

\* The call returns, unless the ready map shuts out the chunk that is to be written
\* next: no other interleaving of sleeps and wake-ups keeps it forever, and no
\* error but one that meets a thread asleep at one of the two throttles.
Termination == <>(result # "none" \/ MayHang \/ HeadBlocked)

\* But for the same cases, an error that a thread has recorded is what the call
\* returns, sooner or later.
ErrorIsReturned == error ~> (result = "error" \/ MayHang)
================================================================================

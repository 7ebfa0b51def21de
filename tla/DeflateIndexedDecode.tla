-------------------------- MODULE DeflateIndexedDecode --------------------------
(* The deflate decoder that is driven by a CZDI index (cozip_deflate, lib.rs): *)
(* a producer thread cuts the chunks of the index out of the stream, CPU       *)
(* workers decode them in any order, and the output is either a stream, which  *)
(* the calling thread writes in index order                                    *)
(* (deflate_decompress_stream_hybrid_indexed_with_context), or a file, to      *)
(* which the workers submit each chunk at its offset                           *)
(* (deflate_decompress_stream_indexed_parallel_write).                         *)
(*                                                                             *)
(* The queue is behind a mutex with a condition variable, on which the         *)
(* producer waits for room and the workers for chunks.  The calling thread     *)
(* polls: its wait for a result has a timeout.                                 *)
EXTENDS ParallelFileWriter, FiniteSetsExt

CONSTANTS
    NumChunks,    \* entries of the index
    Packed,       \* the compressed length of each
    QueueCap,     \* decode_queue_byte_cap
    LowWatermark, \* decode_queue_low_watermark
    Calls         \* the calls that are made, see Call

Chunks  == 0 .. NumChunks - 1
Workers == Clients

\* A call: the form of its output, what may fail ("read", or a malformed chunk;
\* "trailing": more or less behind the last chunk than the index says; "size": the
\* index is wrong about the output; "decode"; "output": a write to the stream), and
\* the setup of the file writer.
Call == [form   : {"stream", "file"},
         faults : SUBSET {"read", "trailing", "size", "decode", "output"},
         setup  : Setups]

ASSUME IndexedAssumption ==
    /\ NumChunks \in Nat /\ Writes = Chunks
    /\ Packed \in [Chunks -> Nat \ {0}]
    /\ QueueCap \in Nat \ {0} /\ LowWatermark \in 1 .. QueueCap
    /\ "producer" \notin Workers
    /\ Calls \subseteq Call

--------------------------------------------------------------------------------
VARIABLES
    call,         \* the call, one of Calls, which does not change
    queue,        \* StreamDecodeTaskQueueState.queue: indexes, first the least
    queued_bytes, \* StreamDecodeTaskQueueState.queued_bytes
    queue_closed, \* StreamDecodeTaskQueueState.closed
    napping,      \* threads asleep on the queue's condition variable
    error,        \* the error slot holds an error; only the caller takes it
    producer,     \* where the producer is
    total_tasks,  \* chunks it has pushed
    worker,       \* where each worker is
    hand,         \* the chunk each worker holds
    decoded,      \* DecodeReadyState.slots, or the crc slots of the file form
    caller,       \* where the calling thread is
    next_index,   \* the next chunk it writes
    output,       \* what it has written to the stream
    result        \* "none" while the call runs, then "ok" or "error"

queueVars    == <<queue, queued_bytes, queue_closed, total_tasks>>
callerVars   == <<caller, next_index, output, result>>
indexedVars  == <<call, queueVars, napping, error, producer, worker, hand, decoded, callerVars>>
allVars      == <<writerVars, indexedVars>>

Fault(what) == what \in call.faults
ToFile == call.form = "file"

\* The file form checks the size that the index declares before it starts a thread.
IndexedInit ==
    /\ WriterInit
    /\ call \in Calls /\ setup = call.setup
    /\ queue = {} /\ queued_bytes = 0 /\ queue_closed = FALSE /\ total_tasks = 0
    /\ napping = {} /\ error = FALSE
    /\ producer = IF ToFile /\ Fault("size") THEN "done" ELSE "cut"
    /\ worker = [w \in Workers |-> IF ToFile /\ Fault("size") THEN "done" ELSE "top"]
    /\ hand = [w \in Workers |-> {}]
    /\ decoded = {}
    /\ caller = IF ToFile THEN IF Fault("size") THEN "failed" ELSE "join" ELSE "poll"
    /\ next_index = 0 /\ output = <<>> /\ result = "none"

PackedOf(S) == IF S = {} THEN 0 ELSE Packed[CHOOSE c \in S : TRUE]

--------------------------------------------------------------------------------
(* Slips: definitions below as a plausible mistake would write them.           *)

\* The producer closes the queue and wakes nobody.
CloseSilently ==
    /\ producer = "close"
    /\ queue_closed' = TRUE /\ producer' = "done"
    /\ UNCHANGED <<call, queue, queued_bytes, total_tasks, napping, error, worker, hand,
                   decoded, callerVars>>

\* The calling thread takes any result for the next one.
NextResultAny == decoded

--------------------------------------------------------------------------------
(* The producer.                                                               *)

\* The chunk's bits are read and cut out; any error ends the thread, which neither
\* closes the queue nor wakes anybody.
Cut ==
    /\ producer = "cut"
    /\ \/ total_tasks < NumChunks /\ producer' = "push" /\ UNCHANGED error
       \/ total_tasks = NumChunks /\ ~Fault("trailing") /\ producer' = "close" /\ UNCHANGED error
       \/ /\ Fault("read") \/ (total_tasks = NumChunks /\ Fault("trailing"))
          /\ producer' = "failed" /\ error' = TRUE
    /\ UNCHANGED <<call, queueVars, napping, worker, hand, decoded, callerVars>>

NoRoom == queued_bytes >= QueueCap

WaitForRoom ==
    /\ producer = "push" /\ "producer" \notin napping
    /\ NoRoom /\ ~queue_closed
    /\ napping' = napping \union {"producer"}
    /\ UNCHANGED <<call, queueVars, error, producer, worker, hand, decoded, callerVars>>

Push ==
    /\ producer = "push" /\ "producer" \notin napping
    /\ ~NoRoom \/ queue_closed
    /\ queue' = queue \union {total_tasks}
    /\ queued_bytes' = queued_bytes + Packed[total_tasks]
    /\ total_tasks' = total_tasks + 1
    /\ napping' = {}
    /\ producer' = "cut"
    /\ UNCHANGED <<call, queue_closed, error, worker, hand, decoded, callerVars>>

CloseQueue ==
    /\ producer = "close"
    /\ queue_closed' = TRUE /\ napping' = {}
    /\ producer' = "done"
    /\ UNCHANGED <<call, queue, queued_bytes, total_tasks, error, worker, hand, decoded,
                   callerVars>>

Producer == Cut \/ WaitForRoom \/ Push \/ CloseQueue

--------------------------------------------------------------------------------
(* The workers.                                                                *)

WorkerTop(w) ==
    /\ worker[w] = "top"
    /\ worker' = [worker EXCEPT ![w] = IF error THEN "done" ELSE "pop"]
    /\ UNCHANGED <<call, queueVars, napping, error, producer, hand, decoded, callerVars>>

Pop(w) ==
    /\ worker[w] = "pop" /\ w \notin napping
    /\ \E c \in queue :
          /\ \A d \in queue : c <= d
          /\ queue' = queue \ {c}
          /\ queued_bytes' = Minus(queued_bytes, Packed[c])
          /\ hand' = [hand EXCEPT ![w] = {c}]
    /\ napping' = IF queued_bytes' < LowWatermark THEN {} ELSE napping
    /\ worker' = [worker EXCEPT ![w] = "decode"]
    /\ UNCHANGED <<call, queue_closed, total_tasks, error, producer, decoded, callerVars>>

\* With nothing in the queue the error slot is not looked at.
PopNothing(w) ==
    /\ worker[w] = "pop" /\ w \notin napping /\ queue = {}
    /\ IF queue_closed
         THEN worker' = [worker EXCEPT ![w] = "done"] /\ UNCHANGED napping
         ELSE napping' = napping \union {w} /\ UNCHANGED worker
    /\ UNCHANGED <<call, queueVars, error, producer, hand, decoded, callerVars>>

Decode(w) ==
    /\ worker[w] = "decode"
    /\ \/ worker' = [worker EXCEPT ![w] = IF ToFile THEN "submit" ELSE "store"]
          /\ UNCHANGED <<error, hand>>
       \/ /\ Fault("decode")
          /\ error' = TRUE
          /\ worker' = [worker EXCEPT ![w] = "done"] /\ hand' = [hand EXCEPT ![w] = {}]
    /\ UNCHANGED <<call, queueVars, napping, producer, decoded, callerVars>>

\* A slot that is taken is an error of the call.
Store(w) ==
    /\ worker[w] = "store"
    /\ IF hand[w] \intersect decoded = {}
         THEN /\ decoded' = decoded \union hand[w]
              /\ worker' = [worker EXCEPT ![w] = "top"] /\ UNCHANGED error
         ELSE /\ error' = TRUE
              /\ worker' = [worker EXCEPT ![w] = "done"] /\ UNCHANGED decoded
    /\ hand' = [hand EXCEPT ![w] = {}]
    /\ UNCHANGED <<call, queueVars, napping, producer, callerVars>>

SubmitChunk(w) ==
    /\ worker[w] = "submit"
    /\ \E c \in hand[w] : Submit(w, c)
    /\ worker' = [worker EXCEPT ![w] = "submitting"]
    /\ UNCHANGED <<call, queueVars, napping, error, producer, hand, decoded, callerVars>>

\* Only what the writer has accepted gets its crc slot.
SubmitReturns(w) ==
    /\ worker[w] = "submitting" /\ Return(w)
    /\ IF client[w] = "ok"
         THEN worker' = [worker EXCEPT ![w] = "store"] /\ UNCHANGED <<error, hand>>
         ELSE /\ error' = TRUE
              /\ worker' = [worker EXCEPT ![w] = "done"] /\ hand' = [hand EXCEPT ![w] = {}]
    /\ UNCHANGED <<call, queueVars, napping, producer, decoded, callerVars>>

Worker(w) ==
    \/ /\ WorkerTop(w) \/ Pop(w) \/ PopNothing(w) \/ Decode(w) \/ Store(w)
       /\ UNCHANGED writerVars
    \/ SubmitChunk(w) \/ SubmitReturns(w)
    \/ Client(w) /\ UNCHANGED indexedVars

--------------------------------------------------------------------------------
(* The calling thread.                                                         *)

\* The stream form polls: the error, then the results in order until one is missing.
Poll ==
    /\ caller = "poll"
    /\ caller' = IF next_index = NumChunks \/ error THEN "join" ELSE "take"
    /\ UNCHANGED <<call, queueVars, napping, error, producer, worker, hand, decoded,
                   next_index, output, result>>

NextResult == decoded \intersect {next_index}

Take ==
    /\ caller = "take"
    /\ \/ /\ NextResult = {}
          /\ caller' = "poll"
          /\ UNCHANGED <<decoded, next_index, output>>
       \/ \E c \in NextResult :
             /\ decoded' = decoded \ {c}
             /\ \/ /\ output' = Append(output, c)
                   /\ next_index' = next_index + 1
                   /\ UNCHANGED caller
                \/ /\ Fault("output") /\ caller' = "leave"
                   /\ UNCHANGED <<output, next_index>>
    /\ UNCHANGED <<call, queueVars, napping, error, producer, worker, hand, result>>

\* An error of the output only joins the producer.  Otherwise the workers are joined
\* as well, and the error is taken.
Join ==
    /\ producer \in {"done", "failed"}
    /\ \/ caller = "leave" /\ caller' = "failed" /\ UNCHANGED error
       \/ /\ caller = "join" /\ \A w \in Workers : worker[w] = "done"
          /\ caller' = IF error THEN "failed" ELSE IF ToFile THEN "drain" ELSE "check"
          /\ error' = FALSE
    /\ UNCHANGED <<call, queueVars, napping, producer, worker, hand, decoded, next_index,
                   output, result>>

CallerDrains == caller = "drain" /\ Drain /\ UNCHANGED indexedVars

\* The file form wants every crc slot, the stream form the declared size.
CallerReturns ==
    /\ result = "none"
    /\ \/ caller = "failed" /\ result' = "error"
       \/ caller = "check" /\ result' = IF Fault("size") THEN "error" ELSE "ok"
       \/ caller = "drain" /\ drainer = "failed" /\ result' = "error"
       \/ caller = "drain" /\ drainer = "ok"
          /\ result' = IF decoded = Chunks THEN "ok" ELSE "error"
    /\ UNCHANGED <<call, queueVars, napping, error, producer, worker, hand, decoded, caller,
                   next_index, output>>

Caller == Poll \/ Take \/ Join \/ CallerReturns

Spurious ==
    /\ \E t \in napping : napping' = napping \ {t}
    /\ UNCHANGED <<call, queueVars, error, producer, worker, hand, decoded, callerVars>>

Returned == result # "none" /\ UNCHANGED allVars

IndexedNext ==
    \/ (Producer \/ Caller \/ Spurious) /\ UNCHANGED writerVars
    \/ \E w \in Workers : Worker(w)
    \/ CallerDrains
    \/ WriterInternal /\ UNCHANGED indexedVars
    \/ Returned

IndexedFairness ==
    /\ WF_allVars(Producer /\ UNCHANGED writerVars)
    /\ WF_allVars(Caller /\ UNCHANGED writerVars)
    /\ WF_allVars(CallerDrains)
    /\ \A w \in Workers : WF_allVars(Worker(w))
    /\ WF_allVars(Ring /\ UNCHANGED indexedVars)
    /\ WF_allVars(Iocp /\ UNCHANGED indexedVars)
    /\ WF_allVars(Draining /\ UNCHANGED indexedVars)
    /\ \A w \in PoolWorkers : WF_allVars(Pool(w) /\ UNCHANGED indexedVars)

IndexedSpec == IndexedInit /\ [][IndexedNext]_allVars /\ IndexedFairness

--------------------------------------------------------------------------------
(* Properties.                                                                 *)

\* Types of the state.
IndexedTypes ==
    /\ WriterTypeOK
    /\ call \in Calls /\ queue \subseteq Chunks /\ queued_bytes \in Nat
    /\ queue_closed \in BOOLEAN /\ total_tasks \in 0 .. NumChunks
    /\ napping \subseteq Workers \union {"producer"} /\ error \in BOOLEAN
    /\ producer \in {"cut", "push", "close", "done", "failed"}
    /\ worker \in [Workers -> {"top", "pop", "decode", "store", "submit", "submitting", "done"}]
    /\ hand \in [Workers -> SUBSET Chunks] /\ decoded \subseteq Chunks
    /\ caller \in {"poll", "take", "join", "leave", "drain", "check", "failed"}
    /\ next_index \in 0 .. NumChunks /\ output \in Seq(Chunks)
    /\ result \in {"none", "ok", "error"}

Weight(S) == MapThenSumSet(LAMBDA c : Packed[c], S)

\* The level the producer waits on is what is queued, it passes the cap by less
\* than a chunk, and a chunk is never in two places.
QueueExact ==
    /\ IndexedTypes
    /\ queued_bytes = Weight(queue)
    /\ queued_bytes >= QueueCap =>
          \E c \in Chunks : queued_bytes < QueueCap + Packed[c]
    /\ \A w \in Workers :
          /\ hand[w] \intersect (queue \union decoded) = {}
          /\ \A v \in Workers \ {w} : hand[w] \intersect hand[v] = {}
    /\ queue \intersect decoded = {}

\* The chunks are accounted for on their way, the stream is written in order, and a
\* call that returns without an error has put out every chunk of the index, and the
\* stream was as long as the index says.
IndexedOkIsWhole ==
    /\ QueueExact
    /\ \A k \in 1 .. Len(output) : output[k] = k - 1
    /\ result = "ok" =>
          /\ IF ToFile THEN \A c \in Chunks : left[c] = 0 ELSE Len(output) = NumChunks
          /\ producer = "done" /\ ~Fault("trailing") /\ ~Fault("size")

\* What leaves threads asleep for good: a producer that left on an error without
\* closing the queue, a worker's error while the producer waits for room, which it
\* does without looking at the error, and what the file writer may wait for in vain.
IndexedMayStay ==
    \/ producer = "failed"
    \/ error /\ "producer" \in napping
    \/ ToFile /\ MayStay

\* The call returns, but in those cases.
IndexedEnds    == result # "none" \/ IndexedMayStay
IndexedReturns == <>IndexedEnds
================================================================================

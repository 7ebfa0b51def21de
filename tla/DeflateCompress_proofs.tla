------------------------- MODULE DeflateCompress_proofs -------------------------
(* Proofs about DeflateCompress, for every number of workers, every input and  *)
(* every option.                                                               *)
EXTENDS DeflateCompress, ChunkBytes_proofs, FiniteSetTheorems, TLAPS

--------------------------------------------------------------------------------
(* The inductive invariant.                                                    *)

\* What a thread holds, by the place where it is.
Hands ==
    /\ held["producer"] = IF producer = "push" THEN {total_tasks - 1} ELSE {}
    /\ producer = "push" => total_tasks > 0
    /\ \A w \in Workers : worker[w] \in {"top", "gate", "pop"} => held[w] = {}
    /\ writer \in {"load_total", "write", "failed"} => held["writer"] = {next_write_index}
    /\ writer = "returned" => held["writer"] \in {{}, {next_write_index}}
    /\ writer \notin {"load_total", "write", "failed", "returned"} => held["writer"] = {}

\* The first index that is not in the output.
WrittenEnd ==
    IF writer \in {"account", "notify_ready", "notify_queue"}
      THEN next_write_index + 1 ELSE next_write_index

\* How the writer's index, its atomic and the output move together.
Indexes ==
    /\ Written = 0 .. WrittenEnd - 1
    /\ written_tasks = IF writer \in {"notify_ready", "notify_queue"}
                         THEN next_write_index + 1 ELSE next_write_index

\* ChunkOwnership said of one chunk at a time.
Partition ==
    /\ WrittenEnd <= total_tasks
    /\ \A c \in Chunks :
         /\ c \in queue => c < total_tasks /\ c >= WrittenEnd /\ c \notin ready
         /\ c \in ready => c < total_tasks /\ c >= WrittenEnd
         /\ \A a \in Actors : c \in held[a] =>
               /\ c < total_tasks /\ c >= WrittenEnd /\ c \notin queue /\ c \notin ready
               /\ \A b \in Actors : c \in held[b] => a = b
         /\ c < total_tasks /\ c >= WrittenEnd /\ c \notin queue /\ c \notin ready
              => \E a \in Actors : c \in held[a]

\* A producer about to read has room for what it will read.
Admitted ==
    producer = "read" =>
        /\ MaxInflightChunks > 0 => total_tasks - written_tasks < MaxInflightChunks
        /\ MaxInflightBytes > 0 => inflight_raw_bytes < MaxInflightBytes

IInv ==
    /\ TypeOK
    /\ Hands
    /\ Indexes
    /\ Partition
    /\ ExactBytes
    /\ InflightBounded
    /\ Admitted

--------------------------------------------------------------------------------
(* The producer preserves the invariant.                                       *)

LEMMA ProducerStep ==
    ASSUME IInv, Producer
    PROVE  IInv'
<1> USE WorkersAssumption, OptionsAssumption
        DEF IInv, Actors, Workers, Chunks, queueVars, readyVars, atomicVars, writerVars
<1>1. CASE ProducerTop
  <2>1. producer' \in ProducerPlaces
    BY <1>1 DEF ProducerTop, ProducerPlaces
  <2>2. TypeOK'
    BY <1>1, <2>1 DEF ProducerTop, TypeOK
  <2>3. Hands' /\ Indexes' /\ Partition' /\ ExactBytes' /\ InflightBounded' /\ Admitted'
    BY <1>1 DEF ProducerTop, Hands, Indexes, Written, WrittenEnd, Partition, ExactBytes,
                InflightBounded, Admitted
  <2> QED BY <2>2, <2>3
<1>2. CASE ProducerGate
  <2>1. producer' \in ProducerPlaces
    BY <1>2 DEF ProducerGate, ProducerPlaces
  <2>2. TypeOK'
    BY <1>2, <2>1 DEF ProducerGate, TypeOK
  <2>3. Admitted'
    BY <1>2 DEF ProducerGate, LimitHit, Minus, Admitted, TypeOK
  <2>4. /\ UNCHANGED <<queue, readyVars, atomicVars, worker, held, writerVars>>
        /\ producer # "push" /\ producer' # "push"
    BY <1>2 DEF ProducerGate
  <2>5. Hands' /\ Indexes' /\ Partition' /\ ExactBytes' /\ InflightBounded'
    BY <2>4 DEF Hands, Indexes, Written, WrittenEnd, Partition, ExactBytes, InflightBounded
  <2> QED BY <2>2, <2>3, <2>5
<1>3. CASE ReadFails
  <2>1. producer' \in ProducerPlaces
    BY <1>3 DEF ReadFails, ProducerPlaces
  <2>2. TypeOK'
    BY <1>3, <2>1 DEF ReadFails, TypeOK
  <2>3. Hands' /\ Indexes' /\ Partition' /\ ExactBytes' /\ InflightBounded' /\ Admitted'
    BY <1>3 DEF ReadFails, Hands, Indexes, Written, WrittenEnd, Partition, ExactBytes,
                InflightBounded, Admitted
  <2> QED BY <2>2, <2>3
<1>4. CASE ReadEof
  <2>1. producer' \in ProducerPlaces
    BY <1>4 DEF ReadEof, ProducerPlaces
  <2>2. TypeOK'
    BY <1>4, <2>1 DEF ReadEof, TypeOK
  <2>3. Hands' /\ Indexes' /\ Partition' /\ ExactBytes' /\ InflightBounded' /\ Admitted'
    BY <1>4 DEF ReadEof, Hands, Indexes, Written, WrittenEnd, Partition, ExactBytes,
                InflightBounded, Admitted
  <2> QED BY <2>2, <2>3
<1>5. CASE ReadChunk
  <2>0. total_tasks \in Chunks /\ RawBytes[{total_tasks}] \in 1 .. ChunkSize
    BY <1>5, BytesAssumption DEF ReadChunk, TypeOK
  <2>1. producer' \in ProducerPlaces
    BY <1>5 DEF ReadChunk, ProducerPlaces
  <2>2. held' \in [Actors -> SUBSET Chunks]
    BY <1>5, <2>0 DEF ReadChunk, TypeOK
  <2>3. TypeOK'
    BY <1>5, <2>0, <2>1, <2>2 DEF ReadChunk, TypeOK
  <2>4. Hands' /\ Indexes'
    BY <1>5, <2>0 DEF ReadChunk, Hands, Indexes, Written, WrittenEnd, TypeOK
  <2>5. Partition'
    BY <1>5, <2>0 DEF ReadChunk, Hands, Partition, WrittenEnd, TypeOK
  <2>6. ExactBytes'
    <3>1. written_tasks <= total_tasks
      BY DEF Indexes, Partition, WrittenEnd, TypeOK
    <3>2. written_tasks .. total_tasks = (written_tasks .. total_tasks - 1) \union {total_tasks}
      BY <3>1 DEF TypeOK
    <3>3. (written_tasks .. total_tasks - 1) \intersect {total_tasks} = {}
      BY DEF TypeOK
    <3>4. /\ (written_tasks .. total_tasks - 1) \in SUBSET Chunks
          /\ {total_tasks} \in SUBSET Chunks
      BY <2>0 DEF TypeOK
    <3>5. RawBytes[written_tasks .. total_tasks]
            = RawBytes[written_tasks .. total_tasks - 1] + RawBytes[{total_tasks}]
      <4>1. Additive(RawBytes, Chunks)
        BY BytesAssumption
      <4>2. RawBytes[(written_tasks .. total_tasks - 1) \union {total_tasks}]
              = RawBytes[written_tasks .. total_tasks - 1] + RawBytes[{total_tasks}]
        <5> DEFINE before == written_tasks .. total_tasks - 1
        <5> HIDE DEF Chunks, before
        <5>1. before \in SUBSET Chunks /\ before \intersect {total_tasks} = {}
          BY <3>3, <3>4 DEF before
        <5>2. RawBytes[before \union {total_tasks}] = RawBytes[before] + RawBytes[{total_tasks}]
          BY <3>4, <4>1, <5>1, BytesOfUnion
        <5> QED BY <5>2 DEF before
      <4> QED BY <3>2, <4>2
    <3>6. total_tasks' - 1 = total_tasks
      BY <1>5 DEF ReadChunk, TypeOK
    <3> QED BY <1>5, <3>5, <3>6 DEF ReadChunk, ExactBytes
  <2>7. InflightBounded' /\ Admitted'
    BY <1>5, <2>0 DEF ReadChunk, InflightBounded, Admitted, TypeOK
  <2> QED BY <2>3, <2>4, <2>5, <2>6, <2>7
<1>6. CASE Push
  <2>1. producer' \in ProducerPlaces
    BY <1>6 DEF Push, ProducerPlaces
  <2>2. held' \in [Actors -> SUBSET Chunks] /\ queue' \subseteq Chunks
    BY <1>6 DEF Push, TypeOK
  <2>3. TypeOK'
    BY <1>6, <2>1, <2>2 DEF Push, TypeOK
  <2>4. Hands' /\ Indexes'
    BY <1>6 DEF Push, Hands, Indexes, Written, WrittenEnd, TypeOK
  <2>5. Partition'
    BY <1>6 DEF Push, Hands, Partition, WrittenEnd, TypeOK
  <2>6. ExactBytes' /\ InflightBounded' /\ Admitted'
    BY <1>6 DEF Push, ExactBytes, InflightBounded, Admitted
  <2> QED BY <2>3, <2>4, <2>5, <2>6
<1> QED
  BY <1>1, <1>2, <1>3, <1>4, <1>5, <1>6 DEF Producer

--------------------------------------------------------------------------------
(* A worker preserves the invariant.                                           *)

\* Taking some of the queued tasks moves them from the queue to the worker.
LEMMA TakeStep ==
    ASSUME IInv, NEW w \in Workers, worker[w] = "pop",
           NEW batch \in SUBSET queue, Take(w, batch),
           UNCHANGED <<closed, readyVars, error, atomicVars, producer, writerVars>>
    PROVE  IInv'
<1> USE WorkersAssumption, OptionsAssumption
        DEF IInv, Actors, Workers, Chunks, readyVars, atomicVars, writerVars, Take
<1>1. worker' \in [Workers -> WorkerPlaces]
  BY DEF TypeOK, WorkerPlaces
<1>2. held' \in [Actors -> SUBSET Chunks] /\ queue' \subseteq Chunks
  BY DEF TypeOK
<1>3. TypeOK'
  BY <1>1, <1>2 DEF TypeOK
<1>4. Hands'
  BY DEF Hands, TypeOK
<1>5. Partition'
  BY DEF Hands, Partition, WrittenEnd, TypeOK
<1>6. Indexes' /\ ExactBytes' /\ InflightBounded' /\ Admitted'
  BY DEF Indexes, Written, WrittenEnd, ExactBytes, InflightBounded, Admitted
<1> QED BY <1>3, <1>4, <1>5, <1>6

\* A worker that leaves, or sleeps, takes nothing along.
LEMMA IdleStep ==
    ASSUME IInv, NEW w \in Workers, Leave(w) \/ SleepOnQueue(w),
           UNCHANGED <<closed, readyVars, error, atomicVars, producer, writerVars>>
    PROVE  IInv'
<1> USE DEF IInv, readyVars, atomicVars, writerVars
<1>1. worker' \in [Workers -> WorkerPlaces] /\ queue_waiters' \subseteq Workers \union {"producer"}
  BY DEF TypeOK, WorkerPlaces, Leave, SleepOnQueue
<1>2. TypeOK'
  BY <1>1 DEF TypeOK, Leave, SleepOnQueue
<1>3. Hands'
  BY DEF Hands, Leave, SleepOnQueue, TypeOK
<1>4. Indexes' /\ Partition' /\ ExactBytes' /\ InflightBounded' /\ Admitted'
  BY DEF Indexes, Partition, Written, WrittenEnd, ExactBytes, InflightBounded, Admitted,
         Leave, SleepOnQueue
<1> QED BY <1>2, <1>3, <1>4

LEMMA WorkerStep ==
    ASSUME IInv, NEW w \in Workers, Worker(w)
    PROVE  IInv'
<1> USE WorkersAssumption, OptionsAssumption
        DEF IInv, Actors, Workers, Chunks, queueVars, readyVars, atomicVars, writerVars
<1>1. CASE WorkerTop(w) \/ Compress(w) \/ CompressFails(w)
  <2>1. worker' \in [Workers -> WorkerPlaces]
    BY <1>1 DEF WorkerTop, Compress, CompressFails, TypeOK, WorkerPlaces
  <2>2. TypeOK'
    BY <1>1, <2>1 DEF WorkerTop, Compress, CompressFails, TypeOK
  <2>3. Hands'
    BY <1>1 DEF WorkerTop, Compress, CompressFails, Hands, TypeOK
  <2>4. Indexes' /\ Partition' /\ ExactBytes' /\ InflightBounded' /\ Admitted'
    BY <1>1 DEF WorkerTop, Compress, CompressFails, Indexes, Partition, Written, WrittenEnd,
                ExactBytes, InflightBounded, Admitted
  <2> QED BY <2>2, <2>3, <2>4
<1>2. CASE ReadyGate(w)
  <2>1. worker' \in [Workers -> WorkerPlaces]
    BY <1>2 DEF ReadyGate, TypeOK, WorkerPlaces
  <2>2. TypeOK'
    BY <1>2, <2>1 DEF ReadyGate, TypeOK
  <2>3. Hands'
    BY <1>2 DEF ReadyGate, Hands, TypeOK
  <2>4. Indexes' /\ Partition' /\ ExactBytes' /\ InflightBounded' /\ Admitted'
    BY <1>2 DEF ReadyGate, Indexes, Partition, Written, WrittenEnd,
                ExactBytes, InflightBounded, Admitted
  <2> QED BY <2>2, <2>3, <2>4
<1>3. CASE CpuPop(w)
  <2>1. Front(queue) \in SUBSET queue
    BY DEF Front
  <2>2. CASE Take(w, Front(queue))
    BY <1>3, <2>1, <2>2, TakeStep DEF CpuPop
  <2>3. CASE Leave(w) \/ SleepOnQueue(w)
    BY <1>3, <2>3, IdleStep DEF CpuPop
  <2> QED BY <1>3, <2>2, <2>3 DEF CpuPop
<1>4. CASE GpuPop(w)
  <2>1. GpuBatch \in SUBSET queue
    BY DEF GpuBatch, Eligible
  <2>2. CASE Take(w, GpuBatch)
    BY <1>4, <2>1, <2>2, TakeStep DEF GpuPop
  <2>3. CASE Leave(w) \/ SleepOnQueue(w)
    BY <1>4, <2>3, IdleStep DEF GpuPop
  <2> QED BY <1>4, <2>2, <2>3 DEF GpuPop
<1>5. CASE Insert(w)
  <2>0. w \in Actors /\ held[w] \in SUBSET Chunks /\ ready \in SUBSET Chunks
    BY DEF TypeOK
  <2>1. held[w] \intersect ready = {} /\ held[w] \ ready = held[w]
    BY <2>0 DEF Partition
  <2>2. CASE NoRoom(w) /\ ~error
    <3>1. UNCHANGED <<queueVars, ready, ready_bytes, error, atomicVars, producer, worker,
                      held, writerVars>>
      BY <1>5, <2>2 DEF Insert
    <3>2. ready_waiters' \subseteq Workers
      BY <1>5, <2>2 DEF Insert, TypeOK
    <3>3. TypeOK'
      BY <3>1, <3>2 DEF TypeOK
    <3>4. Hands' /\ Indexes' /\ Partition' /\ ExactBytes' /\ InflightBounded' /\ Admitted'
      BY <3>1 DEF Hands, Indexes, Partition, Written, WrittenEnd, ExactBytes,
                  InflightBounded, Admitted
    <3> QED BY <3>3, <3>4
  <2>3. CASE ~(NoRoom(w) /\ ~error)
    <3>1. /\ ready' = ready \union held[w]
          /\ ready_bytes' = ready_bytes + CompBytes[held[w]]
          /\ ready_waiters' = {}
          /\ error' = error
          /\ held' = [held EXCEPT ![w] = {}]
          /\ worker' = [worker EXCEPT ![w] = "top"]
          /\ UNCHANGED <<queueVars, atomicVars, producer, writerVars>>
      BY <1>5, <2>1, <2>3 DEF Insert, TypeOK
    <3>2. worker' \in [Workers -> WorkerPlaces]
      BY <3>1 DEF TypeOK, WorkerPlaces
    <3>3. held' \in [Actors -> SUBSET Chunks] /\ ready' \subseteq Chunks
      BY <2>0, <3>1 DEF TypeOK
    <3>4. ready_bytes' \in Nat /\ ready_bytes' = CompBytes[ready']
      <4>1. CompBytes[ready \union held[w]] = CompBytes[ready] + CompBytes[held[w]]
        <5>1. ready \intersect held[w] = {}
          BY <2>1
        <5>2. Additive(CompBytes, Chunks)
          BY BytesAssumption
        <5>3. ready \in SUBSET Chunks /\ held[w] \in SUBSET Chunks
          BY <2>0 DEF TypeOK
        <5> HIDE DEF Chunks
        <5> QED BY <5>1, <5>2, <5>3, BytesOfUnion
      <4>2. CompBytes[ready \union held[w]] \in Nat
        BY <2>0, BytesType, BytesAssumption
      <4> QED BY <3>1, <4>1, <4>2 DEF ExactBytes
    <3>5. TypeOK'
      BY <3>1, <3>2, <3>3, <3>4 DEF TypeOK
    <3>6. Hands'
      BY <3>1 DEF Hands, TypeOK
    <3>7. Partition'
      BY <3>1 DEF Hands, Partition, WrittenEnd, TypeOK
    <3>8. Indexes' /\ ExactBytes' /\ InflightBounded' /\ Admitted'
      BY <3>1, <3>4 DEF Indexes, Written, WrittenEnd, ExactBytes, InflightBounded, Admitted
    <3> QED BY <3>5, <3>6, <3>7, <3>8
  <2> QED BY <2>2, <2>3
<1> QED
  BY <1>1, <1>2, <1>3, <1>4, <1>5 DEF Worker
--------------------------------------------------------------------------------
(* The calling thread preserves the invariant.                                 *)

LEMMA WriterStep ==
    ASSUME IInv, Writer
    PROVE  IInv'
<1> USE WorkersAssumption, OptionsAssumption
        DEF IInv, Actors, Workers, Chunks, queueVars, readyVars, atomicVars, writerVars
<1>1. CASE WriterTop \/ LoadTotal \/ CheckDone \/ WriterWait \/ WriteFails
  <2>1. writer' \in WriterPlaces /\ progressed' \in BOOLEAN /\ total_seen' \in 0 .. NumChunks
    <3>1. writer' \in WriterPlaces
      BY <1>1 DEF WriterTop, LoadTotal, CheckDone, WriterWait, WriteFails, WriterPlaces
    <3>2. progressed' \in {progressed, FALSE} /\ total_seen' \in {total_seen, total_tasks, 0}
      BY <1>1 DEF WriterTop, LoadTotal, CheckDone, WriterWait, WriteFails
    <3>3. progressed' \in BOOLEAN
      BY <3>2, Zenon DEF TypeOK
    <3>4. total_seen' \in 0 .. NumChunks
      BY <3>2 DEF TypeOK
    <3> QED BY <3>1, <3>3, <3>4
  <2>2. /\ UNCHANGED <<queueVars, readyVars, error, atomicVars, producer, worker, held,
                       next_write_index, output, result>>
        /\ WrittenEnd' = WrittenEnd
        /\ writer' \notin {"notify_ready", "notify_queue", "returned"}
        /\ writer \notin {"notify_ready", "notify_queue", "returned", "failed"}
        /\ writer' \in {"load_total", "write", "failed"}
              <=> writer \in {"load_total", "write", "failed"}
    BY <1>1 DEF WriterTop, LoadTotal, CheckDone, WriterWait, WriteFails, WrittenEnd
  <2>3. TypeOK'
    BY <2>1, <2>2 DEF TypeOK
  <2>4. Hands'
    BY <2>2 DEF Hands
  <2>5. Indexes'
    BY <2>2 DEF Indexes, Written
  <2>6. Partition' /\ ExactBytes' /\ InflightBounded' /\ Admitted'
    BY <2>2 DEF Partition, ExactBytes, InflightBounded, Admitted
  <2> QED BY <2>3, <2>4, <2>5, <2>6
<1>2. CASE WriterTake
  <2>1. writer' \in WriterPlaces /\ progressed' \in BOOLEAN
    BY <1>2 DEF WriterTake, WriterPlaces, TypeOK
  <2>2. CASE next_write_index \in ready
    <3>1. /\ ready' = ready \ {next_write_index}
          /\ ready_bytes' = Minus(ready_bytes, CompBytes[{next_write_index}])
          /\ held' = [held EXCEPT !["writer"] = {next_write_index}]
          /\ writer = "take" /\ writer' = "load_total"
          /\ UNCHANGED <<queueVars, ready_waiters, error, atomicVars, producer, worker,
                         next_write_index, total_seen, output, result>>
      BY <1>2, <2>2 DEF WriterTake
    <3>2. next_write_index \in Chunks /\ held' \in [Actors -> SUBSET Chunks]
      BY <2>2, <3>1 DEF TypeOK
    <3>3. ready_bytes' \in Nat /\ ready_bytes' = CompBytes[ready']
      <4>1. /\ CompBytes[ready'] = CompBytes[ready] - CompBytes[{next_write_index}]
            /\ CompBytes[{next_write_index}] <= CompBytes[ready]
        <5>1. Additive(CompBytes, Chunks)
          BY BytesAssumption
        <5>2. ready \in SUBSET Chunks /\ next_write_index \in ready
          BY <2>2 DEF TypeOK
        <5>3. ready' = ready \ {next_write_index}
          BY <3>1
        <5> HIDE DEF Chunks
        <5> QED BY <5>1, <5>2, <5>3, BytesOfRest
      <4>2. CompBytes[ready'] \in Nat
        BY <3>1, BytesType, BytesAssumption DEF TypeOK
      <4> QED BY <3>1, <4>1, <4>2 DEF ExactBytes, Minus
    <3>4. TypeOK'
      BY <2>1, <3>1, <3>2, <3>3 DEF TypeOK
    <3>5. Hands'
      BY <3>1 DEF Hands, TypeOK
    <3>6. Indexes' /\ InflightBounded' /\ Admitted'
      BY <3>1 DEF Indexes, Written, WrittenEnd, InflightBounded, Admitted
    <3>7. Partition'
      <4>1. /\ WrittenEnd' = WrittenEnd /\ UNCHANGED <<queue, total_tasks>>
            /\ held["writer"] = {} /\ held'["writer"] = {next_write_index}
            /\ \A a \in Actors : a # "writer" => held'[a] = held[a]
        BY <3>1 DEF WrittenEnd, Hands, TypeOK
      <4>2. ready' = ready \ {next_write_index} /\ next_write_index \in ready
        BY <2>2, <3>1
      <4>3. next_write_index = WrittenEnd
        BY <3>1 DEF WrittenEnd
      <4>4. ASSUME NEW c \in Chunks, c # next_write_index
            PROVE  (c \in ready' <=> c \in ready)
                   /\ \A a \in Actors : c \in held'[a] <=> c \in held[a]
        BY <4>1, <4>2, <4>4
      <4>5. /\ next_write_index \notin ready' /\ next_write_index \notin queue
            /\ next_write_index < total_tasks
            /\ \A a \in Actors : next_write_index \in held'[a] <=> a = "writer"
        BY <3>2, <4>1, <4>2 DEF Partition
      <4> QED BY <4>1, <4>3, <4>4, <4>5 DEF Partition, TypeOK
    <3>8. ExactBytes'
      BY <3>1, <3>3 DEF ExactBytes
    <3> QED BY <3>4, <3>5, <3>6, <3>7, <3>8
  <2>3. CASE next_write_index \notin ready
    <3>1. UNCHANGED <<queueVars, readyVars, error, atomicVars, producer, worker, held,
                      next_write_index, total_seen, output, result>>
      BY <1>2, <2>3 DEF WriterTake
    <3>2. writer = "take" /\ writer' = "check_total"
      BY <1>2, <2>3 DEF WriterTake
    <3>3. TypeOK'
      BY <2>1, <3>1 DEF TypeOK
    <3>4. Hands' /\ Indexes' /\ Partition' /\ ExactBytes' /\ InflightBounded' /\ Admitted'
      BY <3>1, <3>2 DEF Hands, Indexes, Written, WrittenEnd, Partition, ExactBytes,
                        InflightBounded, Admitted
    <3> QED BY <3>3, <3>4
  <2> QED BY <2>2, <2>3
<1>3. CASE WriteChunk
  <2>1. writer' \in WriterPlaces
    BY <1>3 DEF WriteChunk, WriterPlaces
  <2>2. held["writer"] = {next_write_index} /\ next_write_index \in Chunks
    BY <1>3 DEF WriteChunk, Hands, TypeOK
  <2>3. held' \in [Actors -> SUBSET Chunks]
    BY <1>3 DEF WriteChunk, TypeOK
  <2>4. output' \in Seq([chunk : Chunks \union {EmptyBlock}, final : BOOLEAN])
    BY <1>3, <2>2 DEF WriteChunk, IsFinalChunk, TypeOK
  <2>5. TypeOK'
    BY <1>3, <2>1, <2>3, <2>4 DEF WriteChunk, TypeOK
  <2>6. Hands'
    BY <1>3 DEF WriteChunk, Hands, TypeOK
  <2>7. Written' = Written \union {next_write_index}
    <3>1. /\ output \in Seq([chunk : Chunks \union {EmptyBlock}, final : BOOLEAN])
          /\ output' = Append(output, [chunk |-> next_write_index, final |-> IsFinalChunk])
      BY <1>3 DEF WriteChunk, TypeOK
    <3>2. /\ Len(output') = Len(output) + 1
          /\ \A k \in 1 .. Len(output) : output'[k] = output[k]
          /\ output'[Len(output) + 1].chunk = next_write_index
          /\ Len(output) \in Nat
      BY <3>1
    <3>3. next_write_index # EmptyBlock
      BY <2>2 DEF EmptyBlock
    <3> QED BY <3>2, <3>3 DEF Written
  <2>8. Indexes'
    BY <1>3, <2>2, <2>7 DEF WriteChunk, Indexes, WrittenEnd
  <2>9. Partition'
    BY <1>3, <2>2 DEF WriteChunk, Hands, Partition, WrittenEnd, TypeOK
  <2>10. ExactBytes' /\ InflightBounded' /\ Admitted'
    BY <1>3 DEF WriteChunk, ExactBytes, InflightBounded, Admitted
  <2> QED BY <2>5, <2>6, <2>8, <2>9, <2>10
<1>4. CASE Account
  <2>0. /\ next_write_index \in Chunks /\ written_tasks = next_write_index
        /\ next_write_index < total_tasks
    BY <1>4 DEF Account, Partition, Indexes, WrittenEnd, TypeOK
  <2>1. writer' \in WriterPlaces
    BY <1>4 DEF Account, WriterPlaces
  <2>2. /\ inflight_raw_bytes' \in Nat /\ inflight_raw_bytes' <= inflight_raw_bytes
        /\ inflight_raw_bytes' = RawBytes[written_tasks' .. total_tasks - 1]
    <3> DEFINE inflight == next_write_index .. total_tasks - 1
    <3>1. /\ inflight \in SUBSET Chunks /\ next_write_index \in inflight
          /\ next_write_index + 1 .. total_tasks - 1 = inflight \ {next_write_index}
      BY <2>0 DEF TypeOK
    <3>2. /\ RawBytes[inflight \ {next_write_index}]
                = RawBytes[inflight] - RawBytes[{next_write_index}]
          /\ RawBytes[{next_write_index}] <= RawBytes[inflight]
      BY <3>1, BytesOfRest, BytesAssumption
    <3>3. RawBytes[inflight \ {next_write_index}] \in Nat /\ RawBytes[inflight] \in Nat
          /\ RawBytes[{next_write_index}] \in Nat
      BY <2>0, <3>1, BytesType, BytesAssumption, {next_write_index} \in SUBSET Chunks
    <3>4. inflight_raw_bytes = RawBytes[inflight]
      BY <2>0 DEF ExactBytes
    <3>5. /\ inflight_raw_bytes' = inflight_raw_bytes - RawBytes[{next_write_index}]
          /\ written_tasks' = next_write_index + 1
      BY <1>4 DEF Account
    <3>6. inflight_raw_bytes' = RawBytes[written_tasks' .. total_tasks - 1]
      BY <3>1, <3>2, <3>4, <3>5
    <3>7. inflight_raw_bytes' \in Nat /\ inflight_raw_bytes' <= inflight_raw_bytes
      <4> HIDE DEF inflight
      <4> QED BY <3>2, <3>3, <3>4, <3>5
    <3> QED BY <3>6, <3>7
  <2>3. TypeOK'
    BY <1>4, <2>0, <2>1, <2>2 DEF Account, TypeOK
  <2>4. Hands' /\ Partition'
    BY <1>4 DEF Account, Hands, Partition, WrittenEnd
  <2>5. Indexes'
    BY <1>4 DEF Account, Indexes, Written, WrittenEnd
  <2>6. ExactBytes'
    BY <1>4, <2>2 DEF Account, ExactBytes
  <2>7. InflightBounded' /\ Admitted'
    BY <1>4, <2>0, <2>2 DEF Account, InflightBounded, Admitted, TypeOK
  <2> QED BY <2>3, <2>4, <2>5, <2>6, <2>7
<1>5. CASE NotifyReady
  <2>1. writer' \in WriterPlaces
    BY <1>5 DEF NotifyReady, WriterPlaces
  <2>2. TypeOK'
    BY <1>5, <2>1 DEF NotifyReady, TypeOK
  <2>3. Hands' /\ Indexes' /\ Partition' /\ ExactBytes' /\ InflightBounded' /\ Admitted'
    BY <1>5 DEF NotifyReady, Hands, Indexes, Written, WrittenEnd, Partition, ExactBytes,
                InflightBounded, Admitted
  <2> QED BY <2>2, <2>3
<1>6. CASE NotifyQueue
  <2>0. next_write_index + 1 <= NumChunks
    BY <1>6 DEF NotifyQueue, Partition, WrittenEnd, TypeOK
  <2>1. writer' \in WriterPlaces
    BY <1>6 DEF NotifyQueue, WriterPlaces
  <2>2. TypeOK'
    BY <1>6, <2>0, <2>1 DEF NotifyQueue, TypeOK
  <2>3. Hands' /\ Indexes' /\ Partition' /\ ExactBytes' /\ InflightBounded' /\ Admitted'
    BY <1>6 DEF NotifyQueue, Hands, Indexes, Written, WrittenEnd, Partition, ExactBytes,
                InflightBounded, Admitted
  <2> QED BY <2>2, <2>3
<1>7. CASE CloseQueue \/ JoinProducer
  <2>1. /\ writer' \in WriterPlaces /\ closed' \in BOOLEAN
        /\ queue_waiters' \subseteq Workers \union {"producer"}
        /\ result' \in {"none", "ok", "error"}
    BY <1>7 DEF CloseQueue, JoinProducer, WriterPlaces, TypeOK
  <2>2. /\ UNCHANGED <<queue, readyVars, error, atomicVars, producer, worker, held,
                       next_write_index, total_seen, progressed, output>>
        /\ writer \in {"close", "join_producer", "failed"}
        /\ \/ writer # "failed" /\ writer' \in {"join_producer", "join_workers"}
           \/ writer = "failed" /\ writer' = "returned"
    BY <1>7 DEF CloseQueue, JoinProducer
  <2>3. TypeOK'
    BY <2>1, <2>2 DEF TypeOK
  <2>4. Hands'
    BY <2>2 DEF Hands
  <2>5. Indexes' /\ Partition' /\ ExactBytes' /\ InflightBounded' /\ Admitted'
    BY <2>2 DEF Indexes, Written, WrittenEnd, Partition, ExactBytes, InflightBounded, Admitted
  <2> QED BY <2>3, <2>4, <2>5
<1>8. CASE JoinWorkers
  <2>1. writer' \in WriterPlaces /\ result' \in {"none", "ok", "error"}
    BY <1>8 DEF JoinWorkers, WriterPlaces
  <2>2. \/ output' = output
        \/ output = <<>> /\ output' = << [chunk |-> EmptyBlock, final |-> TRUE] >>
    BY <1>8 DEF JoinWorkers
  <2>3. output' \in Seq([chunk : Chunks \union {EmptyBlock}, final : BOOLEAN])
    <3>1. [chunk |-> EmptyBlock, final |-> TRUE] \in [chunk : Chunks \union {EmptyBlock}, final : BOOLEAN]
      OBVIOUS
    <3>2. << [chunk |-> EmptyBlock, final |-> TRUE] >>
             \in Seq([chunk : Chunks \union {EmptyBlock}, final : BOOLEAN])
      BY <3>1
    <3> QED BY <2>2, <3>2 DEF TypeOK
  <2>4. TypeOK'
    BY <1>8, <2>1, <2>3 DEF JoinWorkers, TypeOK
  <2>5. Written' = Written
    <3>1. CASE output' = output
      BY <3>1 DEF Written
    <3>2. CASE output = <<>> /\ output' = << [chunk |-> EmptyBlock, final |-> TRUE] >>
      <4>1. Written = {}
        BY <3>2 DEF Written
      <4>2. Len(output') = 1 /\ output'[1].chunk = EmptyBlock
        BY <3>2
      <4>3. Written' = {}
        BY <4>2 DEF Written
      <4> QED BY <4>1, <4>3
    <3> QED BY <2>2, <3>1, <3>2
  <2>6. Indexes'
    BY <1>8, <2>5 DEF JoinWorkers, Indexes, WrittenEnd
  <2>7. Hands' /\ Partition' /\ ExactBytes' /\ InflightBounded' /\ Admitted'
    BY <1>8 DEF JoinWorkers, Hands, WrittenEnd, Partition, ExactBytes, InflightBounded, Admitted
  <2> QED BY <2>4, <2>6, <2>7
<1> QED
  BY <1>1, <1>2, <1>3, <1>4, <1>5, <1>6, <1>7, <1>8 DEF Writer

--------------------------------------------------------------------------------
(* The theorems.                                                               *)

LEMMA InitInv ==
    ASSUME Init
    PROVE  IInv
<1> USE WorkersAssumption, OptionsAssumption, BytesAssumption
        DEF Init, Actors, Workers, Chunks
<1>1. TypeOK
  <2>1. /\ producer \in ProducerPlaces /\ worker \in [Workers -> WorkerPlaces]
        /\ writer \in WriterPlaces
    BY DEF ProducerPlaces, WorkerPlaces, WriterPlaces
  <2>2. output \in Seq([chunk : Chunks \union {EmptyBlock}, final : BOOLEAN])
    OBVIOUS
  <2>3. held \in [Actors -> SUBSET Chunks]
    OBVIOUS
  <2>4. closed \in BOOLEAN /\ error \in BOOLEAN /\ progressed \in BOOLEAN
    OBVIOUS
  <2>5. /\ total_tasks \in 0 .. NumChunks /\ written_tasks \in 0 .. NumChunks
        /\ next_write_index \in 0 .. NumChunks /\ total_seen \in 0 .. NumChunks
        /\ ready_bytes \in Nat /\ inflight_raw_bytes \in Nat
    OBVIOUS
  <2>6. /\ queue \subseteq Chunks /\ ready \subseteq Chunks /\ ready_waiters \subseteq Workers
        /\ queue_waiters \subseteq Workers \union {"producer"}
        /\ result \in {"none", "ok", "error"}
    OBVIOUS
  <2> HIDE DEF Init, Workers, Chunks, Actors
  <2> QED BY <2>5, <2>1, <2>2, <2>3, <2>4, <2>6 DEF TypeOK
<1>2. Hands /\ Indexes /\ Partition /\ Admitted
  BY DEF Hands, Indexes, Written, WrittenEnd, Partition, Admitted
<1>3. ExactBytes /\ InflightBounded
  <2>1. 0 .. 0 - 1 = {}
    OBVIOUS
  <2> QED BY <2>1 DEF ExactBytes, InflightBounded, Additive
<1> QED BY <1>1, <1>2, <1>3 DEF IInv

LEMMA StepInv ==
    ASSUME IInv, [Next]_vars
    PROVE  IInv'
<1>1. CASE Producer
  BY <1>1, ProducerStep
<1>2. CASE \E w \in Workers : Worker(w)
  BY <1>2, WorkerStep
<1>3. CASE Writer
  BY <1>3, WriterStep
<1>4. CASE SpuriousWake
  <2>1. /\ UNCHANGED <<queue, closed, ready, ready_bytes, error, atomicVars, producer,
                       worker, held, writerVars>>
        /\ queue_waiters' \subseteq queue_waiters /\ ready_waiters' \subseteq ready_waiters
    BY <1>4 DEF SpuriousWake
  <2>2. TypeOK'
    BY <2>1 DEF IInv, TypeOK, atomicVars, writerVars
  <2>3. Hands' /\ Indexes' /\ Partition' /\ ExactBytes' /\ InflightBounded' /\ Admitted'
    BY <2>1 DEF IInv, atomicVars, writerVars, Hands, Indexes, Written, WrittenEnd, Partition,
                ExactBytes, InflightBounded, Admitted
  <2> QED BY <2>2, <2>3 DEF IInv
<1>5. CASE Returned \/ UNCHANGED vars
  <2>1. UNCHANGED vars
    BY <1>5 DEF Returned
  <2> USE <2>1 DEF vars, queueVars, readyVars, atomicVars, writerVars, IInv
  <2>2. TypeOK'
    BY DEF TypeOK
  <2>3. Hands' /\ Indexes' /\ Partition'
    BY DEF Hands, Indexes, Written, WrittenEnd, Partition
  <2>4. ExactBytes' /\ InflightBounded' /\ Admitted'
    BY DEF ExactBytes, InflightBounded, Admitted
  <2> QED BY <2>2, <2>3, <2>4
<1> QED
  BY <1>1, <1>2, <1>3, <1>4, <1>5 DEF Next

THEOREM Invariance == Spec => []IInv
<1> QED BY InitInv, StepInv, PTL DEF Spec

\* The state always has the types TypeOK gives it; above all, the atomics that
\* are decremented without a check never pass below zero.
THEOREM TypeCorrect == Spec => []TypeOK
<1>1. IInv => TypeOK
  BY DEF IInv
<1> QED BY <1>1, Invariance, PTL

\* Said of one chunk at a time or of the sets, it is the same ownership.
LEMMA PartitionIsOwnership ==
    ASSUME IInv
    PROVE  ChunkOwnership
<1> USE OptionsAssumption DEF IInv, Chunks
<1>1. Written = 0 .. WrittenEnd - 1 /\ WrittenEnd \in Nat /\ WrittenEnd <= total_tasks
  BY DEF Indexes, Partition, WrittenEnd, TypeOK
<1>2. \A c \in Written : c \in Chunks /\ c < WrittenEnd
  BY <1>1 DEF TypeOK
<1>3. \A a \in Actors : held[a] \subseteq Chunks
  BY DEF TypeOK
<1>4. 0 .. total_tasks - 1 = queue \union ready \union Written \union UNION {held[a] : a \in Actors}
  <2>1. ASSUME NEW c \in 0 .. total_tasks - 1
        PROVE  c \in queue \/ c \in ready \/ c \in Written \/ \E a \in Actors : c \in held[a]
    BY <1>1, <2>1 DEF Partition, TypeOK
  <2>2. ASSUME NEW c, c \in queue \/ c \in ready \/ c \in Written \/ \E a \in Actors : c \in held[a]
        PROVE  c \in 0 .. total_tasks - 1
    <3>1. CASE c \in Written
      BY <1>1, <1>2, <3>1 DEF TypeOK
    <3>2. CASE c \in queue \/ c \in ready
      <4>1. c \in Chunks
        BY <3>2 DEF TypeOK
      <4>2. c < total_tasks
        BY <3>2, <4>1 DEF Partition
      <4> QED BY <4>1, <4>2 DEF TypeOK
    <3>3. CASE \E a \in Actors : c \in held[a]
      <4>1. PICK a \in Actors : c \in held[a]
        BY <3>3
      <4>2. c \in Chunks
        BY <1>3, <4>1
      <4> QED BY <4>1, <4>2 DEF Partition, TypeOK
    <3> QED BY <2>2, <3>1, <3>2, <3>3
  <2> QED BY <2>1, <2>2
<1>5. queue \intersect ready = {} /\ Written \intersect (queue \union ready) = {}
  BY <1>1, <1>2 DEF Partition, TypeOK
<1>6. \A a \in Actors : held[a] \intersect (queue \union ready \union Written) = {}
  BY <1>1, <1>2, <1>3 DEF Partition, TypeOK
<1>7. \A a, b \in Actors : a # b => held[a] \intersect held[b] = {}
  BY <1>3 DEF Partition
<1> QED BY <1>4, <1>5, <1>6, <1>7 DEF ChunkOwnership

\* Whatever the interleaving of the threads, and whichever of them fail, every
\* chunk that was read is in exactly one place.
THEOREM Ownership == Spec => []ChunkOwnership
<1> QED BY PartitionIsOwnership, Invariance, PTL

\* The byte counters the threads throttle on are exact.
THEOREM Bytes == Spec => []ExactBytes
<1>1. IInv => ExactBytes
  BY DEF IInv
<1> QED BY <1>1, Invariance, PTL

\* The producer keeps to its limits, in chunks and in bytes.
THEOREM Inflight == Spec => []InflightBounded
<1>1. IInv => InflightBounded
  BY DEF IInv
<1> QED BY <1>1, Invariance, PTL

--------------------------------------------------------------------------------
(* The ready map keeps to its cap.                                             *)

\* A CPU worker compresses one chunk at a time.
OneAtATime ==
    \A w \in CpuWorkers :
        worker[w] # "done" => \A c, d \in held[w] : c = d

LEMMA OneAtATimeStep ==
    ASSUME IInv, OneAtATime, [Next]_vars
    PROVE  OneAtATime'
<1> USE WorkersAssumption
        DEF IInv, Actors, Workers, queueVars, readyVars, atomicVars, writerVars, OneAtATime
<1>1. CASE Producer
  <2>1. \A w \in Workers : held'[w] = held[w] /\ worker'[w] = worker[w]
    BY <1>1 DEF Producer, ProducerTop, ProducerGate, ReadFails, ReadEof, ReadChunk, Push, TypeOK
  <2> QED BY <2>1
<1>2. ASSUME NEW w \in Workers, Worker(w)
      PROVE  OneAtATime'
  <2>1. \A v \in Workers : v # w => held'[v] = held[v] /\ worker'[v] = worker[v]
    BY <1>2 DEF Worker, WorkerTop, ReadyGate, CpuPop, GpuPop, Compress, CompressFails, Insert,
                Take, Leave, SleepOnQueue, TypeOK
  <2>2. CASE held'[w] = held[w] /\ (worker'[w] = "done" \/ worker[w] # "done")
    BY <2>1, <2>2
  <2>3. CASE held'[w] = {}
    BY <2>1, <2>3
  <2>4. CASE CpuPop(w) /\ Take(w, Front(queue))
    <3>1. held'[w] = Front(queue) /\ queue \subseteq Nat
      BY <2>4, OptionsAssumption DEF Take, TypeOK, Chunks
    <3>2. \A c, d \in Front(queue) : c = d
      BY <3>1 DEF Front
    <3> QED BY <2>1, <3>1, <3>2
  <2>5. CASE GpuPop(w) /\ Take(w, GpuBatch)
    BY <2>1, <2>5 DEF GpuPop
  <2>6. CASE WorkerTop(w) \/ ReadyGate(w) \/ Compress(w) \/ CompressFails(w)
    BY <2>2, <2>6 DEF WorkerTop, ReadyGate, Compress, CompressFails, TypeOK
  <2>7. CASE CpuPop(w) \/ GpuPop(w)
    BY <2>2, <2>4, <2>5, <2>7 DEF CpuPop, GpuPop, Leave, SleepOnQueue
  <2>8. CASE Insert(w)
    BY <2>2, <2>3, <2>8 DEF Insert, TypeOK
  <2> QED BY <1>2, <2>6, <2>7, <2>8 DEF Worker
<1>3. CASE Writer
  <2>1. \A w \in Workers : held'[w] = held[w] /\ worker'[w] = worker[w]
    BY <1>3 DEF Writer, WriterTop, WriterTake, LoadTotal, WriteChunk, WriteFails, Account,
                NotifyReady, NotifyQueue, CheckDone, WriterWait, CloseQueue, JoinProducer,
                JoinWorkers, TypeOK
  <2> QED BY <2>1
<1>4. CASE SpuriousWake \/ Returned \/ UNCHANGED vars
  BY <1>4 DEF SpuriousWake, Returned, vars
<1> QED BY <1>1, <1>2, <1>3, <1>4 DEF Next

LEMMA ReadyBoundedStep ==
    ASSUME IInv, OneAtATime, ReadyBounded, [Next]_vars
    PROVE  ReadyBounded'
<1> USE DEF queueVars, readyVars, atomicVars, writerVars
<1>0. ReadyByteCap \in Int
  <2>1. Cardinality(CpuWorkers) \in Nat
    BY WorkersAssumption, FS_CardinalityType
  <2> QED BY <2>1, OptionsAssumption DEF ReadyByteCap
<1>1. CASE error'
  BY <1>1 DEF ReadyBounded
<1>2. CASE UNCHANGED <<ready, ready_bytes>> /\ ~error'
  <2>1. ~error
    BY <1>2 DEF Next, vars, Producer, ProducerTop, ProducerGate, ReadFails, ReadEof, ReadChunk,
                Push, Worker, WorkerTop, ReadyGate, CpuPop, GpuPop, Compress, CompressFails,
                Insert, Writer, WriterTop, WriterTake, LoadTotal, WriteChunk, WriteFails,
                Account, NotifyReady, NotifyQueue, CheckDone, WriterWait, CloseQueue,
                JoinProducer, JoinWorkers, SpuriousWake, Returned
  <2> QED BY <1>2, <2>1 DEF ReadyBounded
<1>3. ASSUME NEW w \in Workers, Insert(w), ~error', ~UNCHANGED <<ready, ready_bytes>>
      PROVE  ReadyBounded'
  <2>0. w \in Actors /\ held[w] \in SUBSET Chunks /\ ready \in SUBSET Chunks /\ ready_bytes \in Nat
    BY DEF IInv, TypeOK, Actors
  <2>1. held[w] \intersect ready = {} /\ held[w] \ ready = held[w]
    BY <2>0 DEF IInv, Partition
  <2>2. /\ ~NoRoom(w)
        /\ ready' = ready \union held[w] /\ ready_bytes' = ready_bytes + CompBytes[held[w]]
    BY <1>3, <2>1 DEF Insert
  <2>3. CompBytes[held[w]] \in Nat
    BY <2>0, BytesType, BytesAssumption
  <2>4. CASE w \in CpuWorkers
    <3>1. ready_bytes < ReadyByteCap
      BY <1>0, <2>0, <2>2, <2>4 DEF NoRoom
    <3>2. CASE held[w] = {}
      <4>1. ready_bytes' = ready_bytes
        BY <2>0, <2>2, <3>2, BytesAssumption DEF Additive
      <4> QED BY <1>0, <2>0, <3>1, <4>1 DEF ReadyBounded
    <3>3. CASE held[w] # {}
      <4>1. PICK c \in held[w] : TRUE
        BY <3>3
      <4>2. worker[w] # "done"
        BY <1>3 DEF Insert
      <4>3. held[w] = {c}
        BY <2>4, <4>1, <4>2 DEF OneAtATime
      <4>4. c \in ready' /\ ready_bytes' < ReadyByteCap + CompBytes[{c}]
        BY <1>0, <2>0, <2>2, <2>3, <3>1, <4>3
      <4> QED BY <4>4 DEF ReadyBounded
    <3> QED BY <3>2, <3>3
  <2>5. CASE w \notin CpuWorkers
    BY <1>0, <2>0, <2>2, <2>3, <2>5 DEF NoRoom, ReadyBounded
  <2> QED BY <2>4, <2>5
<1>4. CASE WriterTake /\ ~error' /\ ~UNCHANGED <<ready, ready_bytes>>
  <2>1. /\ ~error /\ next_write_index \in ready
        /\ ready' = ready \ {next_write_index}
        /\ ready_bytes' = Minus(ready_bytes, CompBytes[{next_write_index}])
    BY <1>4 DEF WriterTake
  <2>2. ready \subseteq Chunks /\ ready_bytes \in Nat /\ ready_bytes = CompBytes[ready]
    BY DEF IInv, TypeOK, ExactBytes
  <2>3. /\ CompBytes[{next_write_index}] \in Nat
        /\ CompBytes[{next_write_index}] <= ready_bytes
    BY <2>1, <2>2, BytesOfRest, BytesType, BytesAssumption, {next_write_index} \in SUBSET Chunks
  <2>4. ready_bytes' = ready_bytes - CompBytes[{next_write_index}]
    BY <2>1, <2>2, <2>3 DEF Minus
  <2>5. CASE ready_bytes <= ReadyByteCap
    BY <1>0, <2>2, <2>3, <2>4, <2>5 DEF ReadyBounded
  <2>6. CASE \E c \in ready : ready_bytes < ReadyByteCap + CompBytes[{c}]
    <3>1. PICK c \in ready : ready_bytes < ReadyByteCap + CompBytes[{c}]
      BY <2>6
    <3>2. CompBytes[{c}] \in Nat
      BY <2>2, BytesType, BytesAssumption, {c} \in SUBSET Chunks
    <3>3. CASE c = next_write_index
      BY <1>0, <2>2, <2>3, <2>4, <3>1, <3>3 DEF ReadyBounded
    <3>4. CASE c # next_write_index
      <4>1. c \in ready' /\ ready_bytes' < ReadyByteCap + CompBytes[{c}]
        BY <1>0, <2>1, <2>2, <2>3, <2>4, <3>1, <3>2, <3>4
      <4> QED BY <4>1 DEF ReadyBounded
    <3> QED BY <3>3, <3>4
  <2> QED BY <2>1, <2>5, <2>6 DEF ReadyBounded
<1>5. \/ UNCHANGED <<ready, ready_bytes>> \/ WriterTake \/ \E w \in Workers : Insert(w)
  BY DEF Next, vars, Producer, ProducerTop, ProducerGate, ReadFails, ReadEof, ReadChunk,
         Push, Worker, WorkerTop, ReadyGate, CpuPop, GpuPop, Compress, CompressFails,
         Writer, WriterTop, LoadTotal, WriteChunk, WriteFails,
         Account, NotifyReady, NotifyQueue, CheckDone, WriterWait, CloseQueue,
         JoinProducer, JoinWorkers, SpuriousWake, Returned
<1> QED BY <1>1, <1>2, <1>3, <1>4, <1>5

\* However many workers finish at once, the ready map passes its cap by less
\* than one chunk, as long as no error has opened the gates.
THEOREM Ready == Spec => []ReadyBounded
<1>1. Init => OneAtATime /\ ReadyBounded
  <2>1. ReadyByteCap \in Int /\ ReadyByteCap >= 0
    <3>1. Cardinality(CpuWorkers) \in Nat
      BY WorkersAssumption, FS_CardinalityType
    <3>2. \A a, b \in Nat : a * b \in Nat
      OBVIOUS
    <3> QED BY <3>1, <3>2, OptionsAssumption DEF ReadyByteCap
  <2> QED BY <2>1 DEF Init, OneAtATime, ReadyBounded, Workers, Actors
<1>2. IInv /\ OneAtATime /\ ReadyBounded /\ [Next]_vars => OneAtATime' /\ ReadyBounded'
  BY OneAtATimeStep, ReadyBoundedStep
<1> QED BY <1>1, <1>2, Invariance, PTL DEF Spec

\* Whoever sleeps with a chunk that finds no room is one of those in flight, and
\* so is all that is in the map.
LEMMA BlockedNeedsWeight ==
    ASSUME IInv
    PROVE  BlockedByWeight
<1> DEFINE inflight == written_tasks .. total_tasks - 1
<1> SUFFICES ASSUME NEW w \in ready_waiters, worker[w] = "insert", NoRoom(w)
             PROVE  CompBytes[inflight] >= ReadyByteCap
  BY DEF BlockedByWeight, HeadBlocked
<1>0. ReadyByteCap \in Int
  <2>1. Cardinality(CpuWorkers) \in Nat
    BY WorkersAssumption, FS_CardinalityType
  <2> QED BY <2>1, OptionsAssumption DEF ReadyByteCap
<1>1. /\ w \in Actors /\ held[w] \in SUBSET Chunks /\ ready \in SUBSET Chunks
      /\ ready_bytes = CompBytes[ready]
  BY DEF IInv, TypeOK, Actors, ExactBytes
<1>2. /\ written_tasks \in Nat /\ total_tasks \in 0 .. NumChunks
      /\ WrittenEnd \in Int /\ written_tasks <= WrittenEnd
  BY OptionsAssumption DEF IInv, TypeOK, Indexes, WrittenEnd
<1>3. inflight \in SUBSET Chunks
  BY <1>2, OptionsAssumption DEF Chunks
<1>4. ready \in SUBSET inflight /\ held[w] \in SUBSET inflight /\ ready \intersect held[w] = {}
  <2>1. \A c \in ready : c \in Int /\ c < total_tasks /\ c >= WrittenEnd
    BY <1>1 DEF IInv, Partition, Chunks
  <2>2. \A c \in held[w] : c \in Int /\ c < total_tasks /\ c >= WrittenEnd /\ c \notin ready
    BY <1>1 DEF IInv, Partition, Chunks
  <2> QED BY <1>2, <2>1, <2>2
<1>5. /\ CompBytes[inflight] \in Nat /\ CompBytes[ready] \in Nat
      /\ CompBytes[ready] <= CompBytes[inflight]
  BY <1>1, <1>3, <1>4, BytesOfPart, BytesType, BytesAssumption
<1>6. CASE w \in CpuWorkers
  BY <1>0, <1>1, <1>5, <1>6 DEF NoRoom
<1>7. CASE w \notin CpuWorkers
  <2>1. CompBytes[ready \union held[w]] = CompBytes[ready] + CompBytes[held[w]]
    <3> DEFINE mine == held[w]
    <3> HIDE DEF mine
    <3>1. mine \in SUBSET Chunks /\ ready \intersect mine = {} /\ ready \in SUBSET Chunks
      BY <1>1, <1>4 DEF mine
    <3>2. Additive(CompBytes, Chunks)
      BY BytesAssumption
    <3>3. CompBytes[ready \union mine] = CompBytes[ready] + CompBytes[mine]
      BY <3>1, <3>2 DEF Additive
    <3> QED BY <3>3 DEF mine
  <2>2. CompBytes[ready \union held[w]] <= CompBytes[inflight]
    BY <1>3, <1>4, ready \union held[w] \in SUBSET inflight, BytesOfPart, BytesAssumption
  <2>3. CompBytes[held[w]] \in Nat
    BY <1>1, BytesType, BytesAssumption
  <2> QED BY <1>0, <1>1, <1>5, <1>7, <2>1, <2>2, <2>3 DEF NoRoom
<1> QED BY <1>6, <1>7

\* Exact counters, both throttles, and what it takes to block the second, in one.
THEOREM ThrottlesHold == Spec => []Throttles
<1>1. ExactBytes /\ InflightBounded /\ ReadyBounded /\ BlockedByWeight => Throttles
  BY DEF Throttles
<1>2. IInv => BlockedByWeight
  BY BlockedNeedsWeight
<1> QED BY <1>1, <1>2, Invariance, Bytes, Inflight, Ready, PTL

--------------------------------------------------------------------------------
(* No wake-up is lost.                                                         *)

\* Where the sleepers are.
Sleepers ==
    /\ \A w \in Workers \intersect queue_waiters : worker[w] = "pop"
    /\ "producer" \in queue_waiters => producer = "gate"
    /\ \A w \in ready_waiters : worker[w] \in {"gate", "insert"}

LEMMA SleepersStep ==
    ASSUME IInv, Sleepers, [Next]_vars
    PROVE  Sleepers'
<1> USE WorkersAssumption DEF Sleepers, Workers, queueVars, readyVars, atomicVars, writerVars
<1>0. worker \in [Workers -> WorkerPlaces] /\ ready_waiters \subseteq Workers
  BY DEF IInv, TypeOK
<1>1. CASE Producer
  BY <1>1 DEF Producer, ProducerTop, ProducerGate, ReadFails, ReadEof, ReadChunk, Push
<1>2. ASSUME NEW w \in Workers, Worker(w)
      PROVE  Sleepers'
  <2>1. CASE WorkerTop(w) \/ Compress(w) \/ CompressFails(w)
    BY <1>0, <2>1 DEF WorkerTop, Compress, CompressFails
  <2>2. CASE ReadyGate(w)
    BY <1>0, <2>2 DEF ReadyGate
  <2>3. CASE CpuPop(w)
    BY <1>0, <2>3 DEF CpuPop, Take, Leave, SleepOnQueue
  <2>4. CASE GpuPop(w)
    BY <1>0, <2>4 DEF GpuPop, Take, Leave, SleepOnQueue
  <2>5. CASE Insert(w)
    BY <1>0, <2>5 DEF Insert
  <2> QED BY <1>2, <2>5, <2>1, <2>2, <2>3, <2>4 DEF Worker
<1>3. CASE Writer
  BY <1>3 DEF Writer, WriterTop, WriterTake, LoadTotal, WriteChunk, WriteFails, Account,
              NotifyReady, NotifyQueue, CheckDone, WriterWait, CloseQueue, JoinProducer,
              JoinWorkers
<1>4. CASE SpuriousWake \/ Returned \/ UNCHANGED vars
  BY <1>4 DEF SpuriousWake, Returned, vars
<1> QED BY <1>1, <1>2, <1>3, <1>4 DEF Next

LEMMA NoLostWakeupStep ==
    ASSUME IInv, Sleepers, NoLostWakeup, [Next]_vars
    PROVE  NoLostWakeup'
<1> USE WorkersAssumption, OptionsAssumption
        DEF Sleepers, NoLostWakeup, Workers, queueVars, readyVars, atomicVars, writerVars
<1>0. /\ worker \in [Workers -> WorkerPlaces] /\ ready_waiters \subseteq Workers
      /\ held \in [Actors -> SUBSET Chunks] /\ Workers \subseteq Actors
      /\ ready_bytes \in Nat
  BY DEF IInv, TypeOK, Actors
<1>1. CASE ProducerTop \/ ReadFails
  BY <1>1 DEF ProducerTop, ReadFails, NoRoom, Eligible, LimitHit
<1>2. CASE ProducerGate
  BY <1>2 DEF ProducerGate, NoRoom, Eligible, LimitHit
<1>3. CASE ReadEof
  BY <1>3 DEF ReadEof, NoRoom
<1>4. CASE ReadChunk
  <2>1. /\ UNCHANGED <<queueVars, readyVars, error, written_tasks, worker, writerVars>>
        /\ \A w \in Workers : held'[w] = held[w]
        /\ "producer" \notin queue_waiters
    BY <1>0, <1>4 DEF ReadChunk
  <2> QED BY <1>0, <2>1 DEF NoRoom, Eligible
<1>5. CASE Push
  <2>1. /\ UNCHANGED <<readyVars, error, atomicVars, worker, writerVars>>
        /\ \A w \in Workers : held'[w] = held[w]
        /\ queue_waiters' = {}
    BY <1>0, <1>5 DEF Push
  <2> QED BY <1>0, <2>1 DEF NoRoom
<1>6. ASSUME NEW w \in Workers, WorkerTop(w) \/ Compress(w) \/ CompressFails(w)
      PROVE  NoLostWakeup'
  <2>1. /\ UNCHANGED <<queueVars, readyVars, atomicVars, held, writerVars>>
        /\ \A v \in Workers : v # w => worker'[v] = worker[v]
        /\ w \notin ready_waiters
    BY <1>0, <1>6 DEF WorkerTop, Compress, CompressFails
  <2> QED BY <1>0, <2>1 DEF NoRoom, Eligible, LimitHit
<1>7. ASSUME NEW w \in Workers, ReadyGate(w)
      PROVE  NoLostWakeup'
  <2>1. /\ UNCHANGED <<queueVars, ready_bytes, atomicVars, held, writerVars>>
        /\ \A v \in Workers : v # w => worker'[v] = worker[v]
        /\ ready_waiters' \subseteq ready_waiters \union {w}
        /\ w \in ready_waiters' => worker'[w] = "gate" /\ ready_bytes >= ReadyByteCap
    BY <1>0, <1>7 DEF ReadyGate
  <2> QED BY <1>0, <2>1 DEF NoRoom, Eligible, LimitHit
<1>8. ASSUME NEW w \in Workers, CpuPop(w) \/ GpuPop(w)
      PROVE  NoLostWakeup'
  <2>1. /\ UNCHANGED <<closed, readyVars, error, atomicVars, producer, writerVars>>
        /\ \A v \in Workers : v # w => worker'[v] = worker[v] /\ held'[v] = held[v]
        /\ w \notin ready_waiters /\ w \notin queue_waiters
        /\ queue' \subseteq queue
    BY <1>0, <1>8 DEF CpuPop, GpuPop, Take, Leave, SleepOnQueue
  <2>2. \/ queue_waiters' = queue_waiters
        \/ /\ queue_waiters' = queue_waiters \union {w} /\ queue' = queue /\ ~closed
           /\ w \in CpuWorkers => queue = {}
           /\ w \in GpuWorkers => Eligible = {}
    BY <1>8 DEF CpuPop, GpuPop, Take, Leave, SleepOnQueue
  <2>3. Eligible' \subseteq Eligible
    BY <2>1 DEF Eligible
  <2>4. LimitHit' = LimitHit
    BY <2>1 DEF LimitHit
  <2>5. \A v \in ready_waiters : NoRoom(v)' = NoRoom(v) /\ worker'[v] = worker[v]
    BY <1>0, <2>1 DEF NoRoom
  <2> QED BY <1>0, <2>1, <2>2, <2>3, <2>4, <2>5
<1>9. ASSUME NEW w \in Workers, Insert(w)
      PROVE  NoLostWakeup'
  <2>0. held[w] \intersect ready = {}
    BY <1>0 DEF IInv, Partition, TypeOK
  <2>1. UNCHANGED <<queueVars, atomicVars, producer, writerVars>>
    BY <1>9 DEF Insert
  <2>2. \/ ready_waiters' = {}
        \/ /\ ready_waiters' = ready_waiters \union {w} /\ NoRoom(w) /\ worker[w] = "insert"
           /\ UNCHANGED <<ready_bytes, worker, held>>
    BY <1>9, <2>0 DEF Insert
  <2>3. Eligible' = Eligible /\ LimitHit' = LimitHit
    BY <2>1 DEF Eligible, LimitHit
  <2> QED BY <1>0, <2>1, <2>2, <2>3 DEF NoRoom
<1>10. CASE WriterTake
  <2>1. UNCHANGED <<queueVars, ready_waiters, error, atomicVars, producer, worker>>
    BY <1>10 DEF WriterTake
  <2>2. \/ writer' = "load_total"
        \/ UNCHANGED <<ready_bytes, held>> /\ writer' = "check_total"
    BY <1>10 DEF WriterTake
  <2>3. writer = "take"
    BY <1>10 DEF WriterTake
  <2> QED BY <1>0, <2>1, <2>2, <2>3 DEF NoRoom, Eligible, LimitHit
<1>11. CASE WriteChunk
  <2>1. /\ UNCHANGED <<queueVars, readyVars, error, atomicVars, producer, worker>>
        /\ writer = "write" /\ writer' = "account"
    BY <1>11 DEF WriteChunk
  <2> QED BY <2>1 DEF Eligible, LimitHit
<1>12. CASE WriterTop \/ LoadTotal \/ WriteFails \/ CheckDone \/ WriterWait \/ JoinWorkers
  <2>1. /\ UNCHANGED <<queueVars, readyVars, error, atomicVars, producer, worker, held>>
        /\ writer \notin {"notify_ready", "notify_queue", "account", "failed", "returned"}
        /\ writer \in {"load_total", "write"} => writer' \in {"write", "failed"}
    BY <1>12 DEF WriterTop, LoadTotal, WriteFails, CheckDone, WriterWait, JoinWorkers
  <2> QED BY <1>0, <2>1 DEF NoRoom, Eligible, LimitHit
<1>13. CASE Account
  <2>1. /\ UNCHANGED <<queueVars, readyVars, producer, worker>>
        /\ writer' = "notify_ready"
    BY <1>13 DEF Account
  <2> QED BY <2>1 DEF Eligible
<1>14. CASE NotifyReady
  <2>1. /\ UNCHANGED <<queueVars, producer>> /\ ready_waiters' = {}
        /\ writer' = "notify_queue"
    BY <1>14 DEF NotifyReady
  <2> QED BY <2>1 DEF Eligible
<1>15. CASE NotifyQueue
  <2>1. /\ UNCHANGED <<readyVars, worker, held>> /\ queue_waiters' = {}
        /\ writer = "notify_queue"
    BY <1>15 DEF NotifyQueue
  <2> QED BY <1>0, <2>1 DEF NoRoom
<1>16. CASE CloseQueue
  <2>1. /\ UNCHANGED <<readyVars, worker, held>> /\ queue_waiters' = {}
        /\ writer = "close"
    BY <1>16 DEF CloseQueue
  <2> QED BY <1>0, <2>1 DEF NoRoom
<1>17. CASE JoinProducer
  <2>1. /\ UNCHANGED <<queue, readyVars, atomicVars, worker, held>>
        /\ \/ writer = "join_producer" /\ queue_waiters' = {}
           \/ writer' = "returned" /\ UNCHANGED <<closed, queue_waiters>> /\ writer = "failed"
    BY <1>17 DEF JoinProducer
  <2> QED BY <1>0, <2>1 DEF NoRoom, Eligible, LimitHit
<1>18. CASE SpuriousWake
  <2>1. /\ UNCHANGED <<queue, closed, ready_bytes, atomicVars, worker, held, writer>>
        /\ queue_waiters' \subseteq queue_waiters /\ ready_waiters' \subseteq ready_waiters
    BY <1>18 DEF SpuriousWake
  <2> QED BY <1>0, <2>1 DEF NoRoom, Eligible, LimitHit
<1>19. CASE Returned \/ UNCHANGED vars
  BY <1>19 DEF Returned, vars, NoRoom, Eligible, LimitHit
<1> QED
  BY <1>1, <1>2, <1>3, <1>4, <1>5, <1>6, <1>7, <1>8, <1>9, <1>10, <1>11, <1>12, <1>13, <1>14,
     <1>15, <1>16, <1>17, <1>18, <1>19 DEF Next, Producer, Worker, Writer

\* A thread never sleeps through the event it waits for: it is asleep because
\* its condition still holds, or a notify_all for it is on its way.
THEOREM Wakeups == Spec => []NoLostWakeup
<1>1. Init => Sleepers /\ NoLostWakeup
  BY DEF Init, Sleepers, NoLostWakeup
<1>2. IInv /\ Sleepers /\ NoLostWakeup /\ [Next]_vars => Sleepers' /\ NoLostWakeup'
  BY SleepersStep, NoLostWakeupStep
<1> QED BY <1>1, <1>2, Invariance, PTL DEF Spec

--------------------------------------------------------------------------------
(* How the call ends.                                                          *)

\* Who may have closed the queue, and what has been done by whoever is done.
Ends ==
    /\ closed /\ writer \notin {"join_producer", "join_workers", "returned"} =>
          total_tasks = NumChunks /\ producer = "done"
    /\ writer = "close" => error \/ closed
    /\ writer \in {"join_producer", "join_workers"} =>
          error \/ (closed /\ total_tasks = NumChunks /\ producer = "done")
    /\ writer \in {"join_workers", "returned"} => producer = "done"
    /\ result = "none" <=> writer # "returned"
    /\ result = "ok" => /\ ~error /\ closed /\ total_tasks = NumChunks
                        /\ \A w \in Workers : worker[w] = "done"
                        /\ held["writer"] = {}
    /\ ~error => \A w \in Workers : worker[w] = "done" => held[w] = {}
    /\ ~error => \A w \in CpuWorkers : worker[w] = "done" => closed /\ queue = {}

\* Where the output ends, and what the writer knows when it decides on BFINAL.
Blocks ==
    /\ writer # "returned" => Len(output) = WrittenEnd
    /\ writer = "write" => next_write_index + 1 <= total_seen /\ total_seen <= total_tasks

LEMMA EndsOfProducer ==
    ASSUME IInv, Ends, Producer
    PROVE  Ends'
<1> USE WorkersAssumption, OptionsAssumption
        DEF IInv, Ends, Workers, Actors, queueVars, readyVars, atomicVars, writerVars
<1>1. CASE ProducerTop \/ ProducerGate \/ ReadFails
  BY <1>1 DEF ProducerTop, ProducerGate, ReadFails
<1>2. CASE ReadEof
  BY <1>2 DEF ReadEof
<1>3. CASE ReadChunk \/ Push
  <2>1. /\ UNCHANGED <<closed, readyVars, error, worker, writerVars>>
        /\ producer # "done"
        /\ \A a \in Actors : a # "producer" => held'[a] = held[a]
    BY <1>3 DEF ReadChunk, Push, TypeOK
  <2>2. ~(closed /\ ~error)
    BY <2>1 DEF WriterPlaces, TypeOK
  <2>3. writer \notin {"join_workers", "returned"} /\ result = "none"
    BY <2>1
  <2> QED BY <2>1, <2>2, <2>3
<1> QED BY <1>1, <1>2, <1>3 DEF Producer

LEMMA EndsOfWorker ==
    ASSUME IInv, Ends, NEW w \in Workers, Worker(w)
    PROVE  Ends'
<1> USE WorkersAssumption, OptionsAssumption
        DEF IInv, Ends, Workers, Actors, queueVars, readyVars, atomicVars, writerVars
<1>0. worker[w] # "done" /\ result # "ok"
  BY DEF Worker, WorkerTop, ReadyGate, CpuPop, GpuPop, Compress, CompressFails, Insert
<1>1. /\ UNCHANGED <<closed, atomicVars, producer, writerVars>>
      /\ \A v \in Workers : v # w => worker'[v] = worker[v] /\ held'[v] = held[v]
      /\ held'["writer"] = held["writer"]
      /\ error => error'
      /\ queue' \subseteq queue
  BY DEF Worker, WorkerTop, ReadyGate, CpuPop, GpuPop, Compress, CompressFails, Insert,
         Take, Leave, SleepOnQueue, TypeOK
<1>2. ~error' /\ worker'[w] = "done" =>
         /\ held'[w] = {}
         /\ w \in CpuWorkers => closed /\ queue' = {}
  <2>1. CASE CpuPop(w)
    BY <2>1 DEF CpuPop, Take, Leave, SleepOnQueue, Hands, TypeOK
  <2>2. CASE GpuPop(w)
    BY <2>2 DEF GpuPop, Take, Leave, SleepOnQueue, Hands, TypeOK
  <2>3. CASE Insert(w)
    BY <2>3 DEF Insert, TypeOK
  <2>4. CASE WorkerTop(w) \/ ReadyGate(w) \/ Compress(w) \/ CompressFails(w)
    BY <2>4 DEF WorkerTop, ReadyGate, Compress, CompressFails, TypeOK
  <2> QED BY <2>1, <2>2, <2>3, <2>4 DEF Worker
<1> QED BY <1>0, <1>1, <1>2

LEMMA EndsOfWriter ==
    ASSUME IInv, Ends, Writer
    PROVE  Ends'
<1> USE WorkersAssumption, OptionsAssumption
        DEF IInv, Ends, Workers, Actors, queueVars, readyVars, atomicVars, writerVars
<1>1. CASE WriterTop \/ LoadTotal \/ WriteFails \/ CheckDone \/ WriterWait
  BY <1>1 DEF WriterTop, LoadTotal, WriteFails, CheckDone, WriterWait
<1>2. CASE WriterTake \/ WriteChunk
  <2>1. /\ UNCHANGED <<queueVars, error, atomicVars, producer, worker, result>>
        /\ \A w \in Workers : held'[w] = held[w]
        /\ writer \in {"take", "write"} /\ writer' \in {"load_total", "check_total", "account"}
    BY <1>2 DEF WriterTake, WriteChunk, TypeOK
  <2> QED BY <2>1
<1>3. CASE Account \/ NotifyReady \/ NotifyQueue
  BY <1>3 DEF Account, NotifyReady, NotifyQueue
<1>4. CASE CloseQueue
  BY <1>4 DEF CloseQueue
<1>5. CASE JoinProducer
  BY <1>5 DEF JoinProducer
<1>6. CASE JoinWorkers
  BY <1>6 DEF JoinWorkers, AllJoined, Hands
<1> QED BY <1>1, <1>2, <1>3, <1>4, <1>5, <1>6 DEF Writer

LEMMA EndsStep ==
    ASSUME IInv, Ends, [Next]_vars
    PROVE  Ends'
<1>1. CASE SpuriousWake \/ Returned \/ UNCHANGED vars
  BY <1>1 DEF SpuriousWake, Returned, vars, Ends, queueVars, readyVars, atomicVars, writerVars
<1> QED BY <1>1, EndsOfProducer, EndsOfWorker, EndsOfWriter DEF Next

LEMMA InitEnds == Init => Ends
BY DEF Init, Ends, Workers, Actors

THEOREM EndsInvariance == Spec => []Ends
<1> QED BY InitEnds, EndsStep, Invariance, PTL DEF Spec

\* A successful call leaves nothing in the queue and in the threads' hands: by
\* Ownership, what it did not write is in the ready map.
THEOREM Drained == Spec => []OkMeansDrained
<1>1. IInv /\ Ends => OkMeansDrained
  <2> SUFFICES ASSUME IInv, Ends, result = "ok"
               PROVE  /\ total_tasks = NumChunks
                      /\ queue = {}
                      /\ \A a \in Actors : held[a] = {}
    BY DEF OkMeansDrained
  <2>1. PICK w \in CpuWorkers : TRUE
    BY WorkersAssumption
  <2>2. queue = {} /\ total_tasks = NumChunks
    BY <2>1 DEF Ends, Workers
  <2>3. held["producer"] = {}
    BY DEF IInv, Hands, Ends
  <2> QED BY <2>2, <2>3 DEF Ends, Actors
<1> QED BY <1>1, Invariance, EndsInvariance, PTL

--------------------------------------------------------------------------------
(* The compressor implements the ordered, bounded pipe.                        *)

LEMMA PipeStep ==
    ASSUME IInv, Ends, [Next]_vars
    PROVE  [Pipe!Next]_(Pipe!vars)
<1> USE OptionsAssumption DEF IInv, queueVars, readyVars, atomicVars, writerVars, Pipe!vars
<1>1. CASE ReadChunk
  <2>1. result = "none"
    BY <1>1 DEF ReadChunk, Ends
  <2>2. MaxInflightChunks > 0 => total_tasks - written_tasks < MaxInflightChunks
    BY <1>1 DEF ReadChunk, Admitted
  <2> QED BY <1>1, <2>1, <2>2 DEF ReadChunk, Pipe!Accept, Pipe!Next
<1>2. CASE Account
  <2>1. result = "none"
    BY <1>2 DEF Account, Ends
  <2>2. written_tasks = next_write_index /\ next_write_index < total_tasks
    BY <1>2 DEF Account, Indexes, Partition, WrittenEnd, TypeOK
  <2>3. written_tasks' = written_tasks + 1 /\ UNCHANGED <<total_tasks, result>>
    BY <1>2, <2>2 DEF Account
  <2> QED BY <2>1, <2>2, <2>3 DEF Pipe!Emit, Pipe!Next
<1>3. CASE JoinProducer \/ JoinWorkers
  <2>1. UNCHANGED <<total_tasks, written_tasks>>
    BY <1>3 DEF JoinProducer, JoinWorkers
  <2>2. \/ result' = result
        \/ result = "none" /\ result' = "error"
        \/ result = "none" /\ result' = "ok" /\ total_tasks = NumChunks
    BY <1>3 DEF JoinProducer, JoinWorkers, Ends
  <2> QED BY <2>1, <2>2 DEF Pipe!ReturnOk, Pipe!ReturnError, Pipe!Next
<1>4. CASE ~(ReadChunk \/ Account \/ JoinProducer \/ JoinWorkers)
  <2>1. UNCHANGED <<total_tasks, written_tasks, result>>
    BY <1>4 DEF Next, vars, Producer, ProducerTop, ProducerGate, ReadFails, ReadEof, Push,
                Worker, WorkerTop, ReadyGate, CpuPop, GpuPop, Compress, CompressFails, Insert,
                Writer, WriterTop, WriterTake, LoadTotal, WriteChunk, WriteFails, NotifyReady,
                NotifyQueue, CheckDone, WriterWait, CloseQueue, SpuriousWake, Returned
  <2> QED BY <2>1
<1> QED BY <1>1, <1>2, <1>3, <1>4

\* Behind its threads, its batches and its throttles, the compressor accepts
\* chunks in order within its window and emits them in the same order.
THEOREM Refinement == Spec => PipeSpec
<1>1. Init => Pipe!Init
  BY DEF Init, Pipe!Init
<1> QED BY <1>1, PipeStep, Invariance, EndsInvariance, PTL DEF Spec, PipeSpec, Pipe!Spec

--------------------------------------------------------------------------------
(* The final bit.                                                              *)

LEMMA BlocksStep ==
    ASSUME IInv, Ends, Blocks, [Next]_vars
    PROVE  Blocks'
<1> USE OptionsAssumption
        DEF IInv, Blocks, WrittenEnd, queueVars, readyVars, atomicVars, writerVars
<1>1. CASE Producer
  BY <1>1 DEF Producer, ProducerTop, ProducerGate, ReadFails, ReadEof, ReadChunk, Push, TypeOK
<1>2. ASSUME NEW w \in Workers, Worker(w)
      PROVE  Blocks'
  BY <1>2 DEF Worker, WorkerTop, ReadyGate, CpuPop, GpuPop, Compress, CompressFails, Insert
<1>3. CASE LoadTotal
  <2>1. writer = "load_total" => next_write_index < total_tasks
    BY DEF Hands, Partition, Actors, TypeOK
  <2> QED BY <1>3, <2>1 DEF LoadTotal, TypeOK
<1>4. CASE WriteChunk
  <2>1. Len(output') = Len(output) + 1
    BY <1>4 DEF WriteChunk, TypeOK
  <2> QED BY <1>4, <2>1 DEF WriteChunk
<1>5. CASE WriterTop \/ WriterTake \/ WriteFails \/ Account \/ NotifyReady \/ NotifyQueue
           \/ CheckDone \/ WriterWait \/ CloseQueue \/ JoinProducer \/ JoinWorkers
  BY <1>5 DEF WriterTop, WriterTake, WriteFails, Account, NotifyReady, NotifyQueue, CheckDone,
              WriterWait, CloseQueue, JoinProducer, JoinWorkers, TypeOK
<1>6. CASE SpuriousWake \/ Returned \/ UNCHANGED vars
  BY <1>6 DEF SpuriousWake, Returned, vars
<1> QED BY <1>1, <1>2, <1>3, <1>4, <1>5, <1>6 DEF Next, Writer

LEMMA FinalIsStickyStep ==
    ASSUME IInv, Ends, Blocks, FinalIsSticky, [Next]_vars
    PROVE  FinalIsSticky'
<1> USE OptionsAssumption
        DEF IInv, queueVars, readyVars, atomicVars, writerVars
<1>0. /\ output \in Seq([chunk : Chunks \union {EmptyBlock}, final : BOOLEAN])
      /\ Len(output) \in Nat /\ total_tasks \in 0 .. NumChunks /\ total_seen \in 0 .. NumChunks
      /\ next_write_index \in Nat
  BY DEF TypeOK
<1>1. /\ total_tasks' \in 0 .. NumChunks /\ total_tasks <= total_tasks'
      /\ closed => closed'
  <2>1. TypeOK'
    BY StepInv
  <2>2. total_tasks' = total_tasks \/ total_tasks' = total_tasks + 1
    BY DEF Next, vars, Producer, ProducerTop, ProducerGate, ReadFails, ReadEof, ReadChunk, Push,
           Worker, WorkerTop, ReadyGate, CpuPop, GpuPop, Compress, CompressFails, Insert,
           Writer, WriterTop, WriterTake, LoadTotal, WriteChunk, WriteFails, Account,
           NotifyReady, NotifyQueue, CheckDone, WriterWait, CloseQueue, JoinProducer,
           JoinWorkers, SpuriousWake, Returned
  <2>3. closed => closed'
    BY DEF Next, vars, Producer, ProducerTop, ProducerGate, ReadFails, ReadEof, ReadChunk, Push,
           Worker, WorkerTop, ReadyGate, CpuPop, GpuPop, Compress, CompressFails, Insert,
           Writer, WriterTop, WriterTake, LoadTotal, WriteChunk, WriteFails, Account,
           NotifyReady, NotifyQueue, CheckDone, WriterWait, CloseQueue, JoinProducer,
           JoinWorkers, SpuriousWake, Returned
  <2> QED BY <1>0, <2>1, <2>2, <2>3 DEF TypeOK
<1>2. CASE output' = output
  BY <1>0, <1>1, <1>2 DEF FinalIsSticky
<1>3. CASE WriteChunk
  <2> DEFINE n == Len(output) + 1
  <2>1. /\ Len(output') = n /\ \A k \in 1 .. Len(output) : output'[k] = output[k]
        /\ output'[n].final = IsFinalChunk /\ UNCHANGED <<closed, total_tasks>>
    BY <1>0, <1>3 DEF WriteChunk
  <2>2. n = next_write_index + 1 /\ n <= total_seen
    BY <1>0, <1>3 DEF WriteChunk, Blocks, WrittenEnd
  <2>3. closed => total_tasks = NumChunks
    BY <1>3 DEF WriteChunk, Ends
  <2>4. closed /\ n = NumChunks => output'[n].final
    <3>1. closed /\ n = NumChunks => next_write_index + 1 = total_seen
      BY <1>0, <2>2
    <3>2. closed /\ n = NumChunks => IsFinalChunk
      BY <3>1 DEF IsFinalChunk
    <3> HIDE DEF n
    <3> QED BY <2>1, <3>2, Zenon
  <2>5. output'[n].final => closed
    BY <2>1 DEF IsFinalChunk
  <2> HIDE DEF n
  <2>6. ASSUME NEW k \in 1 .. n, output'[k].final
        PROVE  closed /\ total_tasks = NumChunks
    <3>1. CASE k = n
      BY <2>3, <2>5, <2>6, <3>1
    <3>2. CASE k \in 1 .. Len(output)
      BY <2>1, <2>6, <3>2 DEF FinalIsSticky
    <3> QED BY <1>0, <3>1, <3>2 DEF n
  <2> QED BY <2>1, <2>4, <2>6 DEF FinalIsSticky
<1>4. CASE JoinWorkers /\ output' # output
  <2>1. /\ output' = << [chunk |-> EmptyBlock, final |-> TRUE] >>
        /\ ~error /\ writer = "join_workers" /\ UNCHANGED <<closed, total_tasks>>
    BY <1>4 DEF JoinWorkers
  <2>2. closed /\ total_tasks = NumChunks
    BY <2>1 DEF Ends
  <2>3. Len(output') = 1 /\ output'[1].final
    BY <2>1
  <2> QED BY <2>1, <2>2, <2>3 DEF FinalIsSticky
<1>5. output' = output \/ WriteChunk \/ JoinWorkers
  BY DEF Next, vars, Producer, ProducerTop, ProducerGate, ReadFails, ReadEof, ReadChunk, Push,
         Worker, WorkerTop, ReadyGate, CpuPop, GpuPop, Compress, CompressFails, Insert,
         Writer, WriterTop, WriterTake, LoadTotal, WriteFails, Account,
         NotifyReady, NotifyQueue, CheckDone, WriterWait, CloseQueue, JoinProducer,
         SpuriousWake, Returned
<1> QED BY <1>2, <1>3, <1>4, <1>5

\* A block only carries BFINAL once the whole input has been read; and if the
\* last chunk is written after such a block, it carries BFINAL as well.
THEOREM FinalBit == Spec => []FinalIsSticky
<1>1. Init => Blocks /\ FinalIsSticky
  BY DEF Init, Blocks, WrittenEnd, FinalIsSticky
<1>2. IInv /\ Ends /\ Blocks /\ FinalIsSticky /\ [Next]_vars => Blocks' /\ FinalIsSticky'
  BY BlocksStep, FinalIsStickyStep
<1> QED BY <1>1, <1>2, Invariance, EndsInvariance, PTL DEF Spec

================================================================================

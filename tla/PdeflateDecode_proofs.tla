-------------------------- MODULE PdeflateDecode_proofs --------------------------
(* Proofs about PdeflateDecode, for every number of workers, every stream,     *)
(* both scheduler policies and every set of failures.                          *)
EXTENDS PdeflateDecode, ChunkBytes_proofs, TLAPS

--------------------------------------------------------------------------------
(* The inductive invariant.                                                    *)

\* What the threads but the writer hold, by the place where they are.  A worker
\* that failed keeps what it had.
Hands ==
    /\ producer # "push" => held["producer"] = {}
    /\ producer = "push" => held["producer"] = {produced_count} /\ produced_count < NumChunks
    /\ \A w \in Workers : worker[w] \in {"top", "pop"} => held[w] = {}

\* The output is the first chunks, in order; next_write_index is the local index
\* of the writer, and one ahead of it from TakeResult to Write.
Frames ==
    /\ Len(output) = next_index
    /\ \A k \in 1 .. Len(output) : output[k] = k - 1
    /\ \/ held["writer"] = {} /\ next_write_index = next_index
       \/ held["writer"] = {next_index} /\ next_write_index = next_index + 1
    /\ writer \in {"next", "last_check", "return_ok"} => held["writer"] = {}
    /\ writer = "write" => held["writer"] = {next_index}

\* From next_write_index to the last chunk produced, each chunk is queued, or in
\* a result slot, or in the hands of one worker.
Partition ==
    /\ next_write_index <= produced_count
    /\ \A c \in Chunks :
         /\ c \in Queued => c < produced_count /\ c >= next_write_index /\ c \notin results
         /\ c \in results => c < produced_count /\ c >= next_write_index
         /\ \A w \in Workers : c \in held[w] =>
               /\ c < produced_count /\ c >= next_write_index /\ c \notin Queued
               /\ c \notin results
               /\ \A v \in Workers : c \in held[v] => v = w
         /\ c < produced_count /\ c >= next_write_index /\ c \notin Queued /\ c \notin results
              => \E w \in Workers : c \in held[w]

IInv ==
    /\ TypeOK
    /\ Hands
    /\ Frames
    /\ Partition

\* How the end of the stream and the errors travel to the result.
Ends ==
    /\ \A c \in Final : c < produced_count => c + 1 = produced_count /\ producer = "done"
    /\ producer_eof =>
          /\ producer = "done" /\ produced_count = NumChunks
          /\ NumChunks = 0 \/ NumChunks - 1 \in Final
    /\ err_slot => err_flag
    /\ err_flag /\ writer \notin {"return_error", "returned"} => err_slot
    /\ writer = "check_error" /\ held["writer"] = {} => AllTaken \/ err_slot
    /\ writer \in {"last_check", "return_ok"} \/ result = "ok" => AllTaken
    /\ result # "none" <=> writer = "returned"
    /\ writer = "returned" => AllJoined

\* What one worker may hold, and what the throttle guards.
Share(w) == IF w \in CpuWorkers THEN ChunkSize ELSE GpuBatchLimit * ChunkSize

Throttle ==
    /\ buffered_result_bytes = DecodedBytes[results]
    /\ \A w \in Workers : DecodedBytes[held[w]] <= Share(w)
    /\ DecodedBytes[(results \union InWork) \ {next_write_index}] < ResultLimit + Capacity

--------------------------------------------------------------------------------
(* The producer preserves the invariant.                                       *)

LEMMA ProducerStep ==
    ASSUME IInv, Producer
    PROVE  IInv'
<1> USE WorkersAssumption, OptionsAssumption
        DEF IInv, Actors, queueVars, inputVars, resultVars, errVars, writerVars
<1>0. "producer" \in Actors /\ "producer" \notin Workers /\ produced_count \in 0 .. NumChunks
  BY DEF TypeOK
<1>1. CASE ReadFails \/ StreamEnds \/ StopAfterError("producer")
  <2>1. /\ UNCHANGED <<queueVars, call, produced_count, resultVars, worker, held, writerVars>>
        /\ producer # "push" /\ producer' \in {"fail", "done"}
    BY <1>0, <1>1 DEF ReadFails, StreamEnds, StopAfterError
  <2>2. producer' \in ProducerPlaces
    BY <2>1 DEF ProducerPlaces
  <2>3. /\ waiters' \subseteq Workers \union {"writer"}
        /\ stopped' \in BOOLEAN /\ err_slot' \in BOOLEAN /\ err_flag' \in BOOLEAN
        /\ producer_eof' \in BOOLEAN
    BY <1>0, <1>1 DEF ReadFails, StreamEnds, EndIsLegal, StopAfterError, RecordError, TypeOK
  <2>4. TypeOK'
    BY <2>1, <2>2, <2>3 DEF TypeOK
  <2>5. Hands' /\ Frames' /\ Partition'
    BY <2>1 DEF Hands, Frames, Partition, Queued
  <2> QED BY <2>4, <2>5
<1>2. CASE ReadFrame
  <2>1. /\ UNCHANGED <<queueVars, inputVars, stopped, resultVars, waiters, errVars, worker,
                       writerVars>>
        /\ held' = [held EXCEPT !["producer"] = {produced_count}]
        /\ producer' = "push" /\ produced_count < NumChunks
    BY <1>2 DEF ReadFrame
  <2>2. /\ held'["producer"] = {produced_count}
        /\ \A a \in Actors : a # "producer" => held'[a] = held[a]
    BY <2>1 DEF TypeOK
  <2>3. produced_count \in Chunks
    BY <1>0, <2>1 DEF Chunks
  <2>4. producer' \in ProducerPlaces /\ held' \in [Actors -> SUBSET Chunks]
    BY <2>1, <2>3 DEF ProducerPlaces, TypeOK
  <2>5. TypeOK'
    BY <2>1, <2>4 DEF TypeOK
  <2>6. Hands' /\ Frames' /\ Partition'
    BY <2>1, <2>2 DEF Hands, Frames, Partition, Queued
  <2> QED BY <2>5, <2>6
<1>3. CASE Push
  <2> DEFINE c == produced_count
  <2>1. /\ held["producer"] = {c} /\ c < NumChunks
        /\ PushBack(c)
        /\ produced_count' = c + 1
        /\ held' = [held EXCEPT !["producer"] = {}]
        /\ producer' \in {"read", "done"} /\ waiters' = {}
        /\ UNCHANGED <<call, resultVars, worker, writerVars>>
    BY <1>3 DEF Push, Hands
  <2>2. c \in Chunks /\ c \in Nat
    BY <1>0, <2>1 DEF Chunks
  <2>3. Queued' = Queued \union {c}
    BY <2>1 DEF PushBack, Queued
  <2>4. /\ queue' \subseteq Chunks /\ cpu_queue' \subseteq Chunks /\ gpu_queue' \subseteq Chunks
    BY <2>1, <2>2 DEF PushBack, TypeOK
  <2>5. /\ stopped' \in BOOLEAN /\ err_slot' \in BOOLEAN /\ err_flag' \in BOOLEAN
        /\ producer_eof' \in BOOLEAN
    BY <1>3 DEF Push, RecordError, TypeOK
  <2>6. /\ producer' \in ProducerPlaces /\ held' \in [Actors -> SUBSET Chunks]
        /\ produced_count' \in 0 .. NumChunks
    BY <1>0, <2>1 DEF ProducerPlaces, TypeOK
  <2>7. TypeOK'
    BY <2>1, <2>4, <2>5, <2>6 DEF TypeOK
  <2>8. /\ held'["producer"] = {}
        /\ \A a \in Actors : a # "producer" => held'[a] = held[a]
    BY <2>1 DEF TypeOK
  <2>9. Hands' /\ Frames'
    BY <2>1, <2>8 DEF Hands, Frames
  <2>10. Partition'
    <3>1. next_write_index <= c /\ next_write_index \in Nat
      BY DEF Partition, TypeOK
    <3>2. \A w \in Workers : held'[w] = held[w]
      BY <2>8
    <3>3. c \notin results /\ c \notin Queued /\ \A w \in Workers : c \notin held[w]
      BY <2>2 DEF Partition
    <3>4. results' = results /\ next_write_index' = next_write_index
      BY <2>1
    <3>5. c = produced_count
      OBVIOUS
    <3> HIDE DEF c
    <3>6. ASSUME NEW d \in Chunks
          PROVE  /\ d \in Queued' => d < produced_count' /\ d >= next_write_index'
                                     /\ d \notin results'
                 /\ d \in results' => d < produced_count' /\ d >= next_write_index'
                 /\ \A w \in Workers : d \in held'[w] =>
                       /\ d < produced_count' /\ d >= next_write_index' /\ d \notin Queued'
                       /\ d \notin results'
                       /\ \A v \in Workers : d \in held'[v] => v = w
                 /\ d < produced_count' /\ d >= next_write_index' /\ d \notin Queued'
                       /\ d \notin results' => \E w \in Workers : d \in held'[w]
      <4>1. d \in Nat
        BY DEF Chunks
      <4>2. CASE d = c
        BY <2>1, <2>2, <2>3, <3>1, <3>2, <3>3, <3>4, <4>2
      <4>3. CASE d # c
        <5>1. d < c + 1 <=> d < c
          BY <2>2, <4>1, <4>3
        <5>2. d < produced_count' <=> d < produced_count
          BY <2>1, <3>5, <5>1
        <5>3. d \in Queued' <=> d \in Queued
          BY <2>3, <4>3
        <5> QED BY <3>2, <3>4, <5>2, <5>3 DEF Partition
      <4> QED BY <4>2, <4>3
    <3>7. next_write_index' <= produced_count'
      BY <2>1, <2>2, <3>1, <3>4
    <3> QED BY <3>6, <3>7 DEF Partition
  <2> QED BY <2>7, <2>9, <2>10
<1> QED
  BY <1>1, <1>2, <1>3 DEF Producer

--------------------------------------------------------------------------------
(* A worker preserves the invariant.                                           *)

\* What a worker takes comes from its own queue.
LEMMA BatchIsQueued ==
    ASSUME NEW w \in Workers
    PROVE  Batch(w) \subseteq Suitable(w) /\ Suitable(w) \subseteq QueueOf(w)
           /\ QueueOf(w) \subseteq Queued
BY DEF Batch, HeadOf, FirstOf, Suitable, QueueOf, Queued

LEMMA WorkerStep ==
    ASSUME IInv, NEW w \in Workers, Worker(w)
    PROVE  IInv'
<1> USE WorkersAssumption, OptionsAssumption
        DEF IInv, Actors, queueVars, inputVars, resultVars, errVars, writerVars
<1>0. w \in Actors /\ w # "producer" /\ w # "writer"
  OBVIOUS
<1>1. CASE \/ WorkerTop(w) \/ PopNothing(w) \/ Decode(w) \/ DecodeFails(w) \/ FallbackFails(w)
           \/ StopAfterError(w)
  <2>1. /\ UNCHANGED <<queueVars, inputVars, resultVars, producer, held, writerVars>>
        /\ \A v \in Workers : v # w => worker'[v] = worker[v]
        /\ worker'[w] \in {"done", "pop", "insert", "fail", worker[w]}
        /\ worker'[w] = "pop" => worker[w] \in {"top", "pop"}
    BY <1>0, <1>1 DEF WorkerTop, PopNothing, Decode, DecodeFails, FallbackFails, StopAfterError,
                      TypeOK
  <2>2. worker' \in [Workers -> WorkerPlaces]
    BY <1>0, <1>1 DEF WorkerTop, PopNothing, Decode, DecodeFails, FallbackFails, StopAfterError,
                      TypeOK, WorkerPlaces
  <2>3. waiters' \subseteq Workers \union {"writer"}
    BY <1>0, <1>1 DEF WorkerTop, PopNothing, Decode, DecodeFails, FallbackFails, StopAfterError,
                      TypeOK
  <2>4. stopped' \in BOOLEAN /\ err_slot' \in BOOLEAN /\ err_flag' \in BOOLEAN
    BY <1>1 DEF WorkerTop, PopNothing, Decode, DecodeFails, FallbackFails, StopAfterError,
                RecordError, TypeOK
  <2>5. TypeOK'
    BY <2>1, <2>2, <2>3, <2>4 DEF TypeOK
  <2>6. Hands'
    BY <2>1 DEF Hands, TypeOK
  <2>7. Frames' /\ Partition'
    BY <2>1 DEF Frames, Partition, Queued
  <2> QED BY <2>5, <2>6, <2>7
<1>2. CASE Pop(w)
  <2> DEFINE batch == Batch(w)
  <2>1. batch \subseteq Queued
    BY BatchIsQueued
  <2>2. /\ queue' = queue \ batch /\ cpu_queue' = cpu_queue \ batch
        /\ gpu_queue' = gpu_queue \ batch
        /\ held' = [held EXCEPT ![w] = batch]
        /\ worker[w] = "pop" /\ worker' = [worker EXCEPT ![w] = "decode"]
        /\ UNCHANGED <<inputVars, stopped, resultVars, waiters, errVars, producer, writerVars>>
    BY <1>2 DEF Pop, Remove
  <2> HIDE DEF batch
  <2>3. Queued' = Queued \ batch
    BY <2>2 DEF Queued
  <2>4. Queued \subseteq Chunks
    BY DEF Queued, TypeOK
  <2>5. /\ held'[w] = batch
        /\ \A a \in Actors : a # w => held'[a] = held[a]
        /\ worker'[w] = "decode"
        /\ \A v \in Workers : v # w => worker'[v] = worker[v]
        /\ held[w] = {}
    BY <1>0, <2>2 DEF TypeOK, Hands
  <2>6. /\ worker' \in [Workers -> WorkerPlaces]
        /\ held' \in [Actors -> SUBSET Chunks]
    BY <2>1, <2>2, <2>4 DEF TypeOK, WorkerPlaces
  <2>7. /\ queue' \subseteq Chunks /\ cpu_queue' \subseteq Chunks /\ gpu_queue' \subseteq Chunks
    BY <2>2 DEF TypeOK
  <2>8. TypeOK'
    BY <2>2, <2>6, <2>7 DEF TypeOK
  <2>9. Hands'
    BY <1>0, <2>2, <2>5 DEF Hands
  <2>10. Frames'
    BY <1>0, <2>2, <2>5 DEF Frames
  <2>11. Partition'
    <3>1. ASSUME NEW c \in Chunks
          PROVE  /\ c \in Queued' => c < produced_count' /\ c >= next_write_index'
                                     /\ c \notin results'
                 /\ c \in results' => c < produced_count' /\ c >= next_write_index'
                 /\ \A u \in Workers : c \in held'[u] =>
                       /\ c < produced_count' /\ c >= next_write_index' /\ c \notin Queued'
                       /\ c \notin results'
                       /\ \A v \in Workers : c \in held'[v] => v = u
                 /\ c < produced_count' /\ c >= next_write_index' /\ c \notin Queued'
                       /\ c \notin results' => \E u \in Workers : c \in held'[u]
      BY <2>1, <2>2, <2>3, <2>5 DEF Partition
    <3> QED BY <2>2, <3>1 DEF Partition
  <2> QED BY <2>8, <2>9, <2>10, <2>11
<1>3. CASE Insert(w)
  <2>1. /\ results' = results \union held[w] /\ waiters' = {}
        /\ buffered_result_bytes' = buffered_result_bytes + DecodedBytes[held[w]]
        /\ held' = [held EXCEPT ![w] = {}] /\ worker' = [worker EXCEPT ![w] = "top"]
        /\ UNCHANGED <<queueVars, inputVars, stopped, next_write_index, errVars, producer,
                       writerVars>>
    BY <1>3 DEF Insert
  <2>2. held[w] \in SUBSET Chunks
    BY <1>0 DEF TypeOK
  <2>3. buffered_result_bytes' \in Nat
    BY <2>1, <2>2, BytesAssumption, BytesType DEF TypeOK
  <2>4. /\ worker' \in [Workers -> WorkerPlaces]
        /\ held' \in [Actors -> SUBSET Chunks] /\ results' \subseteq Chunks
    BY <1>0, <2>1, <2>2 DEF TypeOK, WorkerPlaces
  <2>5. TypeOK'
    BY <2>1, <2>3, <2>4 DEF TypeOK
  <2>6. /\ held'[w] = {} /\ \A a \in Actors : a # w => held'[a] = held[a]
        /\ \A v \in Workers : v # w => worker'[v] = worker[v]
    BY <1>0, <2>1 DEF TypeOK
  <2>7. Hands' /\ Frames'
    BY <1>0, <2>1, <2>6 DEF Hands, Frames
  <2>8. Partition'
    <3>1. Queued' = Queued
      BY <2>1 DEF Queued
    <3>2. ASSUME NEW c \in Chunks
          PROVE  /\ c \in Queued' => c < produced_count' /\ c >= next_write_index'
                                     /\ c \notin results'
                 /\ c \in results' => c < produced_count' /\ c >= next_write_index'
                 /\ \A u \in Workers : c \in held'[u] =>
                       /\ c < produced_count' /\ c >= next_write_index' /\ c \notin Queued'
                       /\ c \notin results'
                       /\ \A v \in Workers : c \in held'[v] => v = u
                 /\ c < produced_count' /\ c >= next_write_index' /\ c \notin Queued'
                       /\ c \notin results' => \E u \in Workers : c \in held'[u]
      BY <2>1, <2>6, <3>1 DEF Partition
    <3> QED BY <2>1, <3>2 DEF Partition
  <2> QED BY <2>5, <2>7, <2>8
<1> QED
  BY <1>1, <1>2, <1>3 DEF Worker

--------------------------------------------------------------------------------
(* The calling thread preserves the invariant.                                 *)

LEMMA WriterStep ==
    ASSUME IInv, Writer
    PROVE  IInv'
<1> USE WorkersAssumption, OptionsAssumption
        DEF IInv, Actors, queueVars, inputVars, resultVars, errVars, writerVars
<1>0. /\ "writer" \in Actors /\ "writer" \notin Workers /\ "writer" # "producer"
      /\ next_index \in 0 .. NumChunks /\ produced_count \in 0 .. NumChunks
      /\ next_write_index \in 0 .. NumChunks /\ Len(output) \in Nat
  BY DEF TypeOK
<1>1. CASE SeeError \/ SeeEnd \/ WriterSleep \/ CheckError \/ WriteFails \/ Join
  <2>1. UNCHANGED <<queueVars, inputVars, resultVars, producer, worker, held, next_index, output>>
    BY <1>1 DEF SeeError, SeeEnd, WriterSleep, CheckError, WriteFails, Join
  <2>2. writer' \in WriterPlaces
    BY <1>1 DEF SeeError, SeeEnd, WriterSleep, CheckError, WriteFails, Join, WriterPlaces, TypeOK
  <2>3. waiters' \subseteq Workers \union {"writer"}
    BY <1>1 DEF SeeError, SeeEnd, WriterSleep, CheckError, WriteFails, Join, TypeOK
  <2>4. stopped' \in BOOLEAN /\ err_slot' \in BOOLEAN /\ err_flag' \in BOOLEAN
        /\ result' \in {"none", "ok", "error"}
    BY <1>1 DEF SeeError, SeeEnd, WriterSleep, CheckError, WriteFails, Join, TypeOK
  <2>5. TypeOK'
    BY <2>1, <2>2, <2>3, <2>4 DEF TypeOK
  <2>6. /\ writer' \in {"next", "last_check", "return_ok"} => held["writer"] = {}
        /\ writer' = "write" => held["writer"] = {next_index}
    <3>1. held["writer"] \in {{}, {next_index}}
      BY DEF Frames
    <3>2. CASE SeeError \/ SeeEnd \/ WriterSleep
      BY <3>2 DEF Frames, SeeError, SeeEnd, WriterSleep
    <3>3. CASE CheckError
      BY <3>1, <3>3 DEF Frames, CheckError
    <3>4. CASE WriteFails \/ Join
      BY <3>4 DEF WriteFails, Join
    <3> QED BY <1>1, <3>2, <3>3, <3>4
  <2>7. Frames'
    BY <2>1, <2>6 DEF Frames
  <2>8. Hands' /\ Partition'
    BY <2>1 DEF Hands, Partition, Queued
  <2> QED BY <2>5, <2>7, <2>8
<1>2. CASE TakeResult
  <2>1. /\ results' = results \ {next_index} /\ next_index \in results
        /\ buffered_result_bytes' = BufferedAfterTake
        /\ next_write_index' = next_index + 1
        /\ held' = [held EXCEPT !["writer"] = {next_index}]
        /\ writer = "next" /\ writer' = "check_error" /\ waiters' = {}
        /\ UNCHANGED <<queueVars, inputVars, stopped, errVars, producer, worker, next_index,
                       output, result>>
    BY <1>2 DEF TakeResult
  <2>2. next_index \in Chunks /\ next_index + 1 \in 0 .. NumChunks
    BY <2>1 DEF TypeOK, Chunks
  <2>3. buffered_result_bytes' \in Nat
    <3>1. {next_index} \in SUBSET Chunks
      BY <2>2
    <3>2. DecodedBytes[{next_index}] \in Nat
      BY <3>1, BytesAssumption, BytesType
    <3> QED BY <2>1, <3>2 DEF BufferedAfterTake, Minus, TypeOK
  <2>4. held' \in [Actors -> SUBSET Chunks] /\ results' \subseteq Chunks
        /\ writer' \in WriterPlaces
    BY <2>1, <2>2 DEF TypeOK, WriterPlaces
  <2>5. TypeOK'
    BY <2>1, <2>2, <2>3, <2>4 DEF TypeOK
  <2>6. /\ held'["writer"] = {next_index}
        /\ held'["producer"] = held["producer"]
        /\ \A v \in Workers : held'[v] = held[v]
        /\ next_write_index = next_index
    BY <1>0, <2>1 DEF TypeOK, Frames
  <2>7. Hands' /\ Frames'
    BY <1>0, <2>1, <2>6 DEF Hands, Frames
  <2>8. Partition'
    <3>1. Queued' = Queued /\ produced_count' = produced_count
      BY <2>1 DEF Queued
    <3>2. next_index < produced_count /\ next_index \notin Queued
          /\ \A v \in Workers : next_index \notin held[v]
      BY <2>1, <2>2 DEF Partition
    <3>3. ASSUME NEW c \in Chunks
          PROVE  /\ c \in Queued' => c < produced_count' /\ c >= next_write_index'
                                     /\ c \notin results'
                 /\ c \in results' => c < produced_count' /\ c >= next_write_index'
                 /\ \A v \in Workers : c \in held'[v] =>
                       /\ c < produced_count' /\ c >= next_write_index' /\ c \notin Queued'
                       /\ c \notin results'
                       /\ \A u \in Workers : c \in held'[u] => u = v
                 /\ c < produced_count' /\ c >= next_write_index' /\ c \notin Queued'
                       /\ c \notin results' => \E v \in Workers : c \in held'[v]
      <4>1. c \in Nat
        BY DEF Chunks
      <4>2. CASE c = next_index
        <5>1. ~(c >= next_write_index') /\ c \notin results'
          BY <1>0, <2>1, <4>2
        <5> QED BY <2>6, <3>1, <3>2, <4>2, <5>1
      <4>3. CASE c # next_index
        <5>1. c \in results' <=> c \in results
          BY <2>1, <4>3
        <5>2. c >= next_write_index' <=> c >= next_write_index
          BY <1>0, <2>1, <2>6, <4>1, <4>3
        <5> QED BY <2>6, <3>1, <5>1, <5>2 DEF Partition
      <4> QED BY <4>2, <4>3
    <3>4. next_write_index' <= produced_count'
      BY <1>0, <2>1, <3>1, <3>2
    <3> QED BY <3>3, <3>4 DEF Partition
  <2> QED BY <2>5, <2>7, <2>8
<1>3. CASE Write
  <2>1. /\ output' = Append(output, next_index) /\ next_index' = next_index + 1
        /\ held' = [held EXCEPT !["writer"] = {}]
        /\ writer = "write" /\ writer' = "next"
        /\ UNCHANGED <<queueVars, inputVars, stopped, resultVars, waiters, errVars, producer,
                       worker, result>>
    BY <1>3 DEF Write
  <2>2. next_write_index = next_index + 1 /\ Len(output) = next_index
    BY <2>1 DEF Frames
  <2>3. next_index \in Chunks /\ next_index' \in 0 .. NumChunks
    BY <1>0, <2>1, <2>2 DEF Chunks
  <2>4. output \in Seq(Chunks)
    BY DEF TypeOK
  <2>5. /\ output' \in Seq(Chunks) /\ Len(output') = next_index'
        /\ \A k \in 1 .. Len(output') : output'[k] = k - 1
    <3>1. output' \in Seq(Chunks) /\ Len(output') = Len(output) + 1
      BY <2>1, <2>3, <2>4
    <3>2. ASSUME NEW k \in 1 .. Len(output) + 1
          PROVE  output'[k] = k - 1
      <4>1. CASE k \in 1 .. Len(output)
        BY <2>1, <2>4, <4>1 DEF Frames
      <4>2. CASE k = Len(output) + 1
        BY <1>0, <2>1, <2>2, <2>4, <4>2
      <4> QED BY <1>0, <4>1, <4>2
    <3> QED BY <2>1, <2>2, <3>1, <3>2
  <2>6. held' \in [Actors -> SUBSET Chunks] /\ writer' \in WriterPlaces
    BY <2>1 DEF TypeOK, WriterPlaces
  <2>7. TypeOK'
    BY <2>1, <2>3, <2>5, <2>6 DEF TypeOK
  <2>8. /\ held'["writer"] = {} /\ held'["producer"] = held["producer"]
        /\ \A v \in Workers : held'[v] = held[v]
    BY <1>0, <2>1 DEF TypeOK
  <2>9. Hands'
    BY <2>1, <2>8 DEF Hands
  <2>10. Frames'
    BY <2>1, <2>2, <2>5, <2>8 DEF Frames
  <2>11. Partition'
    BY <2>1, <2>8 DEF Partition, Queued
  <2> QED BY <2>7, <2>9, <2>10, <2>11
<1> QED
  BY <1>1, <1>2, <1>3 DEF Writer

--------------------------------------------------------------------------------
(* The invariant, and what follows from it.                                    *)

LEMMA InitInv == Init => IInv
<1> SUFFICES ASSUME Init PROVE IInv
  OBVIOUS
<1> USE WorkersAssumption, OptionsAssumption DEF Init
<1>1. Queued = {}
  BY DEF Queued
<1>2. worker \in [Workers -> WorkerPlaces] /\ producer \in ProducerPlaces /\ writer \in WriterPlaces
  BY DEF WorkerPlaces, ProducerPlaces, WriterPlaces
<1>3. output \in Seq(Chunks) /\ Len(output) = 0
  OBVIOUS
<1>4. held \in [Actors -> SUBSET Chunks] /\ produced_count \in 0 .. NumChunks
       /\ next_index \in 0 .. NumChunks /\ next_write_index \in 0 .. NumChunks
  OBVIOUS
<1>5. TypeOK
  BY <1>2, <1>3, <1>4 DEF TypeOK
<1>6. \A a \in Actors : held[a] = {}
  OBVIOUS
<1>7. "producer" \in Actors /\ "writer" \in Actors /\ Workers \subseteq Actors
  BY DEF Actors
<1>8. Hands /\ Frames
  BY <1>3, <1>6, <1>7 DEF Hands, Frames
<1>9. Partition
  BY <1>1, <1>6, <1>7 DEF Partition, Chunks
<1> QED BY <1>5, <1>8, <1>9 DEF IInv

LEMMA StepInv == ASSUME IInv, [Next]_vars PROVE IInv'
<1>1. CASE SpuriousWake
  <2>1. /\ waiters' \subseteq waiters
        /\ UNCHANGED <<queueVars, inputVars, stopped, resultVars, errVars, producer, worker, held,
                       writerVars>>
    BY <1>1 DEF SpuriousWake
  <2> QED BY <2>1 DEF IInv, TypeOK, Hands, Frames, Partition, Queued,
                      queueVars, inputVars, resultVars, errVars, writerVars
<1>2. CASE Returned \/ UNCHANGED vars
  <2>1. UNCHANGED <<queueVars, inputVars, stopped, resultVars, waiters, errVars, producer, worker,
                    held, writerVars>>
    BY <1>2 DEF Returned, vars
  <2>2. TypeOK'
    BY <2>1 DEF IInv, TypeOK, queueVars, inputVars, resultVars, errVars, writerVars
  <2>3. Hands' /\ Frames' /\ Partition'
    BY <2>1 DEF IInv, Hands, Frames, Partition, Queued,
                queueVars, inputVars, resultVars, errVars, writerVars
  <2> QED BY <2>2, <2>3 DEF IInv
<1> QED BY <1>1, <1>2, ProducerStep, WorkerStep, WriterStep DEF Next

LEMMA Invariance == Spec => []IInv
<1> QED BY InitInv, StepInv, PTL DEF Spec

\* The types are right in every state of every run, whatever fails.
THEOREM TypeCorrect == Spec => []TypeOK
<1>1. IInv => TypeOK
  BY DEF IInv
<1> QED BY <1>1, Invariance, PTL

LEMMA WrittenIsPrefix ==
    ASSUME TypeOK, Frames
    PROVE  Written = 0 .. next_index - 1
<1>1. Len(output) \in Nat /\ Len(output) = next_index
  BY DEF TypeOK, Frames
<1>2. \A k \in 1 .. Len(output) : output[k] = k - 1
  BY DEF Frames
<1>3. ASSUME NEW c \in 0 .. Len(output) - 1
      PROVE  c \in Written
  <2>1. c + 1 \in 1 .. Len(output) /\ output[c + 1] = c
    BY <1>1, <1>2
  <2> QED BY <2>1 DEF Written
<1>4. Written \subseteq 0 .. Len(output) - 1
  BY <1>1, <1>2 DEF Written
<1> QED BY <1>1, <1>3, <1>4

\* No chunk that was read from the stream is lost, doubled or shared, whichever
\* worker takes how many of them and whatever fails.
THEOREM Ownership == Spec => []ChunkOwnership
<1>1. IInv => ChunkOwnership
  <2> SUFFICES ASSUME IInv PROVE ChunkOwnership
    OBVIOUS
  <2> USE WorkersAssumption, OptionsAssumption DEF IInv, Actors
  <2> DEFINE n == next_write_index
  <2>1. /\ next_index \in Nat /\ produced_count \in 0 .. NumChunks
        /\ n \in Nat /\ n <= produced_count
    BY DEF TypeOK, Partition
  <2>2. Written = 0 .. next_index - 1
    BY WrittenIsPrefix
  <2>3. /\ Written \union held["writer"] = 0 .. n - 1
        /\ held["writer"] \intersect Written = {}
    BY <2>1, <2>2 DEF Frames
  <2>4. /\ Queued \subseteq Chunks /\ results \subseteq Chunks
        /\ \A w \in Workers : held[w] \subseteq Chunks
    BY DEF TypeOK, Queued
  <2>5. /\ \A c \in Queued : c \in n .. produced_count - 1 /\ c \notin results
        /\ \A c \in results : c \in n .. produced_count - 1
        /\ \A w \in Workers : \A c \in held[w] :
              c \in n .. produced_count - 1 /\ c \notin Queued /\ c \notin results
        /\ \A v, w \in Workers : v # w => held[v] \intersect held[w] = {}
    BY <2>1, <2>4 DEF Partition, Chunks
  <2>6. \A c \in n .. produced_count - 1 :
           c \in Queued \/ c \in results \/ \E w \in Workers : c \in held[w]
    BY <2>1 DEF Partition, Chunks
  <2>7. held["producer"] \subseteq {produced_count}
    BY DEF Hands
  <2>8. UNION {held[a] : a \in Actors} =
           (UNION {held[w] : w \in Workers}) \union held["producer"] \union held["writer"]
    OBVIOUS
  <2> DEFINE inHands == UNION {held[w] : w \in Workers}
  <2>9. \A c : c \in inHands <=> \E w \in Workers : c \in held[w]
    OBVIOUS
  <2> HIDE DEF inHands
  <2>10. Queued \union results \union inHands = n .. produced_count - 1
    BY <2>5, <2>6, <2>9
  <2>11. (0 .. n - 1) \union (n .. produced_count - 1) = 0 .. produced_count - 1
    BY <2>1
  <2>12. (0 .. produced_count - 1) \union held["producer"] =
          Queued \union results \union Written \union UNION {held[a] : a \in Actors}
    BY <2>3, <2>8, <2>10, <2>11 DEF inHands
  <2>13. (0 .. n - 1) \intersect (n .. produced_count - 1) = {}
    BY <2>1
  <2>14. /\ Queued \intersect (results \union Written) = {}
         /\ results \intersect Written = {}
         /\ \A w \in Workers : held[w] \intersect (Queued \union results \union Written) = {}
         /\ \A w \in Workers : held[w] \intersect held["writer"] = {}
         /\ held["writer"] \intersect (Queued \union results \union Written) = {}
    BY <2>3, <2>5, <2>13
  <2>15. produced_count \notin 0 .. n - 1 /\ produced_count \notin n .. produced_count - 1
    BY <2>1
  <2>16. /\ held["producer"] \intersect (Queued \union results \union Written) = {}
         /\ held["producer"] \intersect held["writer"] = {}
         /\ \A w \in Workers : held["producer"] \intersect held[w] = {}
    BY <2>3, <2>5, <2>7, <2>15
  <2> QED BY <2>3, <2>5, <2>12, <2>14, <2>16 DEF ChunkOwnership
<1> QED BY <1>1, Invariance, PTL

--------------------------------------------------------------------------------
(* The end of the stream, and the errors.                                      *)

LEMMA EndsOfProducer ==
    ASSUME IInv, Ends, Producer
    PROVE  Ends'
<1> USE WorkersAssumption
        DEF IInv, Ends, AllTaken, queueVars, inputVars, resultVars, errVars, writerVars
<1>1. producer # "done" /\ ~producer_eof /\ writer # "returned" /\ ~AllTaken
  BY DEF Producer, ReadFails, StreamEnds, ReadFrame, Push, StopAfterError, AllJoined
<1>2. /\ UNCHANGED <<call, writer, next_index, result>> /\ held'["writer"] = held["writer"]
      /\ \A c \in Final : ~(c < produced_count)
  BY <1>1 DEF Producer, ReadFails, StreamEnds, ReadFrame, Push, StopAfterError, TypeOK, Actors
<1>3. Final' = Final /\ Final \subseteq Chunks
  BY <1>2, OptionsAssumption DEF Final, Call, TypeOK
<1>4. CASE ReadFails
  BY <1>1, <1>2, <1>3, <1>4 DEF ReadFails, RecordError, TypeOK
<1>5. CASE ReadFrame \/ StopAfterError("producer")
  <2>1. UNCHANGED <<produced_count, producer_eof, errVars>>
    BY <1>5 DEF ReadFrame, StopAfterError
  <2> QED BY <1>1, <1>2, <1>3, <2>1
<1>6. CASE StreamEnds
  <2>1. /\ produced_count = NumChunks /\ producer' = "done" /\ UNCHANGED produced_count
        /\ producer_eof' => NumChunks = 0
    BY <1>6 DEF StreamEnds, EndIsLegal
  <2>2. UNCHANGED errVars \/ (err_slot' /\ err_flag')
    BY <1>1, <1>6 DEF StreamEnds, RecordError, TypeOK
  <2> QED BY <1>1, <1>2, <1>3, <2>1, <2>2
<1>7. CASE Push
  <2> DEFINE c == produced_count
  <2>1. /\ c < NumChunks /\ c \in Nat /\ NumChunks \in Nat /\ held["producer"] = {c}
        /\ produced_count' = c + 1
    BY <1>7, OptionsAssumption DEF Push, Hands, TypeOK
  <2>2. UNCHANGED errVars \/ (err_slot' /\ err_flag')
    BY <1>1, <1>7 DEF Push, RecordError, TypeOK
  <2>3. /\ c \in Final => producer' = "done"
        /\ producer_eof' => producer' = "done" /\ c + 1 = NumChunks /\ c \in Final
    BY <1>1, <1>7, <2>1 DEF Push, Trailing
  <2>4. \A d \in Final : d < produced_count' => d + 1 = produced_count' /\ producer' = "done"
    <3>1. \A d \in Final : d \in Nat
      BY <1>3 DEF Chunks
    <3> QED BY <1>2, <2>1, <2>3, <3>1
  <2>5. producer_eof' => /\ producer' = "done" /\ produced_count' = NumChunks
                         /\ NumChunks - 1 \in Final
    BY <2>1, <2>3
  <2>6. producer_eof' \in BOOLEAN
    BY <1>1, <1>7 DEF Push, TypeOK
  <2> QED BY <1>1, <1>2, <1>3, <2>2, <2>4, <2>5
<1> QED BY <1>4, <1>5, <1>6, <1>7 DEF Producer

LEMMA EndsOfWorker ==
    ASSUME IInv, Ends, NEW w \in Workers, Worker(w)
    PROVE  Ends'
<1> USE WorkersAssumption
        DEF IInv, Ends, AllTaken, queueVars, inputVars, resultVars, errVars, writerVars
<1>1. worker[w] # "done" /\ writer # "returned"
  BY DEF Worker, WorkerTop, Pop, PopNothing, Decode, DecodeFails, FallbackFails, Insert,
         StopAfterError, AllJoined
<1>2. /\ UNCHANGED <<inputVars, writer, next_index, result, producer>>
      /\ held'["writer"] = held["writer"]
  BY DEF Worker, WorkerTop, Pop, PopNothing, Decode, DecodeFails, FallbackFails, Insert,
         StopAfterError, TypeOK, Actors
<1>3. Final' = Final
  BY <1>2 DEF Final
<1>4. CASE DecodeFails(w) \/ FallbackFails(w)
  <2>1. err_slot' = TRUE /\ err_flag' = (err_flag \/ ~err_slot)
    BY <1>4 DEF DecodeFails, FallbackFails, RecordError
  <2>2. err_flag \/ ~err_slot
    BY DEF TypeOK
  <2>3. err_slot' /\ err_flag'
    BY <2>1, <2>2
  <2> QED BY <1>1, <1>2, <1>3, <2>3
<1>5. CASE ~(DecodeFails(w) \/ FallbackFails(w))
  <2>1. UNCHANGED errVars
    BY <1>5 DEF Worker, WorkerTop, Pop, PopNothing, Decode, Insert, StopAfterError
  <2> QED BY <1>1, <1>2, <1>3, <2>1
<1> QED BY <1>4, <1>5

LEMMA EndsOfWriter ==
    ASSUME IInv, Ends, Writer
    PROVE  Ends'
<1> USE WorkersAssumption
        DEF IInv, Ends, AllTaken, queueVars, inputVars, resultVars, errVars, writerVars
<1>0. UNCHANGED <<inputVars, producer, worker>> /\ Final' = Final
  BY DEF Writer, SeeError, TakeResult, SeeEnd, WriterSleep, CheckError, Write, WriteFails, Join,
         Final
<1>1. CASE SeeError \/ SeeEnd \/ WriterSleep
  BY <1>0, <1>1 DEF SeeError, SeeEnd, WriterSleep, TypeOK
<1>2. CASE TakeResult
  <2>1. held'["writer"] = {next_index}
    BY <1>2 DEF TakeResult, TypeOK, Actors
  <2> QED BY <1>0, <1>2, <2>1 DEF TakeResult
<1>3. CASE CheckError
  BY <1>0, <1>3 DEF CheckError, TypeOK
<1>4. CASE Write \/ WriteFails
  <2>1. UNCHANGED <<errVars, result>>
    BY <1>4 DEF Write, WriteFails
  <2>2. writer = "write" /\ writer' \in {"next", "return_error"}
    BY <1>4 DEF Write, WriteFails
  <2> QED BY <1>0, <2>1, <2>2
<1>5. CASE Join
  BY <1>0, <1>5 DEF Join, AllJoined
<1> QED BY <1>1, <1>2, <1>3, <1>4, <1>5 DEF Writer

LEMMA EndsStep == ASSUME IInv, Ends, [Next]_vars PROVE Ends'
<1>1. CASE SpuriousWake \/ Returned \/ UNCHANGED vars
  BY <1>1 DEF SpuriousWake, Returned, vars, Ends, AllTaken, AllJoined, Final,
              queueVars, inputVars, resultVars, errVars, writerVars
<1> QED BY <1>1, EndsOfProducer, EndsOfWorker, EndsOfWriter DEF Next

LEMMA EndsInvariance == Spec => []Ends
<1>1. Init => Ends
  <2> SUFFICES ASSUME Init PROVE Ends
    OBVIOUS
  <2>1. Final \subseteq Chunks /\ produced_count = 0
    BY OptionsAssumption DEF Init, Final, Call
  <2>2. \A c \in Final : ~(c < produced_count)
    BY <2>1, OptionsAssumption DEF Chunks
  <2> QED BY <2>2 DEF Init, Ends
<1> QED BY <1>1, EndsStep, Invariance, PTL DEF Spec

\* What is written is a prefix of the stream at every moment, and a call that
\* returns "ok" has written all of a stream that marks its last chunk and no
\* other: no error, no early final mark and nothing after it went by.
THEOREM OkIsWhole == Spec => []OkMeansWholeStream
<1>1. IInv /\ Ends => OkMeansWholeStream
  <2> SUFFICES ASSUME IInv, Ends, result = "ok"
               PROVE  Len(output) = NumChunks /\ Final = {c \in Chunks : c + 1 = NumChunks}
    BY DEF OkMeansWholeStream, IInv, Frames
  <2>1. producer_eof /\ produced_count = NumChunks /\ Len(output) = NumChunks
    BY DEF Ends, AllTaken, IInv, Frames
  <2>2. Final \subseteq Chunks /\ NumChunks \in Nat
    BY OptionsAssumption DEF IInv, TypeOK, Final, Call
  <2>3. \A c \in Final : c + 1 = NumChunks
    BY <2>1, <2>2 DEF Ends, Chunks
  <2>4. \A c \in Chunks : c + 1 = NumChunks => c \in Final
    BY <2>1, <2>2 DEF Ends, Chunks
  <2> QED BY <2>1, <2>2, <2>3, <2>4
<1> QED BY <1>1, Invariance, EndsInvariance, PTL

--------------------------------------------------------------------------------
(* The decompressor implements the ordered pipe.                               *)

LEMMA PipeStep ==
    ASSUME IInv, Ends, [Next]_vars
    PROVE  [Pipe!Next]_(Pipe!vars)
<1> USE WorkersAssumption, OptionsAssumption
        DEF IInv, Actors, queueVars, inputVars, resultVars, errVars, writerVars, Pipe!vars
<1>0. Len(output) \in Nat /\ next_index \in Nat /\ produced_count \in 0 .. NumChunks
      /\ output \in Seq(Chunks)
  BY DEF TypeOK
<1>1. CASE Push
  <2>1. result = "none"
    BY <1>1 DEF Push, Ends, AllJoined
  <2>2. produced_count < NumChunks /\ produced_count' = produced_count + 1
        /\ UNCHANGED <<output, result>>
    BY <1>1 DEF Push, Hands
  <2> QED BY <1>0, <2>1, <2>2 DEF Pipe!Accept, Pipe!Next
<1>2. CASE Write
  <2>1. result = "none" /\ UNCHANGED <<produced_count, result>>
    BY <1>2 DEF Write, Ends
  <2>2. next_write_index = next_index + 1 /\ Len(output) = next_index
        /\ next_write_index <= produced_count
    BY <1>2 DEF Write, Frames, Partition
  <2>3. Len(output') = Len(output) + 1
    BY <1>0, <1>2 DEF Write
  <2> QED BY <1>0, <2>1, <2>2, <2>3 DEF Pipe!Emit, Pipe!Next
<1>3. CASE Join
  <2>1. result = "none" /\ UNCHANGED <<produced_count, output>>
    BY <1>3 DEF Join, Ends
  <2>2. \/ result' = "error"
        \/ result' = "ok" /\ produced_count = NumChunks
    BY <1>3 DEF Join, Ends, AllTaken
  <2> QED BY <2>1, <2>2 DEF Pipe!ReturnOk, Pipe!ReturnError, Pipe!Next
<1>4. CASE ~(Push \/ Write \/ Join)
  <2>1. UNCHANGED <<produced_count, output, result>>
    BY <1>4 DEF Next, vars, Producer, ReadFails, StreamEnds, ReadFrame, StopAfterError, Worker,
                WorkerTop, Pop, PopNothing, Decode, DecodeFails, FallbackFails, Insert, Writer,
                SeeError, TakeResult, SeeEnd, WriterSleep, CheckError, WriteFails, SpuriousWake,
                Returned
  <2> QED BY <2>1
<1> QED BY <1>1, <1>2, <1>3, <1>4

\* Behind its threads, its queues and its throttle, the decompressor accepts
\* frames in order and emits their chunks in the same order.
THEOREM Refinement == Spec => PipeSpec
<1>1. Init => Pipe!Init
  BY DEF Init, Pipe!Init
<1> QED BY <1>1, PipeStep, Invariance, EndsInvariance, PTL DEF Spec, PipeSpec, Pipe!Spec

--------------------------------------------------------------------------------
(* The throttle.                                                               *)

LEMMA ShareType ==
    ASSUME NEW w \in Workers
    PROVE  Share(w) \in Nat
<1>1. GpuBatchLimit * ChunkSize \in Nat /\ ChunkSize \in Nat
  BY OptionsAssumption
<1> QED BY <1>1 DEF Share

LEMMA CapacityType == Capacity \in Nat
<1>1. Cardinality(CpuWorkers) \in Nat /\ Cardinality(GpuWorkers) \in Nat
  BY WorkersAssumption, FS_CardinalityType
<1>2. Cardinality(GpuWorkers) * GpuBatchLimit \in Nat
  BY <1>1, OptionsAssumption
<1> QED BY <1>1, <1>2, OptionsAssumption DEF Capacity

\* The chunk to be written next is at the front of the queue it is in.
LEMMA HeadIsFirst ==
    ASSUME IInv, NEW w \in Workers, Throttled
    PROVE  /\ Batch(w) \subseteq {next_write_index}
           /\ next_write_index \in Suitable(w) => Batch(w) = {next_write_index}
<1>1. QueueOf(w) \subseteq Queued /\ Queued \subseteq Chunks
  BY DEF QueueOf, Queued, IInv, TypeOK
<1>2. \A c \in QueueOf(w) : next_write_index <= c
  <2>1. \A c \in Queued : c >= next_write_index
    BY <1>1 DEF IInv, Partition
  <2>2. \A c \in Queued : c \in Int /\ next_write_index \in Int
    BY <1>1, OptionsAssumption DEF Chunks, IInv, TypeOK
  <2> QED BY <1>1, <2>1, <2>2
<1>3. Batch(w) = HeadOf(w)
  BY DEF Batch
<1>4. next_write_index \in QueueOf(w) => next_write_index \in FirstOf(QueueOf(w))
  BY <1>2 DEF FirstOf
<1>5. Suitable(w) \subseteq QueueOf(w)
  BY DEF Suitable
<1> QED BY <1>3, <1>4, <1>5 DEF HeadOf

\* A worker takes no more than its share.
LEMMA BatchIsShare ==
    ASSUME IInv, NEW w \in Workers
    PROVE  DecodedBytes[Batch(w)] <= Share(w)
<1> DEFINE most == IF w \in CpuWorkers THEN 1 ELSE GpuBatchLimit
           few == {c \in Suitable(w) : Cardinality({d \in Suitable(w) : d < c}) < most}
<1>0. Suitable(w) \in SUBSET Chunks /\ next_write_index \in Nat
  BY BatchIsQueued DEF Queued, IInv, TypeOK
<1>1. most \in Nat /\ most >= 1 /\ ChunkSize \in Nat /\ NumChunks \in Nat
  BY OptionsAssumption
<1>2. Batch(w) \in SUBSET Chunks
  BY <1>0, BatchIsQueued
<1>3. IsFiniteSet(Batch(w)) /\ Cardinality(Batch(w)) <= most
  <2>1. CASE Throttled
    <3>1. Batch(w) \in SUBSET {next_write_index}
      BY <2>1, HeadIsFirst
    <3>2. IsFiniteSet({next_write_index}) /\ Cardinality({next_write_index}) = 1
      BY FS_Singleton
    <3>3. IsFiniteSet(Batch(w)) /\ Cardinality(Batch(w)) <= 1
      BY <3>1, <3>2, FS_Subset
    <3>4. Cardinality(Batch(w)) \in Nat
      BY <3>3, FS_CardinalityType
    <3> HIDE DEF most
    <3> QED BY <1>1, <3>3, <3>4
  <2>2. CASE ~Throttled
    <3>1. Batch(w) = few
      BY <2>2 DEF Batch
    <3>2. Suitable(w) \in SUBSET (0 .. NumChunks - 1)
      BY <1>0 DEF Chunks
    <3> HIDE DEF most
    <3>3. IsFiniteSet(few) /\ Cardinality(few) <= most
      BY <1>1, <3>2, FirstFew
    <3> QED BY <3>1, <3>3
  <2> QED BY <2>1, <2>2
<1>4. DecodedBytes[Batch(w)] <= Cardinality(Batch(w)) * ChunkSize
  BY <1>1, <1>2, <1>3, BytesAssumption, BytesOfMany
<1>5. Share(w) = most * ChunkSize
  BY <1>1 DEF Share
<1> HIDE DEF most
<1>6. Cardinality(Batch(w)) \in Nat
  BY <1>3, FS_CardinalityType
<1>7. Cardinality(Batch(w)) * ChunkSize <= most * ChunkSize
  BY <1>1, <1>3, <1>6
<1>8. DecodedBytes[Batch(w)] \in Nat /\ Cardinality(Batch(w)) * ChunkSize \in Nat
      /\ most * ChunkSize \in Nat
  BY <1>1, <1>2, <1>6, BytesAssumption, BytesType
<1> QED BY <1>4, <1>5, <1>7, <1>8

\* All workers together hold no more than their shares.
LEMMA InWorkIsCapacity ==
    ASSUME NEW hand,
           \A w \in Workers : hand[w] \in SUBSET Chunks /\ DecodedBytes[hand[w]] <= Share(w),
           \A v, w \in Workers : v # w => hand[v] \intersect hand[w] = {}
    PROVE  /\ DecodedBytes[UNION {hand[w] : w \in Workers}] <= Capacity
           /\ DecodedBytes[UNION {hand[w] : w \in Workers}] \in Nat
           /\ Capacity \in Nat
<1> DEFINE All   == UNION {hand[w] : w \in Workers}
           OnCpu == UNION {hand[w] : w \in CpuWorkers}
           OnGpu == UNION {hand[w] : w \in GpuWorkers}
           load  == GpuBatchLimit * ChunkSize
           nCpu  == Cardinality(CpuWorkers)
           nGpu  == Cardinality(GpuWorkers)
<1>1. \A w \in Workers : hand[w] \in SUBSET Chunks
  OBVIOUS
<1>2. \A v, w \in Workers : v # w => hand[v] \intersect hand[w] = {}
  OBVIOUS
<1>3. /\ nCpu \in Nat /\ nGpu \in Nat /\ ChunkSize \in Nat /\ GpuBatchLimit \in Nat
      /\ load \in Nat
  BY WorkersAssumption, OptionsAssumption, FS_CardinalityType
<1>4. DecodedBytes[OnCpu] <= nCpu * ChunkSize
  <2>1. \A w \in CpuWorkers : w \in Workers /\ DecodedBytes[hand[w]] <= ChunkSize
    BY DEF Share, Workers
  <2>2. IsFiniteSet(CpuWorkers) /\ Additive(DecodedBytes, Chunks)
    BY WorkersAssumption, BytesAssumption
  <2>3. \A w \in CpuWorkers : hand[w] \in SUBSET Chunks
    BY <1>1, <2>1
  <2>4. \A v, w \in CpuWorkers : v # w => hand[v] \intersect hand[w] = {}
    BY <1>2, <2>1
  <2> QED BY <1>3, <2>1, <2>2, <2>3, <2>4, BytesOfHands
<1>5. DecodedBytes[OnGpu] <= nGpu * load
  <2>1. \A w \in GpuWorkers : w \in Workers /\ DecodedBytes[hand[w]] <= load
    BY WorkersAssumption DEF Share, Workers
  <2>2. IsFiniteSet(GpuWorkers) /\ Additive(DecodedBytes, Chunks)
    BY WorkersAssumption, BytesAssumption
  <2>3. \A w \in GpuWorkers : hand[w] \in SUBSET Chunks
    BY <1>1, <2>1
  <2>4. \A v, w \in GpuWorkers : v # w => hand[v] \intersect hand[w] = {}
    BY <1>2, <2>1
  <2> HIDE DEF load
  <2> QED BY <1>3, <2>1, <2>2, <2>3, <2>4, BytesOfHands
<1>6. All = OnCpu \union OnGpu
  BY DEF Workers
<1>7. OnCpu \intersect OnGpu = {}
  BY <1>2, WorkersAssumption DEF Workers
<1>8. OnCpu \in SUBSET Chunks /\ OnGpu \in SUBSET Chunks
  BY <1>1 DEF Workers
<1> HIDE DEF All, OnCpu, OnGpu
<1>9. DecodedBytes[All] = DecodedBytes[OnCpu] + DecodedBytes[OnGpu]
  BY <1>6, <1>7, <1>8, BytesAssumption, BytesOfUnion
<1>10. DecodedBytes[OnCpu] \in Nat /\ DecodedBytes[OnGpu] \in Nat
  BY <1>8, BytesAssumption, BytesType
<1>11. Capacity = nCpu * ChunkSize + nGpu * load
  BY <1>3 DEF Capacity
<1>12. nCpu * ChunkSize \in Nat /\ nGpu * load \in Nat
  BY <1>3
<1> HIDE DEF nCpu, nGpu, load
<1>13. DecodedBytes[All] <= Capacity /\ DecodedBytes[All] \in Nat /\ Capacity \in Nat
  BY <1>4, <1>5, <1>9, <1>10, <1>11, <1>12
<1> QED BY <1>13 DEF All

\* A set weighs no more than one that contains it.
LEMMA BytesGrow ==
    ASSUME NEW S \in SUBSET Chunks, NEW T \in SUBSET S
    PROVE  DecodedBytes[T] <= DecodedBytes[S] /\ DecodedBytes[T] \in Nat
           /\ DecodedBytes[S] \in Nat
<1>1. T \in SUBSET Chunks
  OBVIOUS
<1> QED BY <1>1, BytesAssumption, BytesOfPart, BytesType

LEMMA ThrottleStep ==
    ASSUME IInv, IInv', Throttle, [Next]_vars
    PROVE  Throttle'
<1> USE WorkersAssumption, OptionsAssumption
        DEF Actors, queueVars, inputVars, resultVars, errVars, writerVars
<1> DEFINE waiting == (results \union InWork) \ {next_write_index}
<1>0. /\ worker \in [Workers -> WorkerPlaces] /\ held \in [Actors -> SUBSET Chunks]
      /\ results \subseteq Chunks /\ InWork \subseteq Chunks
      /\ buffered_result_bytes \in Nat /\ ResultLimit \in Nat
      /\ next_index \in 0 .. NumChunks /\ next_write_index \in 0 .. NumChunks
  BY DEF IInv, TypeOK, InWork
<1>1. CASE /\ UNCHANGED resultVars /\ \A w \in Workers : held'[w] = held[w]
  <2>1. InWork' = InWork
    BY <1>1 DEF InWork
  <2> QED BY <1>1, <2>1 DEF Throttle
<1>2. ASSUME NEW w \in Workers, Pop(w)
      PROVE  Throttle'
  <2>1. /\ UNCHANGED resultVars /\ worker[w] = "pop"
        /\ held' = [held EXCEPT ![w] = Batch(w)]
    BY <1>2 DEF Pop
  <2>2. /\ held[w] = {} /\ held'[w] = Batch(w)
        /\ \A v \in Workers : v # w => held'[v] = held[v]
    BY <1>0, <2>1 DEF IInv, Hands
  <2>3. \A v \in Workers : DecodedBytes[held'[v]] <= Share(v)
    BY <2>2, BatchIsShare DEF Throttle
  <2>4. DecodedBytes[waiting'] < ResultLimit + Capacity
    <3>1. CASE Throttled
      <4>1. Batch(w) \subseteq {next_write_index}
        BY <3>1, HeadIsFirst
      <4>2. InWork' \subseteq InWork \union {next_write_index}
        BY <2>2, <4>1 DEF InWork
      <4>3. waiting' \in SUBSET waiting /\ waiting \in SUBSET Chunks
        BY <1>0, <2>1, <4>2
      <4>4. DecodedBytes[waiting] < ResultLimit + Capacity
        BY DEF Throttle
      <4> HIDE DEF waiting
      <4>6. DecodedBytes[waiting'] <= DecodedBytes[waiting] /\ DecodedBytes[waiting'] \in Nat
            /\ DecodedBytes[waiting] \in Nat
        BY <4>3, BytesGrow
      <4> QED BY <1>0, <4>4, <4>6, CapacityType
    <3>2. CASE ~Throttled
      <4>1. DecodedBytes[results] < ResultLimit
        BY <3>2, <1>0 DEF Throttled, Throttle
      <4>2. /\ DecodedBytes[InWork'] <= Capacity
            /\ DecodedBytes[InWork'] \in Nat /\ Capacity \in Nat
        <5>1. \A v \in Workers : held'[v] \in SUBSET Chunks
          BY DEF IInv, TypeOK
        <5>2. \A u, v \in Workers : u # v => held'[u] \intersect held'[v] = {}
          BY <5>1 DEF IInv, Partition
        <5>3. InWork' = UNION {held'[v] : v \in Workers}
          BY DEF InWork
        <5> QED BY <2>3, <5>1, <5>2, <5>3, InWorkIsCapacity
      <4>3. results' = results /\ InWork' \subseteq Chunks
        BY <2>1 DEF IInv, TypeOK, InWork
      <4>4. results \intersect InWork' = {}
        <5>1. \A v \in Workers : \A c \in held'[v] : c \notin results'
          BY DEF IInv, TypeOK, Partition
        <5> QED BY <4>3, <5>1 DEF InWork
      <4> DEFINE both == results \union InWork'
      <4>5. DecodedBytes[both] = DecodedBytes[results] + DecodedBytes[InWork']
        <5> DEFINE inWork == InWork'
        <5>1. inWork \in SUBSET Chunks /\ results \in SUBSET Chunks /\ results \intersect inWork = {}
          BY <1>0, <4>3, <4>4
        <5> HIDE DEF inWork
        <5>2. DecodedBytes[results \union inWork] = DecodedBytes[results] + DecodedBytes[inWork]
          BY <5>1, BytesAssumption, BytesOfUnion
        <5> QED BY <5>2 DEF inWork
      <4>6. waiting' \in SUBSET both /\ both \in SUBSET Chunks
        BY <1>0, <4>3
      <4>7. DecodedBytes[results] \in Nat
        BY <1>0, BytesAssumption, BytesType
      <4> HIDE DEF waiting, both
      <4>8. DecodedBytes[waiting'] <= DecodedBytes[both] /\ DecodedBytes[waiting'] \in Nat
            /\ DecodedBytes[both] \in Nat
        BY <4>6, BytesGrow
      <4> QED BY <1>0, <4>1, <4>2, <4>5, <4>7, <4>8
    <3> QED BY <3>1, <3>2
  <2> QED BY <2>1, <2>3, <2>4 DEF Throttle, Share, Capacity
<1>3. ASSUME NEW w \in Workers, Insert(w)
      PROVE  Throttle'
  <2>1. /\ results' = results \union held[w]
        /\ buffered_result_bytes' = buffered_result_bytes + DecodedBytes[held[w]]
        /\ held' = [held EXCEPT ![w] = {}]
        /\ UNCHANGED next_write_index
    BY <1>3 DEF Insert
  <2>2. held'[w] = {} /\ \A v \in Workers : v # w => held'[v] = held[v]
    BY <1>0, <2>1
  <2>3. results' \union InWork' = results \union InWork
    BY <2>1, <2>2 DEF InWork
  <2>4. held[w] \in SUBSET Chunks /\ results \in SUBSET Chunks /\ results \intersect held[w] = {}
    BY <1>0 DEF IInv, Partition
  <2>5. DecodedBytes[results'] = DecodedBytes[results] + DecodedBytes[held[w]]
    <3> DEFINE mine == held[w]
    <3>1. mine \in SUBSET Chunks /\ results \intersect mine = {} /\ results' = results \union mine
      BY <2>1, <2>4
    <3> HIDE DEF mine
    <3>2. DecodedBytes[results'] = DecodedBytes[results] + DecodedBytes[mine]
      BY <2>4, <3>1, BytesAssumption, BytesOfUnion
    <3> QED BY <3>2 DEF mine
  <2>6. DecodedBytes[{}] = 0 /\ Share(w) \in Nat
    BY BytesAssumption, ShareType DEF Additive
  <2>7. ASSUME NEW v \in Workers
        PROVE  DecodedBytes[held'[v]] <= Share(v)
    <3>1. CASE v = w
      BY <2>2, <2>6, <3>1
    <3>2. CASE v # w
      BY <2>2, <3>2 DEF Throttle
    <3> QED BY <3>1, <3>2
  <2> QED BY <2>1, <2>3, <2>5, <2>7 DEF Throttle, Share, Capacity
<1>4. CASE TakeResult
  <2>1. /\ results' = results \ {next_index} /\ next_index \in results
        /\ buffered_result_bytes' = Minus(buffered_result_bytes, DecodedBytes[{next_index}])
        /\ held' = [held EXCEPT !["writer"] = {next_index}]
        /\ writer = "next" /\ next_write_index' = next_index + 1
    BY <1>4 DEF TakeResult, BufferedAfterTake
  <2>2. next_write_index = next_index /\ \A w \in Workers : held'[w] = held[w]
    BY <1>0, <2>1 DEF IInv, Frames
  <2>3. InWork' = InWork
    BY <2>2 DEF InWork
  <2>4. next_index \notin InWork
    BY <1>0, <2>1 DEF IInv, Partition, InWork
  <2>5. waiting' \in SUBSET waiting /\ waiting \in SUBSET Chunks
    BY <1>0, <2>1, <2>2, <2>3, <2>4
  <2>6. /\ DecodedBytes[results \ {next_index}] = DecodedBytes[results] - DecodedBytes[{next_index}]
        /\ DecodedBytes[{next_index}] <= DecodedBytes[results]
    BY <1>0, <2>1, BytesAssumption, BytesOfRest
  <2>7. {next_index} \in SUBSET Chunks
    BY <1>0, <2>1
  <2>8. DecodedBytes[{next_index}] \in Nat /\ DecodedBytes[results] \in Nat
    BY <1>0, <2>7, BytesAssumption, BytesType
  <2>9. buffered_result_bytes' = DecodedBytes[results']
    BY <2>1, <2>6, <2>8 DEF Throttle, Minus
  <2>10. Capacity \in Nat
    BY CapacityType
  <2>11. DecodedBytes[waiting] < ResultLimit + Capacity
    BY DEF Throttle
  <2>12. DecodedBytes[waiting'] < ResultLimit + Capacity
    <3> HIDE DEF waiting
    <3>1. DecodedBytes[waiting'] <= DecodedBytes[waiting] /\ DecodedBytes[waiting'] \in Nat
          /\ DecodedBytes[waiting] \in Nat
      BY <2>5, BytesGrow
    <3> QED BY <1>0, <2>10, <2>11, <3>1
  <2> QED BY <2>2, <2>9, <2>12 DEF Throttle, Share, Capacity
<1>5. CASE ~(TakeResult \/ \E w \in Workers : Pop(w) \/ Insert(w))
  <2>1. UNCHANGED resultVars
    BY <1>5 DEF Next, vars, Producer, ReadFails, StreamEnds, ReadFrame, Push, StopAfterError,
                Worker, WorkerTop, PopNothing, Decode, DecodeFails, FallbackFails, Writer,
                SeeError, SeeEnd, WriterSleep, CheckError, Write, WriteFails, Join,
                SpuriousWake, Returned
  <2>2. \/ held' = held
        \/ held' = [held EXCEPT !["writer"] = {}]
        \/ held' = [held EXCEPT !["producer"] = {}]
        \/ held' = [held EXCEPT !["producer"] = {produced_count}]
    BY <1>5 DEF Next, vars, Producer, ReadFails, StreamEnds, ReadFrame, Push, StopAfterError,
                Worker, WorkerTop, PopNothing, Decode, DecodeFails, FallbackFails, Writer,
                SeeError, SeeEnd, WriterSleep, CheckError, Write, WriteFails, Join,
                SpuriousWake, Returned
  <2>3. \A w \in Workers : held'[w] = held[w]
    BY <1>0, <2>2
  <2> QED BY <1>1, <2>1, <2>3
<1> QED BY <1>2, <1>3, <1>4, <1>5

LEMMA ThrottleInvariance == Spec => []Throttle
<1>1. Init => Throttle
  <2> SUFFICES ASSUME Init PROVE Throttle
    OBVIOUS
  <2>2. results = {} /\ buffered_result_bytes = 0 /\ \A w \in Workers : held[w] = {}
    BY DEF Init, Actors
  <2>3. DecodedBytes[{}] = 0
    BY BytesAssumption DEF Additive
  <2>4. \A w \in Workers : DecodedBytes[held[w]] <= Share(w)
    BY <2>2, <2>3, ShareType
  <2>5. Capacity \in Nat
    BY CapacityType
  <2>6. (results \union InWork) \ {next_write_index} = {}
    BY <2>2 DEF InWork
  <2>7. 0 < ResultLimit + Capacity
    BY <2>5, OptionsAssumption
  <2> QED BY <2>2, <2>3, <2>4, <2>6, <2>7 DEF Throttle
<1> QED BY <1>1, ThrottleStep, Invariance, PTL DEF Spec

\* What is decoded and not yet written stays below the limit and one load of all
\* workers, although each of them tests the limit long before it inserts; and the
\* chunk the writer waits for is never shut out.
THEOREM ThrottleHolds == Spec => []ThrottleSound
<1>1. IInv /\ Throttle => ThrottleSound
  BY HeadIsFirst DEF Throttle, ThrottleSound
<1> QED BY <1>1, Invariance, ThrottleInvariance, PTL

--------------------------------------------------------------------------------
(* Nobody sleeps through what he waits for.                                    *)

\* Only a writer that looks for its next result sleeps.
Sleepers == "writer" \in waiters => writer = "next"

\* The GPU worker's silent exit is the one fault that nobody is told of.
Told == "fallback" \notin Faults

Alert == NoLostWakeup /\ Sleepers

\* A step that wakes everybody, or after which somebody is about to, is safe.
LEMMA LoudStep ==
    ASSUME Sleepers, waiters' = {} \/ (WillNotify' /\ waiters' = waiters /\ writer' = writer)
    PROVE  Alert'
BY DEF Alert, NoLostWakeup, Sleepers

\* What a sleeper waits for is a matter of the queues, the results, the end of
\* the input, the errors and the index to be written next.
LEMMA ReasonsKept ==
    ASSUME UNCHANGED <<queueVars, inputVars, stopped, resultVars, err_flag>>
    PROVE  /\ Told' = Told
           /\ \A w \in Workers : Batch(w)' = Batch(w) /\ NoMoreWork(w)' = NoMoreWork(w)
<1> USE DEF queueVars, inputVars, resultVars
<1>1. Told' = Told /\ Policy' = Policy /\ Throttled' = Throttled
  BY DEF Told, Faults, Policy, Throttled
<1>2. ASSUME NEW w \in Workers
      PROVE  QueueOf(w)' = QueueOf(w) /\ Suitable(w)' = Suitable(w)
  BY <1>1 DEF QueueOf, Suitable
<1>3. ASSUME NEW w \in Workers
      PROVE  HeadOf(w)' = HeadOf(w)
  BY <1>1, <1>2 DEF HeadOf, FirstOf
<1> QED BY <1>1, <1>2, <1>3 DEF Batch, NoMoreWork

LEMMA AlertStep ==
    ASSUME IInv, Alert, [Next]_vars
    PROVE  Alert'
<1> USE WorkersAssumption
        DEF IInv, Actors, queueVars, inputVars, resultVars, errVars, writerVars
<1>0. /\ NoLostWakeup /\ Sleepers
      /\ worker \in [Workers -> WorkerPlaces]
  BY DEF Alert, TypeOK
<1>1. CASE ReadFails \/ Push \/ StreamEnds \/ StopAfterError("producer")
  <2>1. waiters' = {} \/ (producer' = "fail" /\ UNCHANGED <<waiters, writer>>)
    BY <1>1 DEF ReadFails, Push, StreamEnds, StopAfterError
  <2> QED BY <1>0, <2>1, LoudStep DEF WillNotify
<1>2. CASE ReadFrame
  <2>1. /\ UNCHANGED <<queueVars, inputVars, stopped, resultVars, waiters, errVars, worker,
                       writerVars>>
        /\ producer # "fail"
    BY <1>2 DEF ReadFrame
  <2>2. (WillNotify => WillNotify') /\ AllTaken' = AllTaken
    BY <2>1 DEF WillNotify, AllTaken
  <2> QED BY <1>0, <2>1, <2>2, ReasonsKept DEF Alert, NoLostWakeup, Sleepers, Told
<1>3. ASSUME NEW w \in Workers, Pop(w) \/ Decode(w) \/ DecodeFails(w) \/ Insert(w)
                                  \/ StopAfterError(w)
      PROVE  Alert'
  <2>1. \/ waiters' = {}
        \/ worker'[w] \in {"decode", "insert", "fail"} /\ UNCHANGED <<waiters, writer>>
    BY <1>0, <1>3 DEF Pop, Decode, DecodeFails, Insert, StopAfterError
  <2> QED BY <1>0, <2>1, LoudStep DEF WillNotify
<1>4. ASSUME NEW w \in Workers, WorkerTop(w) \/ PopNothing(w)
      PROVE  Alert'
  <2>1. /\ UNCHANGED <<queueVars, inputVars, stopped, resultVars, errVars, producer, writerVars>>
        /\ worker[w] \in {"top", "pop"}
        /\ \A v \in Workers : v # w => worker'[v] = worker[v]
        /\ \A t \in waiters' : t \in waiters \/ (t = w /\ Batch(w) = {} /\ ~NoMoreWork(w))
    BY <1>0, <1>4 DEF WorkerTop, PopNothing
  <2>2. (WillNotify => WillNotify') /\ AllTaken' = AllTaken
    BY <2>1 DEF WillNotify, AllTaken
  <2> QED BY <1>0, <2>1, <2>2, ReasonsKept DEF Alert, NoLostWakeup, Sleepers, Told
<1>5. ASSUME NEW w \in Workers, FallbackFails(w)
      PROVE  Alert'
  BY <1>0, <1>5 DEF FallbackFails, Alert, NoLostWakeup, Sleepers, Faults
<1>6. CASE SeeError \/ TakeResult \/ SeeEnd
  <2>1. waiters' = {}
    BY <1>6 DEF SeeError, TakeResult, SeeEnd
  <2> QED BY <1>0, <2>1, LoudStep
<1>7. CASE WriterSleep
  <2>1. /\ UNCHANGED <<queueVars, inputVars, stopped, resultVars, errVars, producer, worker,
                       writerVars>>
        /\ writer = "next" /\ waiters' = waiters \union {"writer"}
        /\ ~err_flag /\ next_index \notin results /\ ~AllTaken
    BY <1>7 DEF WriterSleep
  <2>2. WillNotify' = WillNotify /\ AllTaken' = AllTaken
    BY <2>1 DEF WillNotify, AllTaken
  <2> QED BY <1>0, <2>1, <2>2, ReasonsKept DEF Alert, NoLostWakeup, Sleepers, Told
<1>8. CASE CheckError \/ Write \/ WriteFails \/ Join
  <2>1. /\ UNCHANGED <<queueVars, inputVars, stopped, resultVars, waiters, err_flag, producer,
                       worker>>
        /\ "writer" \notin waiters
    BY <1>0, <1>8 DEF CheckError, Write, WriteFails, Join, Sleepers
  <2>2. WillNotify' = WillNotify
    BY <2>1 DEF WillNotify
  <2> QED BY <1>0, <2>1, <2>2, ReasonsKept DEF Alert, NoLostWakeup, Sleepers, Told
<1>9. CASE SpuriousWake \/ Returned \/ UNCHANGED vars
  <2>1. /\ waiters' \subseteq waiters
        /\ UNCHANGED <<queueVars, inputVars, stopped, resultVars, errVars, producer, worker,
                       writerVars>>
    BY <1>9 DEF SpuriousWake, Returned, vars
  <2>2. WillNotify' = WillNotify /\ AllTaken' = AllTaken
    BY <2>1 DEF WillNotify, AllTaken
  <2> QED BY <1>0, <2>1, <2>2, ReasonsKept DEF Alert, NoLostWakeup, Sleepers, Told
<1> QED
  BY <1>1, <1>2, <1>3, <1>4, <1>5, <1>6, <1>7, <1>8, <1>9 DEF Next, Producer, Worker, Writer

\* Whoever sleeps on the one condition variable still has a reason to, or some
\* thread is on its way to waking everybody, for every number of workers; only a
\* GPU worker that leaves over a chunk it cannot decode tells nobody.
THEOREM NobodyForgotten == Spec => []NoLostWakeup
<1>1. Init => Alert
  BY DEF Init, Alert, NoLostWakeup, Sleepers
<1>2. Alert => NoLostWakeup
  BY DEF Alert
<1> QED BY <1>1, <1>2, AlertStep, Invariance, PTL DEF Spec
================================================================================

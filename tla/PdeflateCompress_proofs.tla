------------------------- MODULE PdeflateCompress_proofs -------------------------
(* Proofs about PdeflateCompress, for every number of workers, every input,    *)
(* both scheduler policies and every set of failures.                          *)
EXTENDS PdeflateCompress, ChunkBytes_proofs, TLAPS

--------------------------------------------------------------------------------
(* The inductive invariant.                                                    *)

\* What the threads but the writer hold, by the place where they are.
Hands ==
    /\ held["producer"] \subseteq {produced_count}
    /\ producer \in {"read", "fail"} => held["producer"] = {}
    /\ producer = "enqueue" => held["producer"] = {produced_count} \intersect Chunks
    /\ \A w \in Workers : worker[w] \in {"top", "pop"} => held[w] = {}

\* The frames that are out, the one that is held back and the chunk in the
\* writer's hand are the first chunks, in this order.
Frames ==
    /\ \A k \in 1 .. Len(output) : output[k].chunk = k - 1
    /\ \/ /\ pending = {} /\ Len(output) = next_index
          /\ held["writer"] \in {{}, {next_index}}
       \/ /\ pending = {Len(output)} /\ Len(output) + 1 = next_index
          /\ held["writer"] \in {{}, {next_index}}
       \/ /\ pending = {} /\ Len(output) + 1 = next_index
          /\ held["writer"] = {next_index - 1}
    /\ writer \in {"next", "last_check", "return_ok"} => held["writer"] = {}
    /\ writer \in {"next", "check_error", "last_check", "return_ok", "write_prev"} =>
          held["writer"] # {next_index - 1}
    /\ writer = "write_prev" => held["writer"] = {next_index}
    /\ writer \in {"write_final", "hold"} => held["writer"] = {next_index - 1}

\* The first chunk the writer has not taken.
Taken == IF next_index \in held["writer"] THEN next_index + 1 ELSE next_index

\* Between the first chunk not taken and the last one produced, each chunk is
\* queued, or in a result slot, or in the hands of one worker.
Partition ==
    /\ Taken <= produced_count
    /\ \A c \in Chunks :
         /\ c \in Queued => c < produced_count /\ c >= Taken /\ c \notin results
         /\ c \in results => c < produced_count /\ c >= Taken
         /\ \A w \in Workers : c \in held[w] =>
               /\ c < produced_count /\ c >= Taken /\ c \notin Queued /\ c \notin results
               /\ \A v \in Workers : c \in held[v] => v = w
         /\ c < produced_count /\ c >= Taken /\ c \notin Queued /\ c \notin results
              => \E w \in Workers : c \in held[w]

IInv ==
    /\ TypeOK
    /\ Hands
    /\ Frames
    /\ Partition
    /\ BufferedExact

\* How the end of the input and the errors travel to the result.
Ends ==
    /\ producer_eof => produced_count = NumChunks /\ producer = "done"
    /\ err_slot => err_flag
    /\ err_flag /\ writer \notin {"return_error", "returned"} => err_slot
    /\ writer = "check_error" /\ held["writer"] = {} => AllTaken \/ err_slot
    /\ writer \in {"last_check", "return_ok"} \/ result = "ok" => AllTaken
    /\ result # "none" <=> writer = "returned"
    /\ writer = "returned" => AllJoined

\* The final flag.
Flags ==
    /\ is_final => writer \in {"check_error", "write_prev", "write_final", "return_error",
                               "returned"}
    /\ is_final /\ writer \in {"check_error", "write_prev"} =>
          next_index \in held["writer"] /\ next_index + 1 = NumChunks
    /\ writer = "write_final" => next_index = NumChunks
    /\ \A k \in 1 .. Len(output) : output[k].final <=> k = NumChunks

--------------------------------------------------------------------------------
(* The producer preserves the invariant.                                       *)

LEMMA ProducerStep ==
    ASSUME IInv, Producer
    PROVE  IInv'
<1> USE WorkersAssumption, OptionsAssumption
        DEF IInv, Actors, queueVars, stateVars, errVars, writerVars
<1>1. CASE ReadFails \/ ProducerSleep \/ ProducerGivesUp \/ StopAfterError("producer")
  <2>0. "producer" \in Actors /\ "producer" \notin Workers
    OBVIOUS
  <2>1. /\ UNCHANGED <<queueVars, produced_count, producer_eof, results, worker, held, writerVars>>
        /\ producer' \in {"fail", "done", producer}
        /\ producer' = "fail" => producer = "read"
    BY <1>1, <2>0 DEF ReadFails, ProducerSleep, ProducerGivesUp, StopAfterError
  <2>2. producer' \in ProducerPlaces
    BY <2>1 DEF ProducerPlaces, TypeOK
  <2>3. waiters' \subseteq Actors
    BY <1>1, <2>0 DEF ReadFails, ProducerSleep, ProducerGivesUp, StopAfterError, TypeOK
  <2>4. stopped' \in BOOLEAN /\ err_slot' \in BOOLEAN /\ err_flag' \in BOOLEAN
    BY <1>1 DEF ReadFails, ProducerSleep, ProducerGivesUp, StopAfterError, RecordError, TypeOK
  <2>5. TypeOK'
    BY <2>1, <2>2, <2>3, <2>4 DEF TypeOK
  <2>6. Hands'
    BY <2>1 DEF Hands
  <2>7. Frames' /\ Partition' /\ BufferedExact'
    BY <2>1 DEF Frames, Partition, Taken, BufferedExact, Queued
  <2> QED BY <2>5, <2>6, <2>7
<1>2. CASE ReadChunk
  <2>1. producer' \in ProducerPlaces
    BY <1>2 DEF ReadChunk, ProducerPlaces
  <2>2. held' \in [Actors -> SUBSET Chunks]
    BY <1>2 DEF ReadChunk, TypeOK
  <2>3. /\ UNCHANGED <<queueVars, stateVars, waiters, errVars, worker, writerVars>>
        /\ held'["producer"] = {produced_count} \intersect Chunks
        /\ producer' = "enqueue"
        /\ \A a \in Actors : a # "producer" => held'[a] = held[a]
    BY <1>2 DEF ReadChunk, TypeOK
  <2>4. TypeOK'
    BY <2>1, <2>2, <2>3 DEF TypeOK
  <2>5. Hands'
    BY <2>3 DEF Hands
  <2>6. Frames'
    BY <2>3 DEF Frames
  <2>7. Partition' /\ BufferedExact'
    BY <2>3 DEF Partition, Taken, BufferedExact, Queued
  <2> QED BY <2>4, <2>5, <2>6, <2>7
<1>3. CASE ProducerEof
  <2>1. producer' \in ProducerPlaces
    BY <1>3 DEF ProducerEof, ProducerPlaces
  <2>2. TypeOK'
    BY <1>3, <2>1 DEF ProducerEof, TypeOK
  <2>3. Hands' /\ Frames' /\ Partition' /\ BufferedExact'
    BY <1>3 DEF ProducerEof, Hands, Frames, Partition, Taken, BufferedExact, Queued
  <2> QED BY <2>2, <2>3
<1>4. CASE Enqueue
  <2> DEFINE c == produced_count
  <2>1. /\ c \in Chunks /\ held["producer"] = {c}
        /\ buffered_bytes' = buffered_bytes + RawBytes[{c}]
        /\ produced_count' = c + 1
        /\ Queued' = Queued \union {c}
        /\ ~Full
        /\ held' = [held EXCEPT !["producer"] = {}]
        /\ producer' = "read" /\ waiters' = {}
        /\ UNCHANGED <<producer_eof, stopped, results, errVars, worker, writerVars>>
    BY <1>4 DEF Enqueue, Hands, Queued
  <2>2. queue' \subseteq Chunks /\ cpu_queue' \subseteq Chunks /\ gpu_queue' \subseteq Chunks
    BY <2>1, <1>4 DEF Enqueue, TypeOK
  <2>3. c \in 0 .. NumChunks - 1 /\ Queued \subseteq Chunks
    BY <2>1 DEF Chunks, Queued, TypeOK
  <2>4. c \notin Queued
    BY <2>1, <2>3 DEF Partition
  <2>5. /\ RawBytes[{c}] \in 1 .. ChunkSize
        /\ RawBytes[Queued \union {c}] = RawBytes[Queued] + RawBytes[{c}]
    <3>1. Additive(RawBytes, Chunks) /\ RawBytes[{c}] \in 1 .. ChunkSize
      BY <2>1, BytesAssumption
    <3>2. Queued \in SUBSET Chunks /\ {c} \in SUBSET Chunks /\ Queued \intersect {c} = {}
      BY <2>1, <2>3, <2>4
    <3> HIDE DEF c
    <3>3. RawBytes[Queued \union {c}] = RawBytes[Queued] + RawBytes[{c}]
      BY <3>1, <3>2, BytesOfUnion
    <3> QED BY <3>1, <3>3
  <2>6. producer' \in ProducerPlaces
    BY <2>1 DEF ProducerPlaces
  <2>7. held' \in [Actors -> SUBSET Chunks]
    BY <2>1 DEF TypeOK
  <2>8. produced_count' \in 0 .. NumChunks /\ buffered_bytes' \in Nat /\ waiters' \subseteq Actors
    BY <2>1, <2>3, <2>5 DEF TypeOK
  <2>9. TypeOK'
    BY <2>1, <2>2, <2>6, <2>7, <2>8 DEF TypeOK
  <2>10. /\ held'["producer"] = {}
         /\ \A a \in Actors : a # "producer" => held'[a] = held[a]
    BY <2>1 DEF TypeOK
  <2>11. Hands'
    BY <2>1, <2>10 DEF Hands
  <2>12. Frames'
    BY <2>1, <2>10 DEF Frames
  <2>13. Partition'
    <3>1. Taken' = Taken /\ Taken <= c
      BY <2>1, <2>10 DEF Taken, Partition
    <3>2. Taken \in Nat /\ c \in Nat
      BY DEF Taken, TypeOK
    <3>3. \A w \in Workers : held'[w] = held[w]
      BY <2>10
    <3>4. c \notin results /\ \A w \in Workers : c \notin held[w]
      BY <2>1, <2>3 DEF Partition
    <3> HIDE DEF c
    <3>5. ASSUME NEW d \in Chunks
          PROVE  /\ d \in Queued' => d < produced_count' /\ d >= Taken' /\ d \notin results'
                 /\ d \in results' => d < produced_count' /\ d >= Taken'
                 /\ \A w \in Workers : d \in held'[w] =>
                       /\ d < produced_count' /\ d >= Taken' /\ d \notin Queued' /\ d \notin results'
                       /\ \A v \in Workers : d \in held'[v] => v = w
                 /\ d < produced_count' /\ d >= Taken' /\ d \notin Queued' /\ d \notin results'
                      => \E w \in Workers : d \in held'[w]
      <4>0. c = produced_count
        BY DEF c
      <4>1. d \in Nat
        BY DEF Chunks
      <4>2. CASE d = c
        BY <2>1, <3>1, <3>2, <3>3, <3>4, <4>0, <4>2
      <4>3. CASE d # c
        <5>1. d < c + 1 <=> d < c
          BY <3>2, <4>1, <4>3
        <5>2. d \in Queued' <=> d \in Queued
          BY <2>1, <4>3
        <5>3. results' = results /\ produced_count' = c + 1
          BY <2>1
        <5>4. d < c + 1 => d < c
          BY <5>1
        <5>5. d < produced_count' <=> d < produced_count
          BY <5>1, <5>3, <4>0
        <5> QED BY <3>1, <3>3, <5>2, <5>3, <5>5 DEF Partition
      <4> QED BY <4>2, <4>3
    <3>6. Taken' <= produced_count'
      BY <2>1, <3>1, <3>2
    <3> QED BY <3>5, <3>6 DEF Partition
  <2>14. BufferedExact'
    <3>1. Target \in Nat
      BY DEF Target
    <3> QED BY <2>1, <2>5, <3>1 DEF BufferedExact, Full, TypeOK
  <2> QED BY <2>9, <2>11, <2>12, <2>13, <2>14
<1> QED
  BY <1>1, <1>2, <1>3, <1>4 DEF Producer

--------------------------------------------------------------------------------
(* A worker preserves the invariant.                                           *)

LEMMA WorkerStep ==
    ASSUME IInv, NEW w \in Workers, Worker(w)
    PROVE  IInv'
<1> USE WorkersAssumption, OptionsAssumption
        DEF IInv, Actors, queueVars, stateVars, errVars, writerVars
<1>0. w \in Actors /\ w # "producer" /\ w # "writer"
  OBVIOUS
<1>1. CASE WorkerTop(w) \/ PopNothing(w) \/ Compress(w) \/ CompressFails(w) \/ StopAfterError(w)
  <2>1. /\ UNCHANGED <<queueVars, produced_count, producer_eof, results, producer, held, writerVars>>
        /\ \A v \in Workers : v # w => worker'[v] = worker[v]
        /\ worker'[w] \in {"done", "pop", "insert", "fail", worker[w]}
        /\ worker'[w] = "pop" => worker[w] \in {"top", "pop"}
    BY <1>0, <1>1 DEF WorkerTop, PopNothing, Compress, CompressFails, StopAfterError, TypeOK
  <2>2. worker' \in [Workers -> WorkerPlaces]
    BY <1>0, <1>1 DEF WorkerTop, PopNothing, Compress, CompressFails, StopAfterError,
                      TypeOK, WorkerPlaces
  <2>3. waiters' \subseteq Actors
    BY <1>0, <1>1 DEF WorkerTop, PopNothing, Compress, CompressFails, StopAfterError, TypeOK
  <2>4. stopped' \in BOOLEAN /\ err_slot' \in BOOLEAN /\ err_flag' \in BOOLEAN
    BY <1>1 DEF WorkerTop, PopNothing, Compress, CompressFails, StopAfterError, RecordError, TypeOK
  <2>5. TypeOK'
    BY <2>1, <2>2, <2>3, <2>4 DEF TypeOK
  <2>6. Hands'
    BY <2>1 DEF Hands, TypeOK
  <2>7. Frames' /\ Partition' /\ BufferedExact'
    BY <2>1 DEF Frames, Partition, Taken, BufferedExact, Queued
  <2> QED BY <2>5, <2>6, <2>7
<1>2. CASE Pop(w)
  <2> DEFINE batch == Batch(w)
  <2>1. /\ batch \subseteq Queued
        /\ batch \cap QueueOf(w) = batch
    BY DEF Batch, Suitable, QueueOf, Queued
  <2>2. /\ queue' = queue \ batch /\ cpu_queue' = cpu_queue \ batch
        /\ gpu_queue' = gpu_queue \ batch
        /\ buffered_bytes' = Minus(buffered_bytes, RawBytes[batch])
        /\ waiters' \in {{}, waiters}
        /\ held' = [held EXCEPT ![w] = batch]
        /\ worker[w] = "pop" /\ worker' = [worker EXCEPT ![w] = "compress"]
        /\ UNCHANGED <<stateVars, errVars, producer, writerVars>>
    BY <1>2 DEF Pop, Remove, BufferedAfter, StillAsleep
  <2> HIDE DEF batch
  <2>3. Queued' = Queued \ batch
    BY <2>2 DEF Queued
  <2>4. Queued \subseteq Chunks
    BY DEF Queued, TypeOK
  <2>5. /\ held'[w] = batch
        /\ \A a \in Actors : a # w => held'[a] = held[a]
        /\ worker'[w] = "compress"
        /\ \A v \in Workers : v # w => worker'[v] = worker[v]
        /\ held[w] = {}
    BY <1>0, <2>2 DEF TypeOK, Hands
  <2>6. RawBytes[Queued \ batch] = RawBytes[Queued] - RawBytes[batch]
           /\ RawBytes[batch] <= RawBytes[Queued]
           /\ RawBytes[batch] \in Nat
    <3>1. Additive(RawBytes, Chunks)
      BY BytesAssumption
    <3>2. Queued \in SUBSET Chunks /\ batch \in SUBSET Queued /\ batch \in SUBSET Chunks
      BY <2>1, <2>4
    <3>3. RawBytes[Queued \ batch] = RawBytes[Queued] - RawBytes[batch]
             /\ RawBytes[batch] <= RawBytes[Queued]
      BY <3>1, <3>2, BytesOfPart
    <3>4. RawBytes[batch] \in Nat
      BY <3>1, <3>2, BytesType
    <3> QED BY <3>3, <3>4
  <2>7. buffered_bytes' \in Nat /\ buffered_bytes' = RawBytes[Queued'] /\ buffered_bytes' <= buffered_bytes
    BY <2>2, <2>3, <2>6 DEF Minus, BufferedExact, TypeOK
  <2>8. worker' \in [Workers -> WorkerPlaces]
    BY <2>2 DEF TypeOK, WorkerPlaces
  <2>9. held' \in [Actors -> SUBSET Chunks]
    BY <2>1, <2>2, <2>4 DEF TypeOK
  <2>10. waiters' \subseteq Actors /\ queue' \subseteq Chunks /\ cpu_queue' \subseteq Chunks
         /\ gpu_queue' \subseteq Chunks
    BY <2>2 DEF TypeOK
  <2>11. TypeOK'
    BY <2>2, <2>7, <2>8, <2>9, <2>10 DEF TypeOK
  <2>12. Hands'
    BY <1>0, <2>2, <2>5 DEF Hands
  <2>13. Frames'
    BY <1>0, <2>2, <2>5 DEF Frames
  <2>14. Partition'
    <3>1. Taken' = Taken
      BY <1>0, <2>2, <2>5 DEF Taken
    <3>2. ASSUME NEW c \in Chunks
          PROVE  /\ c \in Queued' => c < produced_count' /\ c >= Taken' /\ c \notin results'
                 /\ c \in results' => c < produced_count' /\ c >= Taken'
                 /\ \A v \in Workers : c \in held'[v] =>
                       /\ c < produced_count' /\ c >= Taken' /\ c \notin Queued' /\ c \notin results'
                       /\ \A u \in Workers : c \in held'[u] => u = v
                 /\ c < produced_count' /\ c >= Taken' /\ c \notin Queued' /\ c \notin results'
                      => \E v \in Workers : c \in held'[v]
      BY <2>1, <2>2, <2>3, <2>5, <3>1 DEF Partition
    <3> QED BY <2>2, <3>1, <3>2 DEF Partition
  <2>15. BufferedExact'
    <3>1. Target \in Nat /\ ChunkSize \in Nat
      BY DEF Target
    <3> QED BY <2>7, <3>1 DEF BufferedExact, TypeOK
  <2> QED BY <2>11, <2>12, <2>13, <2>14, <2>15
<1>3. CASE Insert(w)
  <2>1. /\ results' = results \union held[w] /\ waiters' = {}
        /\ held' = [held EXCEPT ![w] = {}] /\ worker' = [worker EXCEPT ![w] = "top"]
        /\ UNCHANGED <<queueVars, produced_count, producer_eof, stopped, errVars, producer,
                       writerVars>>
    BY <1>3 DEF Insert
  <2>2. worker' \in [Workers -> WorkerPlaces]
    BY <2>1 DEF TypeOK, WorkerPlaces
  <2>3. held' \in [Actors -> SUBSET Chunks] /\ results' \subseteq Chunks
    BY <1>0, <2>1 DEF TypeOK
  <2>4. TypeOK'
    BY <2>1, <2>2, <2>3 DEF TypeOK
  <2>5. /\ held'[w] = {} /\ \A a \in Actors : a # w => held'[a] = held[a]
        /\ \A v \in Workers : v # w => worker'[v] = worker[v]
    BY <1>0, <2>1 DEF TypeOK
  <2>6. Hands'
    BY <1>0, <2>1, <2>5 DEF Hands
  <2>7. Frames' /\ BufferedExact'
    BY <1>0, <2>1, <2>5 DEF Frames, BufferedExact, Queued
  <2>8. Partition'
    <3>1. Taken' = Taken
      BY <1>0, <2>1, <2>5 DEF Taken
    <3>2. Queued' = Queued
      BY <2>1 DEF Queued
    <3>3. ASSUME NEW c \in Chunks
          PROVE  /\ c \in Queued' => c < produced_count' /\ c >= Taken' /\ c \notin results'
                 /\ c \in results' => c < produced_count' /\ c >= Taken'
                 /\ \A v \in Workers : c \in held'[v] =>
                       /\ c < produced_count' /\ c >= Taken' /\ c \notin Queued' /\ c \notin results'
                       /\ \A u \in Workers : c \in held'[u] => u = v
                 /\ c < produced_count' /\ c >= Taken' /\ c \notin Queued' /\ c \notin results'
                      => \E v \in Workers : c \in held'[v]
      BY <2>1, <2>5, <3>1, <3>2 DEF Partition
    <3> QED BY <2>1, <3>1, <3>3 DEF Partition
  <2> QED BY <2>4, <2>6, <2>7, <2>8
<1> QED
  BY <1>1, <1>2, <1>3 DEF Worker

--------------------------------------------------------------------------------
(* The calling thread preserves the invariant.                                 *)

LEMMA WriterStep ==
    ASSUME IInv, Writer
    PROVE  IInv'
<1> USE WorkersAssumption, OptionsAssumption
        DEF IInv, Actors, queueVars, stateVars, errVars, writerVars
<1>0. /\ "writer" \in Actors /\ "writer" \notin Workers /\ "writer" # "producer"
      /\ next_index \in 0 .. NumChunks /\ produced_count \in 0 .. NumChunks
      /\ Len(output) \in Nat
  BY DEF TypeOK
<1>1. CASE SeeError \/ SeeEnd \/ WriterSleep \/ CheckError \/ WriteFails \/ Join
  <2>1. /\ UNCHANGED <<queueVars, produced_count, producer_eof, results, producer, worker, held,
                       next_index, is_final, pending, output>>
    BY <1>1 DEF SeeError, SeeEnd, WriterSleep, CheckError, WriteFails, Join
  <2>2. writer' \in WriterPlaces
    BY <1>1 DEF SeeError, SeeEnd, WriterSleep, CheckError, WriteFails, Join, WriterPlaces, TypeOK
  <2>3. waiters' \subseteq Actors
    BY <1>1 DEF SeeError, SeeEnd, WriterSleep, CheckError, WriteFails, Join, TypeOK
  <2>4. stopped' \in BOOLEAN /\ err_slot' \in BOOLEAN /\ err_flag' \in BOOLEAN
        /\ result' \in {"none", "ok", "error"}
    BY <1>1 DEF SeeError, SeeEnd, WriterSleep, CheckError, WriteFails, Join, TypeOK
  <2>5. TypeOK'
    BY <2>1, <2>2, <2>3, <2>4 DEF TypeOK
  <2>6. Frames'
    <3>1. held["writer"] \in {{}, {next_index}, {next_index - 1}}
      BY DEF Frames
    <3>2. CASE SeeError \/ SeeEnd \/ WriterSleep
      BY <2>1, <3>2 DEF Frames, SeeError, SeeEnd, WriterSleep
    <3>3. CASE CheckError
      BY <1>0, <2>1, <3>3 DEF Frames, CheckError
    <3>4. CASE WriteFails \/ Join
      BY <2>1, <3>4 DEF Frames, WriteFails, Join
    <3> QED BY <1>1, <3>2, <3>3, <3>4
  <2>7. Hands' /\ Partition' /\ BufferedExact'
    BY <2>1 DEF Hands, Partition, Taken, BufferedExact, Queued
  <2> QED BY <2>5, <2>6, <2>7
<1>2. CASE TakeResult
  <2>1. /\ results' = results \ {next_index} /\ next_index \in results
        /\ held' = [held EXCEPT !["writer"] = {next_index}]
        /\ writer = "next" /\ writer' = "check_error"
        /\ UNCHANGED <<queueVars, produced_count, producer_eof, stopped, waiters, errVars,
                       producer, worker, next_index, pending, output, result>>
    BY <1>2 DEF TakeResult
  <2>2. writer' \in WriterPlaces
    BY <2>1 DEF WriterPlaces
  <2>3. is_final' \in BOOLEAN
    BY <1>2 DEF TakeResult, IsFinal, TypeOK
  <2>4. next_index \in Chunks
    BY <2>1 DEF TypeOK
  <2>5. held' \in [Actors -> SUBSET Chunks] /\ results' \subseteq Chunks
    BY <2>1, <2>4 DEF TypeOK
  <2>6. TypeOK'
    BY <2>1, <2>2, <2>3, <2>5 DEF TypeOK
  <2>7. /\ held'["writer"] = {next_index}
        /\ held'["producer"] = held["producer"]
        /\ \A v \in Workers : held'[v] = held[v]
        /\ held["writer"] = {}
    BY <1>0, <2>1 DEF TypeOK, Frames
  <2>8. Hands' /\ BufferedExact'
    BY <2>1, <2>7 DEF Hands, BufferedExact, Queued
  <2>9. Frames'
    <3>1. \/ pending = {} /\ Len(output) = next_index
          \/ pending = {Len(output)} /\ Len(output) + 1 = next_index
      BY <2>7 DEF Frames
    <3>2. held'["writer"] = {next_index'} /\ {next_index} # {next_index - 1}
      BY <1>0, <2>1, <2>7
    <3>3. \A k \in 1 .. Len(output) : output[k].chunk = k - 1
      BY DEF Frames
    <3> QED BY <2>1, <3>1, <3>2, <3>3 DEF Frames
  <2>10. Partition'
    <3>1. Taken = next_index /\ Taken' = next_index + 1
      BY <2>1, <2>7 DEF Taken
    <3>2. Queued' = Queued /\ produced_count' = produced_count
      BY <2>1 DEF Queued
    <3>3. next_index < produced_count
      BY <2>1, <2>4 DEF Partition
    <3>4. ASSUME NEW c \in Chunks
          PROVE  /\ c \in Queued' => c < produced_count' /\ c >= Taken' /\ c \notin results'
                 /\ c \in results' => c < produced_count' /\ c >= Taken'
                 /\ \A v \in Workers : c \in held'[v] =>
                       /\ c < produced_count' /\ c >= Taken' /\ c \notin Queued' /\ c \notin results'
                       /\ \A u \in Workers : c \in held'[u] => u = v
                 /\ c < produced_count' /\ c >= Taken' /\ c \notin Queued' /\ c \notin results'
                      => \E v \in Workers : c \in held'[v]
      <4>1. c \in Nat
        BY DEF Chunks
      <4>2. c # next_index => (c >= Taken' <=> c >= Taken)
        BY <1>0, <3>1, <4>1
      <4>3. ~(next_index >= Taken') /\ next_index >= Taken
        BY <1>0, <3>1
      <4>4. next_index \notin Queued /\ next_index \in results
        BY <2>1, <2>4 DEF Partition
      <4>5. CASE c = next_index
        <5>1. \A v \in Workers : c \notin held[v]
          BY <2>1, <4>5 DEF Partition
        <5> QED BY <2>1, <2>7, <3>2, <4>3, <4>4, <4>5, <5>1
      <4>6. CASE c # next_index
        <5>1. c \in results' <=> c \in results
          BY <2>1, <4>6
        <5> QED BY <2>7, <3>2, <4>2, <4>6, <5>1 DEF Partition
      <4> QED BY <4>5, <4>6
    <3> QED BY <1>0, <3>1, <3>2, <3>3, <3>4 DEF Partition
  <2> QED BY <2>6, <2>8, <2>9, <2>10
<1>3. CASE WritePrev
  <2>0. /\ held["writer"] = {next_index} /\ writer = "write_prev"
        /\ Taken = next_index + 1
    BY <1>3 DEF WritePrev, Frames, Taken
  <2>1. /\ next_index' = next_index + 1 /\ pending' = {}
        /\ writer' \in {"write_final", "hold"}
        /\ UNCHANGED <<queueVars, stateVars, waiters, errVars, producer, worker, held,
                       is_final, result>>
    BY <1>3 DEF WritePrev
  <2>2. writer' \in WriterPlaces
    BY <2>1 DEF WriterPlaces
  <2>3. next_index' \in 0 .. NumChunks
    <3>1. Taken <= produced_count
      BY DEF Partition
    <3> QED BY <1>0, <2>0, <2>1, <3>1
  <2>4. /\ \/ pending = {} /\ output' = output
           \/ /\ pending = {Len(output)}
              /\ output' = Append(output, [chunk |-> Len(output), final |-> FALSE])
        /\ Len(output) + (IF pending = {} THEN 0 ELSE 1) = next_index
    <3>1. \/ pending = {} /\ Len(output) = next_index
          \/ pending = {Len(output)} /\ Len(output) + 1 = next_index
      BY <1>0, <2>0 DEF Frames
    <3>2. CASE pending = {}
      BY <1>0, <1>3, <3>1, <3>2 DEF WritePrev
    <3>3. CASE pending = {Len(output)} /\ Len(output) + 1 = next_index
      <4>1. (CHOOSE c \in pending : TRUE) = Len(output)
        BY <3>3
      <4>2. pending # {}
        BY <3>3
      <4> QED BY <1>0, <1>3, <3>3, <4>1, <4>2 DEF WritePrev
    <3> QED BY <3>1, <3>2, <3>3
  <2>5. /\ output' \in Seq([chunk : Chunks, final : BOOLEAN])
        /\ Len(output') = next_index
        /\ \A k \in 1 .. Len(output') : output'[k].chunk = k - 1
    <3>1. CASE pending = {} /\ output' = output
      BY <1>0, <2>4, <3>1 DEF Frames, TypeOK
    <3>2. CASE /\ pending = {Len(output)}
               /\ output' = Append(output, [chunk |-> Len(output), final |-> FALSE])
      <4>1. Len(output) \in Chunks /\ output \in Seq([chunk : Chunks, final : BOOLEAN])
        BY <3>2 DEF TypeOK
      <4>2. [chunk |-> Len(output), final |-> FALSE] \in [chunk : Chunks, final : BOOLEAN]
        BY <4>1
      <4>3. /\ output' \in Seq([chunk : Chunks, final : BOOLEAN])
            /\ Len(output') = Len(output) + 1
        BY <3>2, <4>1, <4>2
      <4>4. ASSUME NEW k \in 1 .. Len(output) + 1
            PROVE  output'[k].chunk = k - 1
        <5>1. CASE k \in 1 .. Len(output)
          BY <3>2, <4>1, <5>1 DEF Frames
        <5>2. CASE k = Len(output) + 1
          BY <3>2, <4>1, <5>2
        <5> QED BY <1>0, <5>1, <5>2
      <4> QED BY <1>0, <2>4, <3>2, <4>3, <4>4
    <3> QED BY <2>4, <3>1, <3>2
  <2>6. TypeOK'
    BY <2>1, <2>2, <2>3, <2>5 DEF TypeOK
  <2>7. Frames'
    <3>1. held'["writer"] = {next_index' - 1} /\ Len(output') + 1 = next_index' /\ pending' = {}
      BY <1>0, <2>0, <2>1, <2>5
    <3> QED BY <1>0, <2>1, <2>5, <3>1 DEF Frames
  <2>8. Taken' = Taken
    BY <1>0, <2>0, <2>1 DEF Taken
  <2>9. Hands' /\ Partition' /\ BufferedExact'
    BY <2>1, <2>8 DEF Hands, Partition, BufferedExact, Queued
  <2> QED BY <2>6, <2>7, <2>9
<1>4. CASE WriteFinal \/ Hold
  <2>0. /\ held["writer"] = {next_index - 1}
        /\ pending = {} /\ Len(output) + 1 = next_index
        /\ writer \in {"write_final", "hold"} /\ writer' = "next"
        /\ Taken = next_index
    <3>1. writer \in {"write_final", "hold"} /\ writer' = "next"
      BY <1>4 DEF WriteFinal, Hold
    <3>2. held["writer"] = {next_index - 1}
      BY <3>1 DEF Frames
    <3>3. {next_index - 1} \notin {{}, {next_index}} /\ next_index \notin {next_index - 1}
      BY <1>0
    <3>4. pending = {} /\ Len(output) + 1 = next_index
      BY <3>2, <3>3 DEF Frames
    <3> QED BY <3>1, <3>2, <3>3, <3>4 DEF Taken
  <2>1. /\ held' = [held EXCEPT !["writer"] = {}]
        /\ UNCHANGED <<queueVars, stateVars, waiters, errVars, producer, worker, next_index, result>>
    BY <1>4 DEF WriteFinal, Hold
  <2>2. held' \in [Actors -> SUBSET Chunks]
    BY <2>1 DEF TypeOK
  <2>3. /\ held'["writer"] = {} /\ held'["producer"] = held["producer"]
        /\ \A v \in Workers : held'[v] = held[v]
    BY <1>0, <2>1 DEF TypeOK
  <2>4. next_index - 1 \in Chunks /\ next_index - 1 = Len(output)
    BY <1>0, <2>0 DEF TypeOK
  <2>5. writer' \in WriterPlaces
    BY <2>0 DEF WriterPlaces
  <2>6. /\ output' \in Seq([chunk : Chunks, final : BOOLEAN])
        /\ \A k \in 1 .. Len(output') : output'[k].chunk = k - 1
        /\ \/ pending' = {} /\ Len(output') = next_index
           \/ pending' = {Len(output')} /\ Len(output') + 1 = next_index
        /\ is_final' \in BOOLEAN /\ pending' \subseteq Chunks
    <3>1. CASE WriteFinal
      <4>1. output \in Seq([chunk : Chunks, final : BOOLEAN])
        BY DEF TypeOK
      <4>2. /\ output' = Append(output, [chunk |-> Len(output), final |-> TRUE])
            /\ is_final' = FALSE /\ pending' = {}
        BY <2>0, <2>4, <3>1 DEF WriteFinal
      <4>3. [chunk |-> Len(output), final |-> TRUE] \in [chunk : Chunks, final : BOOLEAN]
        BY <2>4
      <4>4. /\ output' \in Seq([chunk : Chunks, final : BOOLEAN])
            /\ Len(output') = Len(output) + 1
        BY <4>1, <4>2, <4>3
      <4>5. ASSUME NEW k \in 1 .. Len(output) + 1
            PROVE  output'[k].chunk = k - 1
        <5>1. CASE k \in 1 .. Len(output)
          BY <4>1, <4>2, <5>1 DEF Frames
        <5>2. CASE k = Len(output) + 1
          BY <4>1, <4>2, <5>2
        <5> QED BY <1>0, <5>1, <5>2
      <4> QED BY <2>0, <4>2, <4>4, <4>5
    <3>2. CASE Hold
      BY <1>0, <2>0, <2>4, <3>2 DEF Hold, Frames, TypeOK
    <3> QED BY <1>4, <3>1, <3>2
  <2>7. TypeOK'
    BY <2>1, <2>2, <2>5, <2>6 DEF TypeOK
  <2>8. Frames'
    <3>1. held'["writer"] # {next_index' - 1}
      BY <2>3
    <3> QED BY <2>0, <2>1, <2>3, <2>6, <3>1 DEF Frames
  <2>9. Taken' = Taken
    BY <2>0, <2>1, <2>3 DEF Taken
  <2>10. Hands' /\ BufferedExact'
    BY <2>1, <2>3 DEF Hands, BufferedExact, Queued
  <2>11. Partition'
    BY <2>1, <2>3, <2>9 DEF Partition, Queued
  <2> QED BY <2>7, <2>8, <2>10, <2>11
<1> QED
  BY <1>1, <1>2, <1>3, <1>4 DEF Writer

--------------------------------------------------------------------------------
(* The invariant, and what follows from it.                                    *)

LEMMA InitInv == Init => IInv
<1> SUFFICES ASSUME Init PROVE IInv
  OBVIOUS
<1> USE WorkersAssumption, OptionsAssumption DEF Init
<1>1. Queued = {} /\ RawBytes[{}] = 0
  BY BytesAssumption DEF Queued, Additive
<1>2. worker \in [Workers -> WorkerPlaces] /\ producer \in ProducerPlaces /\ writer \in WriterPlaces
  BY DEF WorkerPlaces, ProducerPlaces, WriterPlaces
<1>3. output \in Seq([chunk : Chunks, final : BOOLEAN]) /\ Len(output) = 0
  OBVIOUS
<1>3a. held \in [Actors -> SUBSET Chunks] /\ produced_count \in 0 .. NumChunks
       /\ next_index \in 0 .. NumChunks
  OBVIOUS
<1>4. TypeOK
  BY <1>2, <1>3, <1>3a DEF TypeOK
<1>5. \A a \in Actors : held[a] = {}
  OBVIOUS
<1>6. "producer" \in Actors /\ "writer" \in Actors /\ Workers \subseteq Actors
  BY DEF Actors
<1>7. Hands /\ Frames
  BY <1>3, <1>5, <1>6 DEF Hands, Frames
<1>8. Partition
  BY <1>1, <1>5, <1>6 DEF Partition, Taken, Chunks
<1>9. BufferedExact
  BY <1>1 DEF BufferedExact, Target
<1> QED BY <1>4, <1>7, <1>8, <1>9 DEF IInv

LEMMA StepInv == ASSUME IInv, [Next]_vars PROVE IInv'
<1>1. CASE SpuriousWake
  <2>1. waiters' \subseteq waiters
        /\ UNCHANGED <<queueVars, stateVars, errVars, producer, worker, held, writerVars>>
    BY <1>1 DEF SpuriousWake
  <2> QED BY <2>1 DEF IInv, TypeOK, Hands, Frames, Partition, Taken, BufferedExact, Queued,
                      queueVars, stateVars, errVars, writerVars
<1>2. CASE Returned \/ UNCHANGED vars
  <2>1. UNCHANGED <<queueVars, stateVars, waiters, errVars, producer, worker, held, writerVars>>
    BY <1>2 DEF Returned, vars
  <2>2. TypeOK'
    BY <2>1 DEF IInv, TypeOK, queueVars, stateVars, errVars, writerVars
  <2>3. Hands' /\ Frames' /\ Partition' /\ BufferedExact'
    BY <2>1 DEF IInv, Hands, Frames, Partition, Taken, BufferedExact, Queued,
                queueVars, stateVars, errVars, writerVars
  <2> QED BY <2>2, <2>3 DEF IInv
<1> QED BY <1>1, <1>2, ProducerStep, WorkerStep, WriterStep DEF Next

LEMMA Invariance == Spec => []IInv
<1> QED BY InitInv, StepInv, PTL DEF Spec

\* The types are right in every state of every run, whatever the options.
THEOREM TypeCorrect == Spec => []TypeOK
<1>1. IInv => TypeOK
  BY DEF IInv
<1> QED BY <1>1, Invariance, PTL

\* The throttle's counter is the weight of the three queues and never a whole
\* chunk past the target, whichever worker takes how much.
THEOREM Buffered == Spec => []BufferedExact
<1>1. IInv => BufferedExact
  BY DEF IInv
<1> QED BY <1>1, Invariance, PTL

LEMMA WrittenIsPrefix ==
    ASSUME TypeOK, Frames
    PROVE  Written = 0 .. Len(output) - 1
<1>1. Len(output) \in Nat
  BY DEF TypeOK
<1>2. \A k \in 1 .. Len(output) : output[k].chunk = k - 1
  BY DEF Frames
<1>3. ASSUME NEW c \in 0 .. Len(output) - 1
      PROVE  c \in Written
  <2>1. c + 1 \in 1 .. Len(output) /\ output[c + 1].chunk = c
    BY <1>1, <1>2
  <2> QED BY <2>1 DEF Written
<1>4. Written \subseteq 0 .. Len(output) - 1
  BY <1>1, <1>2 DEF Written
<1> QED BY <1>3, <1>4

\* No chunk that was produced is lost, doubled or shared, whatever fails.
THEOREM Ownership == Spec => []ChunkOwnership
<1>1. IInv => ChunkOwnership
  <2> SUFFICES ASSUME IInv PROVE ChunkOwnership
    OBVIOUS
  <2> USE WorkersAssumption, OptionsAssumption DEF IInv, Actors
  <2>1. /\ next_index \in Nat /\ produced_count \in 0 .. NumChunks /\ Len(output) \in Nat
        /\ Taken \in Nat /\ Taken <= produced_count
    BY DEF TypeOK, Taken, Partition
  <2>2. Written = 0 .. Len(output) - 1
    BY WrittenIsPrefix
  <2>3. /\ Written \union pending \union held["writer"] = 0 .. Taken - 1
        /\ Written \intersect pending = {}
        /\ held["writer"] \intersect (Written \union pending) = {}
    <3>1. CASE /\ pending = {} /\ Len(output) = next_index
               /\ held["writer"] \in {{}, {next_index}}
      BY <2>1, <2>2, <3>1 DEF Taken
    <3>2. CASE /\ pending = {Len(output)} /\ Len(output) + 1 = next_index
               /\ held["writer"] \in {{}, {next_index}}
      BY <2>1, <2>2, <3>2 DEF Taken
    <3>3. CASE /\ pending = {} /\ Len(output) + 1 = next_index
               /\ held["writer"] = {next_index - 1}
      BY <2>1, <2>2, <3>3 DEF Taken
    <3> QED BY <3>1, <3>2, <3>3 DEF Frames
  <2>4. /\ Queued \subseteq Chunks /\ results \subseteq Chunks
        /\ \A w \in Workers : held[w] \subseteq Chunks
    BY DEF TypeOK, Queued
  <2>5. /\ \A c \in Queued : c \in Taken .. produced_count - 1 /\ c \notin results
        /\ \A c \in results : c \in Taken .. produced_count - 1
        /\ \A w \in Workers : \A c \in held[w] :
              c \in Taken .. produced_count - 1 /\ c \notin Queued /\ c \notin results
        /\ \A v, w \in Workers : v # w => held[v] \intersect held[w] = {}
    BY <2>1, <2>4 DEF Partition, Chunks
  <2>6. \A c \in Taken .. produced_count - 1 :
           c \in Queued \/ c \in results \/ \E w \in Workers : c \in held[w]
    BY <2>1 DEF Partition, Chunks
  <2>7. held["producer"] \subseteq {produced_count}
    BY DEF Hands
  <2>8. UNION {held[a] : a \in Actors} =
           (UNION {held[w] : w \in Workers}) \union held["producer"] \union held["writer"]
    OBVIOUS
  <2> DEFINE inHands == UNION {held[w] : w \in Workers}
  <2>9. \A c : c \in inHands <=> \E w \in Workers : c \in held[w]
    OBVIOUS
  <2> HIDE DEF inHands
  <2>10. Queued \union results \union inHands = Taken .. produced_count - 1
    BY <2>5, <2>6, <2>9
  <2>11. (0 .. Taken - 1) \union (Taken .. produced_count - 1) = 0 .. produced_count - 1
    BY <2>1
  <2>12. (0 .. produced_count - 1) \union held["producer"] =
          Queued \union results \union pending \union Written
             \union UNION {held[a] : a \in Actors}
    BY <2>3, <2>8, <2>10, <2>11 DEF inHands
  <2>13. (0 .. Taken - 1) \intersect (Taken .. produced_count - 1) = {}
    BY <2>1
  <2>14. /\ Queued \intersect (results \union pending \union Written) = {}
         /\ results \intersect (pending \union Written) = {}
         /\ \A w \in Workers :
               held[w] \intersect (Queued \union results \union pending \union Written) = {}
         /\ \A w \in Workers : held[w] \intersect held["writer"] = {}
         /\ held["writer"] \intersect (Queued \union results \union pending \union Written) = {}
    BY <2>3, <2>5, <2>13
  <2>15. /\ produced_count \notin 0 .. Taken - 1
         /\ produced_count \notin Taken .. produced_count - 1
    BY <2>1
  <2>16. /\ held["producer"] \intersect (Queued \union results \union pending \union Written) = {}
         /\ held["producer"] \intersect held["writer"] = {}
         /\ \A w \in Workers : held["producer"] \intersect held[w] = {}
    BY <2>3, <2>5, <2>7, <2>15
  <2> QED BY <2>3, <2>5, <2>12, <2>14, <2>16 DEF ChunkOwnership
<1> QED BY <1>1, Invariance, PTL

--------------------------------------------------------------------------------
(* The end of the input, and the errors.                                       *)

LEMMA EndsOfProducer ==
    ASSUME IInv, Ends, Producer
    PROVE  Ends'
<1> USE WorkersAssumption DEF IInv, Ends, AllTaken, queueVars, stateVars, errVars, writerVars
<1>1. producer # "done" /\ ~producer_eof /\ writer # "returned" /\ ~AllTaken
  BY DEF Producer, ReadFails, ReadChunk, ProducerSleep, ProducerGivesUp, ProducerEof, Enqueue,
         StopAfterError, AllJoined
<1>2. UNCHANGED <<writer, next_index, result>> /\ held'["writer"] = held["writer"]
  BY DEF Producer, ReadFails, ReadChunk, ProducerSleep, ProducerGivesUp, ProducerEof, Enqueue,
         StopAfterError, TypeOK, Actors
<1>3. CASE ReadFails
  BY <1>1, <1>2, <1>3 DEF ReadFails, RecordError, TypeOK
<1>4. CASE ReadChunk \/ ProducerSleep \/ ProducerGivesUp \/ StopAfterError("producer") \/ Enqueue
  <2>1. UNCHANGED <<producer_eof, errVars>>
    BY <1>4 DEF ReadChunk, ProducerSleep, ProducerGivesUp, StopAfterError, Enqueue
  <2> QED BY <1>1, <1>2, <2>1
<1>5. CASE ProducerEof
  <2>1. produced_count = NumChunks
    BY <1>5, OptionsAssumption DEF ProducerEof, Hands, Chunks, TypeOK
  <2>2. producer' = "done" /\ UNCHANGED <<produced_count, errVars>>
    BY <1>5 DEF ProducerEof
  <2> QED BY <1>1, <1>2, <2>1, <2>2
<1> QED BY <1>3, <1>4, <1>5 DEF Producer

LEMMA EndsOfWorker ==
    ASSUME IInv, Ends, NEW w \in Workers, Worker(w)
    PROVE  Ends'
<1> USE WorkersAssumption DEF IInv, Ends, AllTaken, queueVars, stateVars, errVars, writerVars
<1>1. worker[w] # "done" /\ writer # "returned"
  BY DEF Worker, WorkerTop, Pop, PopNothing, Compress, CompressFails, Insert, StopAfterError,
         AllJoined
<1>2. /\ UNCHANGED <<writer, next_index, result, produced_count, producer_eof, producer>>
      /\ held'["writer"] = held["writer"]
  BY DEF Worker, WorkerTop, Pop, PopNothing, Compress, CompressFails, Insert, StopAfterError,
         TypeOK, Actors
<1>3. CASE CompressFails(w)
  <2>1. err_slot' = TRUE /\ err_flag' = (err_flag \/ ~err_slot)
    BY <1>3 DEF CompressFails, RecordError
  <2>2. err_flag \/ ~err_slot
    BY DEF TypeOK
  <2>3. err_slot' /\ err_flag'
    BY <2>1, <2>2
  <2> QED BY <1>1, <1>2, <2>3
<1>4. CASE ~CompressFails(w)
  <2>1. UNCHANGED errVars
    BY <1>4 DEF Worker, WorkerTop, Pop, PopNothing, Compress, Insert, StopAfterError
  <2> QED BY <1>1, <1>2, <2>1
<1> QED BY <1>3, <1>4

LEMMA EndsOfWriter ==
    ASSUME IInv, Ends, Writer
    PROVE  Ends'
<1> USE WorkersAssumption DEF IInv, Ends, AllTaken, queueVars, stateVars, errVars, writerVars
<1>1. CASE SeeError \/ SeeEnd \/ WriterSleep
  BY <1>1 DEF SeeError, SeeEnd, WriterSleep, TypeOK
<1>2. CASE TakeResult
  <2>1. held'["writer"] = {next_index}
    BY <1>2 DEF TakeResult, TypeOK, Actors
  <2> QED BY <1>2, <2>1 DEF TakeResult
<1>3. CASE CheckError
  BY <1>3 DEF CheckError, TypeOK
<1>4. CASE WritePrev \/ WriteFinal \/ Hold \/ WriteFails
  <2>1. UNCHANGED <<queueVars, stateVars, errVars, producer, worker, result>>
    BY <1>4 DEF WritePrev, WriteFinal, Hold, WriteFails
  <2>2. writer \in {"write_prev", "write_final", "hold"}
        /\ writer' \in {"write_final", "hold", "next", "return_error"}
    BY <1>4 DEF WritePrev, WriteFinal, Hold, WriteFails
  <2> QED BY <2>1, <2>2
<1>5. CASE Join
  BY <1>5 DEF Join, AllJoined
<1> QED BY <1>1, <1>2, <1>3, <1>4, <1>5 DEF Writer

LEMMA EndsStep == ASSUME IInv, Ends, [Next]_vars PROVE Ends'
<1>1. CASE SpuriousWake \/ Returned \/ UNCHANGED vars
  BY <1>1 DEF SpuriousWake, Returned, vars, Ends, AllTaken, AllJoined,
              queueVars, stateVars, errVars, writerVars
<1> QED BY <1>1, EndsOfProducer, EndsOfWorker, EndsOfWriter DEF Next

LEMMA EndsInvariance == Spec => []Ends
<1>1. Init => Ends
  BY DEF Init, Ends
<1> QED BY <1>1, EndsStep, Invariance, PTL DEF Spec

--------------------------------------------------------------------------------
(* The frames.                                                                 *)

LEMMA FlagsStep ==
    ASSUME IInv, Ends, Flags, [Next]_vars
    PROVE  Flags'
<1> USE WorkersAssumption, OptionsAssumption
        DEF IInv, Flags, queueVars, stateVars, errVars, writerVars
<1>1. CASE Producer
  <2>1. UNCHANGED writerVars /\ held'["writer"] = held["writer"]
    BY <1>1 DEF Producer, ReadFails, ReadChunk, ProducerSleep, ProducerGivesUp, ProducerEof,
                Enqueue, StopAfterError, TypeOK, Actors
  <2> QED BY <2>1
<1>2. ASSUME NEW w \in Workers, Worker(w)
      PROVE  Flags'
  <2>1. UNCHANGED writerVars /\ held'["writer"] = held["writer"]
    BY <1>2 DEF Worker, WorkerTop, Pop, PopNothing, Compress, CompressFails, Insert,
                StopAfterError, TypeOK, Actors
  <2> QED BY <2>1
<1>3. CASE SeeError \/ SeeEnd \/ WriterSleep \/ CheckError \/ WriteFails \/ Join
  <2>1. UNCHANGED <<held, next_index, is_final, output>>
    BY <1>3 DEF SeeError, SeeEnd, WriterSleep, CheckError, WriteFails, Join
  <2>2. /\ is_final => writer' \in {"check_error", "write_prev", "return_error", "returned"}
        /\ is_final /\ writer' \in {"check_error", "write_prev"} => writer = "check_error"
        /\ writer' # "write_final"
    BY <1>3 DEF SeeError, SeeEnd, WriterSleep, CheckError, WriteFails, Join
  <2> QED BY <2>1, <2>2
<1>4. CASE TakeResult
  <2>1. /\ held'["writer"] = {next_index} /\ writer' = "check_error" /\ is_final' = IsFinal
        /\ UNCHANGED <<next_index, output>>
    BY <1>4 DEF TakeResult, TypeOK, Actors
  <2>2. IsFinal => next_index + 1 = NumChunks
    BY DEF IsFinal, Ends
  <2> QED BY <2>1, <2>2
<1>5. CASE WritePrev
  <2>1. /\ held["writer"] = {next_index} /\ next_index \in Chunks
        /\ Len(output) \in Nat
    BY <1>5 DEF WritePrev, Frames, TypeOK, Actors
  <2>2. /\ next_index' = next_index + 1 /\ is_final' = is_final
        /\ writer' = IF is_final THEN "write_final" ELSE "hold"
    BY <1>5 DEF WritePrev
  <2>3. CASE pending = {}
    BY <1>5, <2>1, <2>2, <2>3 DEF WritePrev
  <2>4. CASE pending # {}
    <3>1. {next_index} # {next_index - 1}
      BY <2>1 DEF Chunks
    <3>2. Len(output) + 1 = next_index
      BY <2>1, <2>4, <3>1 DEF Frames
    <3> DEFINE frame == [chunk |-> CHOOSE c \in pending : TRUE, final |-> FALSE]
    <3>2a. output' = Append(output, frame) /\ output \in Seq([chunk : Chunks, final : BOOLEAN])
      BY <1>5, <2>4 DEF WritePrev, TypeOK
    <3>2b. ~frame.final
      OBVIOUS
    <3> HIDE DEF frame
    <3>3. /\ Len(output') = next_index
          /\ \A k \in 1 .. Len(output) : output'[k] = output[k]
          /\ ~output'[next_index].final
      BY <2>1, <3>2, <3>2a, <3>2b
    <3>4. next_index # NumChunks /\ next_index \in Nat
      BY <2>1 DEF Chunks
    <3>5. \A k \in 1 .. Len(output') : output'[k].final <=> k = NumChunks
      BY <2>1, <3>2, <3>3, <3>4
    <3> QED BY <1>5, <2>2, <3>5 DEF WritePrev
  <2> QED BY <2>3, <2>4
<1>6. CASE WriteFinal
  <2>1. /\ next_index = NumChunks /\ Len(output) + 1 = next_index
        /\ Len(output) \in Nat
    <3>1. writer = "write_final" /\ next_index \in Nat /\ Len(output) \in Nat
      BY <1>6 DEF WriteFinal, TypeOK
    <3>2. held["writer"] = {next_index - 1} /\ {next_index - 1} \notin {{}, {next_index}}
      BY <3>1 DEF Frames
    <3> QED BY <3>1, <3>2 DEF Frames
  <2>2. /\ Len(output') = NumChunks
        /\ \A k \in 1 .. Len(output) : output'[k] = output[k]
        /\ output'[NumChunks].final
    BY <1>6, <2>1 DEF WriteFinal, TypeOK
  <2>3. \A k \in 1 .. Len(output') : output'[k].final <=> k = NumChunks
    BY <2>1, <2>2
  <2> QED BY <1>6, <2>3 DEF WriteFinal
<1>7. CASE Hold
  BY <1>7 DEF Hold
<1>8. CASE SpuriousWake \/ Returned \/ UNCHANGED vars
  BY <1>8 DEF SpuriousWake, Returned, vars
<1> QED BY <1>1, <1>2, <1>3, <1>4, <1>5, <1>6, <1>7, <1>8 DEF Next, Writer

LEMMA FlagsInvariance == Spec => []Flags
<1>1. Init => Flags
  BY DEF Init, Flags
<1> QED BY <1>1, FlagsStep, Invariance, EndsInvariance, PTL DEF Spec

\* Frames leave in index order, and none but the last chunk's is marked final.
THEOREM InOrder == Spec => []FramesInOrder
<1>1. IInv /\ Flags => FramesInOrder
  BY DEF IInv, Frames, Flags, FramesInOrder
<1> QED BY <1>1, Invariance, FlagsInvariance, PTL

\* A call that returns "ok" has taken every chunk of its input from the workers
\* and written all of them but, possibly, the last.
THEOREM OkIsAlmostComplete == Spec => []OkMeansAllButLast
<1>1. IInv /\ Ends /\ Flags => OkMeansAllButLast
  <2> SUFFICES ASSUME IInv, Ends, Flags, result = "ok"
               PROVE  /\ produced_count = NumChunks
                      /\ Chunks \ Written \subseteq {NumChunks - 1}
                      /\ NumChunks - 1 \in Written => output[Len(output)].final
    BY DEF OkMeansAllButLast
  <2>1. next_index = NumChunks /\ produced_count = NumChunks
    BY DEF Ends, AllTaken
  <2>2. Written = 0 .. Len(output) - 1 /\ Len(output) \in Nat /\ NumChunks \in Nat
    BY WrittenIsPrefix, OptionsAssumption DEF IInv, TypeOK
  <2>3. Len(output) = NumChunks \/ Len(output) + 1 = NumChunks
    BY <2>1 DEF IInv, Frames
  <2>4. Chunks \ Written \subseteq {NumChunks - 1}
    BY <2>2, <2>3 DEF Chunks
  <2>5. ASSUME NumChunks - 1 \in Written
        PROVE  output[Len(output)].final
    <3>1. Len(output) = NumChunks /\ NumChunks \in 1 .. Len(output)
      BY <2>2, <2>3, <2>5
    <3> QED BY <3>1 DEF Flags
  <2> QED BY <2>1, <2>4, <2>5
<1> QED BY <1>1, Invariance, EndsInvariance, FlagsInvariance, PTL

--------------------------------------------------------------------------------
(* The compressor implements the ordered pipe.                                 *)

LEMMA PipeStep ==
    ASSUME IInv, Ends, [Next]_vars
    PROVE  [Pipe!Next]_(Pipe!vars)
<1> USE WorkersAssumption, OptionsAssumption
        DEF IInv, Actors, queueVars, stateVars, errVars, writerVars, Pipe!vars
<1>0. Len(output) \in Nat /\ next_index \in Nat /\ produced_count \in 0 .. NumChunks
      /\ output \in Seq([chunk : Chunks, final : BOOLEAN])
  BY DEF TypeOK
<1>1. CASE Enqueue
  <2>1. result = "none"
    BY <1>1 DEF Enqueue, Ends, AllJoined
  <2>2. produced_count \in Chunks
    BY <1>1 DEF Enqueue, Hands
  <2>3. produced_count' = produced_count + 1 /\ UNCHANGED <<output, result>>
    BY <1>1 DEF Enqueue
  <2> QED BY <1>0, <2>1, <2>2, <2>3 DEF Chunks, Pipe!Accept, Pipe!Next
<1>2. CASE WritePrev \/ WriteFinal
  <2>1. result = "none" /\ UNCHANGED <<produced_count, result>>
    BY <1>2 DEF WritePrev, WriteFinal, Ends
  <2>2. Len(output') \in {Len(output), Len(output) + 1}
    BY <1>0, <1>2 DEF WritePrev, WriteFinal
  <2>3. ASSUME Len(output') # Len(output)
        PROVE  Len(output) < produced_count
    <3>1. Taken <= produced_count /\ next_index <= Taken
      BY <1>0 DEF Partition, Taken
    <3>2. CASE WritePrev
      <4>1. pending # {}
        BY <2>3, <3>2 DEF WritePrev
      <4> QED BY <1>0, <3>1, <4>1 DEF Frames, Taken
    <3>3. CASE WriteFinal
      <4>1. held["writer"] = {next_index - 1}
        BY <3>3 DEF WriteFinal, Frames
      <4>2. {next_index - 1} \notin {{}, {next_index}}
        BY <1>0
      <4>3. Len(output) + 1 = next_index
        BY <4>1, <4>2 DEF Frames
      <4> QED BY <1>0, <3>1, <4>3 DEF Taken
    <3> QED BY <1>2, <3>2, <3>3
  <2>4. CASE Len(output') = Len(output)
    BY <2>1, <2>4
  <2>5. CASE Len(output') = Len(output) + 1
    BY <1>0, <2>1, <2>3, <2>5 DEF Pipe!Emit, Pipe!Next
  <2> QED BY <2>2, <2>4, <2>5
<1>3. CASE Join
  <2>1. result = "none" /\ UNCHANGED <<produced_count, output>>
    BY <1>3 DEF Join, Ends
  <2>2. \/ result' = "error"
        \/ result' = "ok" /\ produced_count = NumChunks
    BY <1>3 DEF Join, Ends, AllTaken
  <2> QED BY <2>1, <2>2 DEF Pipe!ReturnOk, Pipe!ReturnError, Pipe!Next
<1>4. CASE ~(Enqueue \/ WritePrev \/ WriteFinal \/ Join)
  <2>1. UNCHANGED <<produced_count, output, result>>
    BY <1>4 DEF Next, vars, Producer, ReadFails, ReadChunk, ProducerSleep, ProducerGivesUp,
                ProducerEof, StopAfterError, Worker, WorkerTop, Pop, PopNothing, Compress,
                CompressFails, Insert, Writer, SeeError, TakeResult, SeeEnd, WriterSleep,
                CheckError, Hold, WriteFails, SpuriousWake, Returned
  <2> QED BY <2>1
<1> QED BY <1>1, <1>2, <1>3, <1>4

\* Behind its threads, its batches and the frame it holds back, the compressor
\* accepts chunks in order and emits them in the same order.
THEOREM Refinement == Spec => PipeSpec
<1>1. Init => Pipe!Init
  BY DEF Init, Pipe!Init
<1> QED BY <1>1, PipeStep, Invariance, EndsInvariance, PTL DEF Spec, PipeSpec, Pipe!Spec

--------------------------------------------------------------------------------
(* No fault, no error.                                                         *)

Faultless ==
    Faults = {} =>
        /\ ~err_slot /\ ~err_flag
        /\ producer # "fail" /\ \A w \in Workers : worker[w] # "fail"
        /\ writer # "return_error" /\ result # "error"

\* The chunks before the last one are whole: no batch holds a short one inside.
LEMMA WholeInside ==
    ASSUME NEW batch \in SUBSET Chunks
    PROVE  ~ShortInside(batch)
<1> SUFFICES ASSUME NEW c \in batch, NEW d \in batch, RawBytes[{c}] # ChunkSize, c < d
             PROVE  FALSE
  BY DEF ShortInside
<1>1. c = NumChunks - 1
  BY BytesAssumption
<1> QED BY <1>1, OptionsAssumption DEF Chunks

LEMMA FaultlessStep ==
    ASSUME IInv, Faultless, [Next]_vars
    PROVE  Faultless'
<1> SUFFICES ASSUME Faults = {}
             PROVE  /\ ~err_slot' /\ ~err_flag'
                    /\ producer' # "fail" /\ \A w \in Workers : worker'[w] # "fail"
                    /\ writer' # "return_error" /\ result' # "error"
  BY DEF Faultless
<1> USE WorkersAssumption DEF IInv, Actors, queueVars, stateVars, errVars, writerVars
<1>0. /\ ~err_slot /\ ~err_flag
      /\ producer # "fail" /\ \A w \in Workers : worker[w] # "fail"
      /\ writer # "return_error" /\ result # "error"
  BY DEF Faultless
<1>1. CASE Producer
  BY <1>0, <1>1 DEF Producer, ReadFails, ReadChunk, ProducerSleep, ProducerGivesUp, ProducerEof,
                    Enqueue, StopAfterError
<1>2. ASSUME NEW w \in Workers, Worker(w)
      PROVE  /\ ~err_slot' /\ ~err_flag' /\ UNCHANGED <<producer, writer, result>>
             /\ \A v \in Workers : worker'[v] # "fail"
  <2>1. held[w] \in SUBSET Chunks /\ worker \in [Workers -> WorkerPlaces]
    BY DEF TypeOK
  <2>2. ~CompressFails(w)
    BY <2>1, WholeInside DEF CompressFails
  <2>3. /\ ~err_slot' /\ ~err_flag' /\ UNCHANGED <<producer, writer, result>>
    BY <1>0, <1>2, <2>2 DEF Worker, WorkerTop, Pop, PopNothing, Compress, Insert, StopAfterError
  <2>4. \A v \in Workers : worker'[v] # "fail"
    BY <1>0, <1>2, <2>1, <2>2 DEF Worker, WorkerTop, Pop, PopNothing, Compress, Insert,
                                  StopAfterError
  <2> QED BY <2>3, <2>4
<1>3. CASE Writer
  <2>1. UNCHANGED <<producer, worker, err_flag>> /\ ~err_slot' /\ writer' # "return_error"
    BY <1>0, <1>3 DEF Writer, SeeError, TakeResult, SeeEnd, WriterSleep, CheckError, WritePrev,
                      WriteFinal, Hold, WriteFails, Join
  <2>2. result' # "error"
    BY <1>0, <1>3 DEF Writer, SeeError, TakeResult, SeeEnd, WriterSleep, CheckError, WritePrev,
                      WriteFinal, Hold, WriteFails, Join
  <2> QED BY <1>0, <2>1, <2>2
<1>4. CASE SpuriousWake \/ Returned \/ UNCHANGED vars
  BY <1>0, <1>4 DEF SpuriousWake, Returned, vars
<1> QED BY <1>0, <1>1, <1>2, <1>3, <1>4 DEF Next

\* When neither the reader, nor a compressor, nor the output fails, the call
\* does not: the GPU never refuses a batch for a short chunk inside it.
THEOREM NoFaultNoError == Spec => []NoErrorWithoutFault
<1>1. Init => Faultless
  BY DEF Init, Faultless
<1>2. Faultless => NoErrorWithoutFault
  BY DEF Faultless, NoErrorWithoutFault
<1> QED BY <1>1, <1>2, FaultlessStep, Invariance, PTL DEF Spec

--------------------------------------------------------------------------------
(* Nobody sleeps through what he waits for.                                    *)

\* Only a writer that looks for its next result sleeps.
Sleepers == "writer" \in waiters => writer = "next"

Alert == NoLostWakeup /\ Sleepers

\* A step that wakes everybody, or after which somebody is about to, is safe.
LEMMA LoudStep ==
    ASSUME Sleepers, waiters' = {} \/ (WillNotify' /\ waiters' = waiters /\ writer' = writer)
    PROVE  Alert'
BY DEF Alert, NoLostWakeup, Sleepers

LEMMA AlertStep ==
    ASSUME IInv, Alert, [Next]_vars
    PROVE  Alert'
<1> USE WorkersAssumption
        DEF IInv, Actors, queueVars, stateVars, errVars, writerVars
<1>0. /\ NoLostWakeup /\ Sleepers
      /\ worker \in [Workers -> WorkerPlaces]
  BY DEF Alert, TypeOK
<1>1. CASE ReadFails \/ Enqueue \/ ProducerEof \/ StopAfterError("producer")
  <2>1. waiters' = {} \/ (producer' = "fail" /\ UNCHANGED <<waiters, writer>>)
    BY <1>1 DEF ReadFails, Enqueue, ProducerEof, StopAfterError
  <2> QED BY <1>0, <2>1, LoudStep DEF WillNotify
<1>2. CASE ReadChunk \/ ProducerSleep \/ ProducerGivesUp
  <2>1. /\ UNCHANGED <<queueVars, stateVars, errVars, worker, writerVars>>
        /\ producer # "fail"
        /\ \A t \in waiters' : t \in waiters \/ (t = "producer" /\ Full /\ ~stopped /\ ~err_flag)
    BY <1>2 DEF ReadChunk, ProducerSleep, ProducerGivesUp
  <2>2. /\ WillNotify => WillNotify'
        /\ Full' = Full /\ AllTaken' = AllTaken
        /\ \A w \in Workers : Suitable(w)' = Suitable(w) /\ NoMoreWork(w)' = NoMoreWork(w)
    BY <2>1 DEF WillNotify, Full, AllTaken, Suitable, NoMoreWork, QueueOf
  <2> QED BY <1>0, <2>1, <2>2 DEF Alert, NoLostWakeup, Sleepers
<1>3. ASSUME NEW w \in Workers, Pop(w) \/ Compress(w) \/ CompressFails(w) \/ Insert(w)
                                  \/ StopAfterError(w)
      PROVE  Alert'
  <2>1. \/ waiters' = {}
        \/ worker'[w] \in {"compress", "insert", "fail"} /\ UNCHANGED <<waiters, writer>>
    BY <1>0, <1>3 DEF Pop, StillAsleep, Compress, CompressFails, Insert, StopAfterError
  <2> QED BY <1>0, <2>1, LoudStep DEF WillNotify
<1>4. ASSUME NEW w \in Workers, WorkerTop(w) \/ PopNothing(w)
      PROVE  Alert'
  <2>1. /\ UNCHANGED <<queueVars, stateVars, errVars, producer, writerVars>>
        /\ worker[w] \in {"top", "pop"}
        /\ \A v \in Workers : v # w => worker'[v] = worker[v]
        /\ \A t \in waiters' : t \in waiters \/ (t = w /\ Suitable(w) = {} /\ ~NoMoreWork(w))
    BY <1>0, <1>4 DEF WorkerTop, PopNothing
  <2>2. /\ Full' = Full /\ AllTaken' = AllTaken
        /\ \A v \in Workers : Suitable(v)' = Suitable(v) /\ NoMoreWork(v)' = NoMoreWork(v)
    BY <2>1 DEF Full, AllTaken, Suitable, NoMoreWork, QueueOf
  <2>3. WillNotify => WillNotify'
    BY <2>1 DEF WillNotify
  <2> QED BY <1>0, <2>1, <2>2, <2>3 DEF Alert, NoLostWakeup, Sleepers
<1>5. CASE SeeError \/ SeeEnd
  <2>1. waiters' = {}
    BY <1>5 DEF SeeError, SeeEnd
  <2> QED BY <1>0, <2>1, LoudStep
<1>6. CASE WriterSleep
  <2>1. /\ UNCHANGED <<queueVars, stateVars, errVars, producer, worker, writerVars>>
        /\ writer = "next" /\ waiters' = waiters \union {"writer"}
        /\ ~err_flag /\ next_index \notin results /\ ~AllTaken
    BY <1>6 DEF WriterSleep
  <2>2. /\ WillNotify' = WillNotify /\ Full' = Full /\ AllTaken' = AllTaken
        /\ \A v \in Workers : Suitable(v)' = Suitable(v) /\ NoMoreWork(v)' = NoMoreWork(v)
    BY <2>1 DEF WillNotify, Full, AllTaken, Suitable, NoMoreWork, QueueOf
  <2> QED BY <1>0, <2>1, <2>2 DEF Alert, NoLostWakeup, Sleepers
<1>7. CASE TakeResult \/ CheckError \/ WritePrev \/ WriteFinal \/ Hold \/ WriteFails \/ Join
  <2>1. /\ UNCHANGED <<queueVars, produced_count, producer_eof, stopped, waiters, err_flag,
                       producer, worker>>
        /\ "writer" \notin waiters
    BY <1>0, <1>7 DEF TakeResult, CheckError, WritePrev, WriteFinal, Hold, WriteFails, Join,
                      Sleepers
  <2>2. /\ WillNotify' = WillNotify /\ Full' = Full
        /\ \A v \in Workers : Suitable(v)' = Suitable(v) /\ NoMoreWork(v)' = NoMoreWork(v)
    BY <2>1 DEF WillNotify, Full, Suitable, NoMoreWork, QueueOf
  <2> QED BY <1>0, <2>1, <2>2 DEF Alert, NoLostWakeup, Sleepers
<1>8. CASE SpuriousWake \/ Returned \/ UNCHANGED vars
  <2>1. /\ waiters' \subseteq waiters
        /\ UNCHANGED <<queueVars, stateVars, errVars, producer, worker, writerVars>>
    BY <1>8 DEF SpuriousWake, Returned, vars
  <2>2. /\ WillNotify' = WillNotify /\ Full' = Full /\ AllTaken' = AllTaken
        /\ \A v \in Workers : Suitable(v)' = Suitable(v) /\ NoMoreWork(v)' = NoMoreWork(v)
    BY <2>1 DEF WillNotify, Full, AllTaken, Suitable, NoMoreWork, QueueOf
  <2> QED BY <1>0, <2>1, <2>2 DEF Alert, NoLostWakeup, Sleepers
<1> QED
  BY <1>1, <1>2, <1>3, <1>4, <1>5, <1>6, <1>7, <1>8 DEF Next, Producer, Worker, Writer

\* Whoever sleeps on the one condition variable still has a reason to, or some
\* thread is on its way to waking everybody, for every number of workers.
THEOREM NobodyForgotten == Spec => []NoLostWakeup
<1>1. Init => Alert
  BY DEF Init, Alert, NoLostWakeup, Sleepers
<1>2. Alert => NoLostWakeup
  BY DEF Alert
<1> QED BY <1>1, <1>2, AlertStep, Invariance, PTL DEF Spec
================================================================================

--------------------------- MODULE PdeflateBoth_proofs ---------------------------
(* The two compressors side by side: what PdeflateCompress_proofs says of      *)
(* every instance is carried to the one with the shared queue and no faults.   *)
EXTENDS MCPdeflateBoth, TLAPS

\* The theorems about the compressor, of the instance MCPdeflateBoth runs.
Known == INSTANCE PdeflateCompress_proofs WITH
            Policy <- "GlobalQueue", Faults <- {}, GpuMinChunkSize <- 1, GpuBatchLimit <- 3

--------------------------------------------------------------------------------
(* The assumptions of the instance follow from those of the module.            *)

LEMMA KnownWorkers == Known!WorkersAssumption
BY WorkersAssumption
   DEF WorkersAssumption, Known!WorkersAssumption, Workers, Known!Workers, IsFiniteSet,
       Known!IsFiniteSet

LEMMA KnownOptions == Known!OptionsAssumption
BY OptionsAssumption DEF OptionsAssumption, Known!OptionsAssumption

LEMMA KnownBytes == Known!BytesAssumption
BY BytesAssumption
   DEF BytesAssumption, Known!BytesAssumption, Chunks, Known!Chunks, Additive, Known!Additive

--------------------------------------------------------------------------------
(* The instance that runs is the instance the theorems are about.              *)

LEMMA SameInit == Init => Known!Init
BY DEF Init, Known!Init, Workers, Actors, Known!Workers, Known!Actors

LEMMA SameVars == vars = Known!vars
BY DEF vars, Known!vars, queueVars, stateVars, errVars, writerVars, Known!queueVars,
       Known!stateVars, Known!errVars, Known!writerVars

LEMMA SameProducer == Shared!Producer => Known!Producer
BY DEF Shared!Producer, Shared!ReadFails, Shared!ReadChunk, Shared!ProducerSleep, Shared!ProducerGivesUp,
       Shared!ProducerEof, Shared!Enqueue, Shared!StopAfterError, Shared!RecordError, Shared!Full,
       Shared!Target, Shared!Eligible, Shared!Chunks, Shared!Workers,
       Shared!queueVars, Shared!stateVars, Shared!errVars, Shared!writerVars,
       Known!Producer, Known!ReadFails, Known!ReadChunk, Known!ProducerSleep, Known!ProducerGivesUp,
       Known!ProducerEof, Known!Enqueue, Known!StopAfterError, Known!RecordError, Known!Full,
       Known!Target, Known!Eligible, Known!Chunks, Known!Workers,
       Known!queueVars, Known!stateVars, Known!errVars, Known!writerVars

LEMMA SameWorker ==
    ASSUME NEW w, Shared!Worker(w)
    PROVE  Known!Worker(w)
<1> USE DEF Shared!Workers, Shared!queueVars, Shared!stateVars, Shared!errVars,
            Shared!writerVars, Known!Workers, Known!queueVars, Known!stateVars,
            Known!errVars, Known!writerVars
<1>1. Shared!Suitable(w) = Known!Suitable(w)
  BY DEF Shared!Suitable, Shared!QueueOf, Known!Suitable, Known!QueueOf
<1>2. Shared!NoMoreWork(w) = Known!NoMoreWork(w)
  BY DEF Shared!NoMoreWork, Shared!QueueOf, Known!NoMoreWork, Known!QueueOf
<1>3. Shared!Batch(w) = Known!Batch(w)
  BY <1>1 DEF Shared!Batch, Known!Batch, Shared!Cardinality, Known!Cardinality
<1>4. ASSUME NEW batch
      PROVE  Shared!BufferedAfter(w, batch) = Known!BufferedAfter(w, batch)
  BY DEF Shared!BufferedAfter, Known!BufferedAfter, Shared!Minus, Known!Minus
<1>5. ASSUME NEW left
      PROVE  Shared!StillAsleep(left) = Known!StillAsleep(left)
  BY DEF Shared!StillAsleep, Known!StillAsleep, Shared!Low, Known!Low, Shared!Target, Known!Target
<1>6. Shared!Pop(w) => Known!Pop(w)
  BY <1>1, <1>3, <1>4, <1>5 DEF Shared!Pop, Known!Pop, Shared!Remove, Known!Remove
<1>7. Shared!PopNothing(w) => Known!PopNothing(w)
  BY <1>1, <1>2 DEF Shared!PopNothing, Known!PopNothing
<1>8. Shared!WorkerTop(w) \/ Shared!Compress(w) \/ Shared!Insert(w) =>
         Known!WorkerTop(w) \/ Known!Compress(w) \/ Known!Insert(w)
  BY DEF Shared!WorkerTop, Shared!Compress, Shared!Insert, Shared!ShortInside,
         Known!WorkerTop, Known!Compress, Known!Insert, Known!ShortInside
<1>9. Shared!CompressFails(w) \/ Shared!StopAfterError(w) =>
         Known!CompressFails(w) \/ Known!StopAfterError(w)
  BY DEF Shared!CompressFails, Shared!StopAfterError, Shared!RecordError, Shared!ShortInside,
         Known!CompressFails, Known!StopAfterError, Known!RecordError, Known!ShortInside
<1> QED BY <1>6, <1>7, <1>8, <1>9 DEF Shared!Worker, Known!Worker

LEMMA SameWriter == Shared!Writer => Known!Writer
BY DEF Shared!Writer, Shared!SeeError, Shared!TakeResult, Shared!SeeEnd, Shared!WriterSleep,
       Shared!CheckError, Shared!WritePrev, Shared!WriteFinal, Shared!Hold, Shared!WriteFails,
       Shared!Join, Shared!AllJoined, Shared!IsFinal, Shared!AllTaken, Shared!Workers,
       Shared!queueVars, Shared!stateVars, Shared!errVars, Shared!writerVars,
       Known!Writer, Known!SeeError, Known!TakeResult, Known!SeeEnd, Known!WriterSleep,
       Known!CheckError, Known!WritePrev, Known!WriteFinal, Known!Hold, Known!WriteFails,
       Known!Join, Known!AllJoined, Known!IsFinal, Known!AllTaken, Known!Workers,
       Known!queueVars, Known!stateVars, Known!errVars, Known!writerVars

LEMMA SameNext == Shared!Next => Known!Next
<1>1. Shared!SpuriousWake => Known!SpuriousWake
  BY DEF Shared!SpuriousWake, Shared!queueVars, Shared!stateVars, Shared!errVars,
         Shared!writerVars, Known!SpuriousWake, Known!queueVars, Known!stateVars,
         Known!errVars, Known!writerVars
<1>2. Shared!Returned => Known!Returned
  BY DEF Shared!Returned, Shared!vars, Shared!queueVars, Shared!stateVars, Shared!errVars,
         Shared!writerVars, Known!Returned, Known!vars, Known!queueVars, Known!stateVars,
         Known!errVars, Known!writerVars
<1> QED
  BY <1>1, <1>2, SameProducer, SameWorker, SameWriter
     DEF Shared!Next, Known!Next, Shared!Workers, Known!Workers

\* What the instance promises is what the theorems promise of it.
LEMMA SamePromise ==
    Known!Faultless /\ Known!NoLostWakeup => Shared!NoErrorWithoutFault /\ Shared!NoLostWakeup
BY DEF Known!Faultless, Shared!NoErrorWithoutFault, Shared!NoLostWakeup, Shared!Full,
       Shared!Target, Shared!WillNotify, Shared!Workers, Shared!Suitable, Shared!QueueOf,
       Shared!NoMoreWork, Shared!AllTaken,
       Known!NoLostWakeup, Known!Full,
       Known!Target, Known!WillNotify, Known!Workers, Known!Suitable, Known!QueueOf,
       Known!NoMoreWork, Known!AllTaken

--------------------------------------------------------------------------------
(* The invariant of the instance.                                              *)

BothInv ==
    instance = "shared" => Known!IInv /\ Known!Faultless /\ Known!Alert

LEMMA BothInitInv == BothInit => BothInv
<1>1. Known!Init => Known!IInv
  BY KnownWorkers, KnownOptions, KnownBytes, Known!InitInv
<1>2. Known!Init => Known!Faultless /\ Known!Alert
  BY DEF Known!Init, Known!Faultless, Known!Alert, Known!NoLostWakeup, Known!Sleepers
<1> QED BY <1>1, <1>2, SameInit DEF BothInit, BothInv

LEMMA BothStepInv ==
    ASSUME BothInv, [BothNext]_<<vars, instance>>
    PROVE  BothInv'
<1> SUFFICES ASSUME instance' = "shared"
             PROVE  (Known!IInv /\ Known!Faultless /\ Known!Alert)'
  BY DEF BothInv
<1>1. instance = "shared" /\ [Known!Next]_Known!vars
  BY SameNext, SameVars
     DEF BothNext, vars, Known!vars, queueVars, stateVars, errVars, writerVars,
         Known!queueVars, Known!stateVars, Known!errVars, Known!writerVars
<1>2. Known!IInv /\ Known!Faultless /\ Known!Alert
  BY <1>1 DEF BothInv
<1>3. Known!IInv'
  BY <1>1, <1>2, KnownWorkers, KnownOptions, KnownBytes, Known!StepInv
<1>4. Known!Faultless'
  BY <1>1, <1>2, KnownWorkers, KnownOptions, KnownBytes, Known!FaultlessStep
<1>5. Known!Alert'
  BY <1>1, <1>2, KnownWorkers, KnownOptions, KnownBytes, Known!AlertStep
<1> QED BY <1>3, <1>4, <1>5

\* With the shared queue and nothing that fails, no call fails, and whoever
\* sleeps still has a reason to, next to a compressor that is given anything.
THEOREM SharedIsSound == BothSpec => []SharedInstance
<1>1. BothInv => SharedInstance
  BY SamePromise DEF BothInv, SharedInstance, Known!Alert
<1> QED BY <1>1, BothInitInv, BothStepInv, PTL DEF BothSpec
================================================================================

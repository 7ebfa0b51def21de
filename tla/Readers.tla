--------------------------------- MODULE Readers ---------------------------------
(* What reads or writes a file through its backends, side by side: the two     *)
(* decoders that submit to the file writer and the reader that reads ahead.    *)
(* A scenario is about one of them, and the variables of ParallelFileWriter,   *)
(* and what the two decoders call by one name, are those of that one.  Both    *)
(* decoders have the same threads, chunks and writer.                          *)
EXTENDS DeflateIndexedDecode

CONSTANTS
    CpuWorkers, GpuWorkers, GpuBatchLimit, GpuMinChunkSize, \* of PdeflateParallelDecode
    ParallelCalls,   \* the calls of the parallel-write decoder
    Reader, FileLen, RequestSize, PrefetchOps, PrefetchBytes, \* of ParallelPrefetchReader
    PrefetchLimit,   \* max_backlog_bytes of its file reader
    PrefetchSetups   \* the backends of its file reader, and what fails in them

VARIABLES
    scenario, \* "indexed", "parallel" or "prefetch"
    handles, inflight_bytes, next_submit_offset, reading, answered, refused, consumed,
    queued, produced, eof, halted, dozing, err_slot, err_flag, batch

Parallel == INSTANCE PdeflateParallelDecode WITH Calls <- ParallelCalls

PrefetchRequests == [off : 0 .. FileLen - 1, len : 1 .. RequestSize]

Prefetch == INSTANCE ParallelPrefetchReader WITH
    Clients <- {Reader}, Writes <- PrefetchRequests,
    Size <- [r \in PrefetchRequests |-> r.len], BacklogLimit <- PrefetchLimit,
    Setups <- PrefetchSetups

ASSUME ReadersAssumption == Parallel!DecodeAssumption /\ Prefetch!PrefetchAssumption

prefetchVars == <<handles, inflight_bytes, next_submit_offset, reading, answered, refused,
                  consumed>>
parallelVars == <<queued, produced, eof, halted, dozing, err_slot, err_flag, batch>>
decoderVars  == <<call, producer, worker, result, parallelVars>>
\* What only the indexed decoder has.
indexVars    == <<queueVars, napping, error, hand, decoded, caller, next_index, output>>
readersVars  == <<scenario, allVars, prefetchVars, parallelVars>>

NoPrefetch ==
    /\ handles = <<>> /\ inflight_bytes = 0 /\ next_submit_offset = 0
    /\ reading = "fill" /\ answered = {} /\ refused = {} /\ consumed = 0
NoParallel ==
    /\ queued = {} /\ produced = 0 /\ eof = FALSE /\ halted = FALSE /\ dozing = {}
    /\ err_slot = FALSE /\ err_flag = FALSE /\ batch = <<>>
NoIndex ==
    /\ queue = {} /\ queued_bytes = 0 /\ queue_closed = FALSE /\ total_tasks = 0
    /\ napping = {} /\ error = FALSE /\ hand = <<>> /\ decoded = {}
    /\ caller = "poll" /\ next_index = 0 /\ output = <<>>
NoDecode ==
    /\ call = CHOOSE c \in Calls : TRUE
    /\ producer = "cut" /\ worker = <<>> /\ result = "none"

ReadersInit ==
    \/ scenario = "indexed" /\ IndexedInit /\ NoPrefetch /\ NoParallel
    \/ scenario = "parallel" /\ Parallel!ParallelInit /\ NoPrefetch /\ NoIndex
    \/ scenario = "prefetch" /\ Prefetch!PrefetchInit /\ NoDecode /\ NoIndex /\ NoParallel

Decoding(step) ==
    scenario = "indexed" /\ step /\ UNCHANGED <<scenario, prefetchVars, parallelVars>>
Writing(step) ==
    scenario = "parallel" /\ step /\ UNCHANGED <<scenario, prefetchVars, indexVars>>
Fetching(step) ==
    scenario = "prefetch" /\ step /\ UNCHANGED <<scenario, indexedVars, parallelVars>>

ReadersNext ==
    Decoding(IndexedNext) \/ Writing(Parallel!ParallelNext) \/ Fetching(Prefetch!PrefetchNext)

\* The fairness of IndexedSpec, of ParallelSpec and of PrefetchSpec.
ReadersSpec ==
    /\ ReadersInit /\ [][ReadersNext]_readersVars
    /\ WF_readersVars(Decoding(Producer /\ UNCHANGED writerVars))
    /\ WF_readersVars(Decoding(Caller /\ UNCHANGED writerVars))
    /\ WF_readersVars(Decoding(CallerDrains))
    /\ \A w \in Workers : WF_readersVars(Decoding(Worker(w)))
    /\ WF_readersVars(Decoding(Ring /\ UNCHANGED indexedVars))
    /\ WF_readersVars(Decoding(Iocp /\ UNCHANGED indexedVars))
    /\ WF_readersVars(Decoding(Draining /\ UNCHANGED indexedVars))
    /\ \A w \in PoolWorkers : WF_readersVars(Decoding(Pool(w) /\ UNCHANGED indexedVars))
    /\ WF_readersVars(Writing(Parallel!Producer /\ UNCHANGED writerVars))
    /\ \A w \in Clients : WF_readersVars(Writing(Parallel!Worker(w)))
    /\ WF_readersVars(Writing(Parallel!CallerDrains))
    /\ WF_readersVars(Writing(Parallel!CallerReturns))
    /\ WF_readersVars(Writing(Parallel!Ring /\ UNCHANGED decoderVars))
    /\ WF_readersVars(Writing(Parallel!Iocp /\ UNCHANGED decoderVars))
    /\ WF_readersVars(Writing(Parallel!Draining /\ UNCHANGED decoderVars))
    /\ \A w \in PoolWorkers : WF_readersVars(Writing(Parallel!Pool(w) /\ UNCHANGED decoderVars))
    /\ WF_readersVars(Fetching(Prefetch!Reading))
    /\ WF_readersVars(Fetching(Prefetch!ReaderSubmit(Reader)))
    /\ WF_readersVars(Fetching(Prefetch!ReaderDraining))
    /\ WF_readersVars(Fetching(Prefetch!Engine))
    /\ \A w \in PoolWorkers : WF_readersVars(Fetching(Prefetch!ReadWorker(w)))

--------------------------------------------------------------------------------
\* A decode that returns without an error is whole and in order, by the index (see
\* IndexedOkIsWhole) and with the parallel writer (see OkMeansWholeFile); the file that is
\* read ahead is handed out from its beginning without a gap and within both limits (see
\* HandedOutInOrder).
ReadersExact ==
    /\ scenario = "indexed" => IndexedOkIsWhole
    /\ scenario = "parallel" => Parallel!OkMeansWholeFile
    /\ scenario = "prefetch" => Prefetch!HandedOutInOrder

\* The writer's gate counts exactly and keeps both of its limits (see BacklogExact of
\* ParallelFileWriter).
GateExact == scenario # "prefetch" => BacklogExact

\* For both decoders the writer is a barrier (see FileWriteBarrier).
FileBarrier == INSTANCE FileWriteBarrier WITH
    accepted <- IF scenario = "prefetch" THEN {} ELSE accepted,
    written <- IF scenario = "prefetch" THEN {} ELSE {r \in Writes : left[r] = 0},
    told <- scenario # "prefetch" /\ told,
    outcome <- IF scenario # "prefetch" /\ drainer \in {"ok", "failed"} THEN drainer ELSE "none"

FileBarrierSpec == FileBarrier!Spec

\* The decoders' calls return but where IndexedMayStay and MayStay say, and the prefetch
\* reader comes to its end unless the ring cannot be created.
ReadersReturn ==
    <>(/\ scenario = "indexed" => IndexedEnds
       /\ scenario = "parallel" => Parallel!DecodeEnds
       /\ scenario = "prefetch" => Prefetch!ReaderEnds)
================================================================================

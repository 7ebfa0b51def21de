--------------------------------- MODULE MCGpu ----------------------------------
(* What works with something outside the program, for TLC: what PDeflate and       *)
(* DEFLATE do with a device, and around it, and the applications: the installer    *)
(* and the uninstaller on one machine, and the desktop application in a directory  *)
(* where names are taken.  The scenario says which of the modules takes its steps, *)
(* since they share nothing but what one assumes of the other.                     *)
EXTENDS PdeflateGpuDecode, PdeflateGpuTrueBatch, PdeflateGpuBatch, PdeflateInMemory,
        DeflateGpuBatch, InstallLifecycle, DesktopJobs, TLC

CONSTANTS a, b, c1, c2, g1, g2, Scenarios

VARIABLE scenario

TwoThreads == {a, b}
TwoCpu     == {c1, c2}
TwoGpu     == {g1, g2}

\* Calls one after the other, with chunks for either class of slots, a chunk that is not
\* aligned and one that does not parse; the second call asks for larger slots.
DecodeJob(n, need) == [chunk |-> n, need |-> need, aligned |-> TRUE, parses |-> TRUE]
MCDecodeCalls ==
    {<< <<DecodeJob(1, 1), DecodeJob(2, 3), DecodeJob(3, 1), DecodeJob(4, 2)>>,
        <<[DecodeJob(5, 1) EXCEPT !.aligned = FALSE], DecodeJob(6, 4), DecodeJob(7, 1)>> >>,
     << <<[DecodeJob(1, 1) EXCEPT !.parses = FALSE]>>,
        <<[DecodeJob(2, 1) EXCEPT !.aligned = FALSE]>>, <<>> >>}

\* Two callers with submissions that fit each other's scratches or not.
BatchJob(n, need, sound) == [chunk |-> n, need |-> need, sound |-> sound]
MCBatchJobs ==
    (a :> <<BatchJob(1, 1, TRUE), BatchJob(2, 1, TRUE), BatchJob(3, 2, TRUE),
            BatchJob(4, 1, TRUE)>>)
    @@ (b :> <<BatchJob(6, 2, TRUE), BatchJob(8, 1, FALSE)>>)

\* Chunks of both classes, and one that packs to more than was predicted.
PackedChunk(n, class, cap, len) ==
    [id |-> n, gpuTable |-> n % 2 = 1, entries |-> n # 5, class |-> class, cap |-> cap,
     len |-> len]
MCBatches ==
    (a :> << <<PackedChunk(1, 2, 1, 2), PackedChunk(2, 1, 1, 1), PackedChunk(3, 2, 2, 1)>>,
             <<PackedChunk(4, 1, 1, 1), PackedChunk(5, 1, 1, 1)>> >>)
    @@ (b :> << <<PackedChunk(6, 1, 2, 2)>> >>)

\* Four chunks, the last of which may be too short for the device; on either scheduler,
\* with a device and without.
MCMemorySetups ==
    [chunks : {4}, eligible : {{}, 1 .. 3, 1 .. 4}, policy : {"global", "split"},
     gpu : BOOLEAN, force : {FALSE}]
    \cup [chunks : {4}, eligible : {1 .. 3}, policy : {"global"}, gpu : BOOLEAN, force : {TRUE}]
    \cup [chunks : {0}, eligible : {{}}, policy : {"split"}, gpu : {TRUE}, force : {FALSE}]

\* Streams that are empty, not final, cut off, continued, or do not parse or decode.
Chunk(n, final) == [id |-> n, final |-> final, parses |-> TRUE, decodes |-> TRUE]
MCDamagedStreams ==
    [chunks : {<<>>, <<Chunk(1, FALSE)>>}, rest : {FALSE}]
    \cup [chunks : {<<Chunk(1, FALSE)>>, <<Chunk(1, TRUE)>>}, rest : {TRUE}]
    \cup [chunks : {<<Chunk(1, TRUE), Chunk(2, TRUE)>>,
                    <<[Chunk(1, FALSE) EXCEPT !.decodes = FALSE], Chunk(2, TRUE)>>,
                    <<[Chunk(1, TRUE) EXCEPT !.parses = FALSE]>>}, rest : {FALSE}]

\* DEFLATE: calls of more chunks than slots, of chunks that need more than the slot has,
\* that come to more bits than their buffer takes, and whose symbols are counted alike or
\* only hashed alike; and with a plan that cannot be made.
DeflateChunk(n, len, bits, freq) == [id |-> n, len |-> len, bits |-> bits, freq |-> freq]
DeflateCalls ==
    {<< <<DeflateChunk(1, 1, 4, 1), DeflateChunk(2, 5, 9, 3), DeflateChunk(3, 2, 9, 1)>>,
        <<DeflateChunk(4, 3, 4, 5), DeflateChunk(5, 1, 9, 4), DeflateChunk(6, 5, 2, 2),
          DeflateChunk(7, 1, 1, 1)>> >>,
     << <<DeflateChunk(1, 1, 2, 1), DeflateChunk(2, 2, 2, 6), DeflateChunk(3, 1, 2, 3)>>,
        <<DeflateChunk(4, 1, 2, 1), DeflateChunk(5, 2, 2, 3)>> >>}
MCDeflateJobs == [mode : {"ratio", "speed"}, check : BOOLEAN, calls : DeflateCalls]
Parity(freq) == freq % 2
MCPlans == [freq \in 1 .. 6 |-> [ok |-> freq # 6, header |-> 2]]

\* An archive as build.yml packs it, and one with the copy that the installer expects.
MCPacks == {<<"icons", "uninstaller", "dll">>, <<"icons", "uninstaller", "tmp">>}

\* Command lines for one input and for several, with archives of the same name, twice the
\* same one, and nothing that is an archive; and folders in which names are taken.
Input(n, stem, what) ==
    [id |-> n, stem |-> stem, what |-> what, single |-> n # 2, inside |-> <<>>]
ZipOfX == Input(1, "x", "archive")
Folder == [Input(4, "d", "dir") EXCEPT !.inside = <<ZipOfX, Input(5, "o", "other")>>]
MCRequests ==
    [kind : {"compress"}, auto : BOOLEAN, format : {"zip"},
     inputs : {<<ZipOfX>>, <<ZipOfX, Folder>>, <<Input(3, "z", "missing")>>}]
    \cup [kind : {"compress"}, auto : {TRUE}, format : {"cozip"}, inputs : {<<ZipOfX>>}]
    \cup [kind : {"extract"}, auto : BOOLEAN,
          inputs : {<<ZipOfX, Input(3, "z", "missing"), Input(2, "x", "named")>>,
                    <<Folder, ZipOfX>>, <<Input(5, "o", "other")>>}]
Named(dir, base) == [dir : {dir}, base : {base}, n : 1 .. 3]
FirstOf(set) == {e \in set : e.n = 1}
MCEntries ==
    UNION {Named("here", base) : base \in {<<"x", "zip">>, <<"x", "cozip">>, <<"Archive", "zip">>,
                                           <<"Archive", "cozip">>, <<"x">>}}
    \cup Named("there", <<"x">>)
MCBefore ==
    {FirstOf(Named("here", <<"x", "zip">>) \cup Named("here", <<"x">>)), Named("here", <<"x">>)}
MCOffered == FirstOf(Named("here", <<"x", "zip">>) \cup Named("here", <<"x", "cozip">>))

\* The applications; one whose turn it is not begins in one state.
ApplicationsInit(installing, coding) ==
    /\ InstallInit
    /\ (~installing => spent.pack = <<"icons", "uninstaller", "tmp">>)
    /\ DesktopInit
    /\ (~coding => /\ desk.request = CHOOSE q \in MCRequests : TRUE
                /\ desk.before = Named("here", <<"x">>))

gpuVars == <<slotVars, trueVars, batchVars, memoryVars, deflateVars>>
appVars == <<installVars, desktopVars>>
allVars == <<gpuVars, appVars>>

GpuInit ==
    /\ scenario \in Scenarios
    /\ GpuDecodeInit /\ (scenario # "slots" => decodeCalls = CHOOSE c \in DecodeCalls : TRUE)
    /\ TrueBatchInit /\ GpuBatchInit
    /\ MemoryInit /\ (scenario # "memory" => setup = CHOOSE s \in MemorySetups : TRUE)
    /\ DeflateBatchInit
    /\ (scenario # "deflate" => job = CHOOSE j \in DeflateJobs : TRUE)
    /\ ApplicationsInit(scenario = "setup", scenario = "desktop")

InSlots(step) ==
    scenario = "slots" /\ step
    /\ UNCHANGED <<scenario, trueVars, batchVars, memoryVars, deflateVars, appVars>>
InBatch(step) ==
    scenario = "batch" /\ step
    /\ UNCHANGED <<scenario, slotVars, batchVars, memoryVars, deflateVars, appVars>>
InPack(step) ==
    scenario = "pack" /\ step
    /\ UNCHANGED <<scenario, slotVars, trueVars, memoryVars, deflateVars, appVars>>
InMemory(step) ==
    scenario = "memory" /\ step
    /\ UNCHANGED <<scenario, slotVars, trueVars, batchVars, deflateVars, appVars>>
InDeflate(step) ==
    scenario = "deflate" /\ step
    /\ UNCHANGED <<scenario, slotVars, trueVars, batchVars, memoryVars, appVars>>
InSetup(step) ==
    scenario = "setup" /\ step /\ UNCHANGED <<scenario, gpuVars, desktopVars>>
InDesktop(step) ==
    scenario = "desktop" /\ step /\ UNCHANGED <<scenario, gpuVars, installVars>>

GpuNext == \/ InSlots(GpuDecodeNext) \/ InBatch(TrueBatchNext)
           \/ InPack(GpuBatchNext) \/ InMemory(MemoryNext)
           \/ InDeflate(BatchesNext)
           \/ InSetup(InstallNext) \/ InDesktop(DesktopNext)

\* Every thread goes on, the device finishes what it is given, and windows look at what
\* their threads did.  Only one scenario takes its steps, so what is fair together is fair
\* one by one.
GpuSpec ==
    /\ GpuInit /\ [][GpuNext]_<<scenario, allVars>>
    /\ WF_<<scenario, allVars>>(\/ InSlots(DecodeLoop)
                                \/ InSetup(ThreadStep) \/ InDesktop(JobStep))
    /\ WF_<<scenario, allVars>>(\/ InSlots(DeviceFinishes) \/ InSetup(Poll)
                                \/ InDesktop(refresh_job_snapshot))
    /\ WF_<<scenario, allVars>>(InBatch(BatchFinishes))
    /\ WF_<<scenario, allVars>>(InPack(SparseFinishes))
    /\ WF_<<scenario, allVars>>(InMemory(MemoryCaller))
    /\ WF_<<scenario, allVars>>(InDeflate(BatchStep))
    /\ \A t \in TwoThreads : /\ WF_<<scenario, allVars>>(InBatch(TrueBatchStep(t)))
                             /\ WF_<<scenario, allVars>>(InPack(GpuWorkerStep(t)))
    /\ \A t \in Threads : WF_<<scenario, allVars>>(InMemory(MemoryWorker(t)))

--------------------------------------------------------------------------------
\* Whatever the device decodes, on slots or in true batches, every chunk of a call is
\* answered once, in order and as itself, and a buffer serves one submission at a time.
GpuDecodeSound == AnswersExact /\ SlotsSound /\ TrueBatchExact /\ ScratchesSound

\* What a batch is compressed to is its chunks, each with the table that its matches are
\* for, and a scratch serves one group at a time; and what DEFLATE makes of its chunks is
\* theirs too, in slots that are free when they are used again (see CallsExact and
\* SlotsReleased).
GpuCompressSound ==
    /\ GpuBatchExact /\ SparseSound
    /\ CallsExact /\ SlotsReleased

\* What the applications say is on the disk is there, what was there before is kept, and
\* what they show is what their threads did: see InstalledIsComplete, UninstalledIsGone,
\* WindowFollows, OldEntriesKept, FoldersOfTheirOwn and WindowIsRight.
AppsHonest ==
    /\ InstalledIsComplete /\ UninstalledIsGone /\ WindowFollows
    /\ OldEntriesKept /\ FoldersOfTheirOwn /\ WindowIsRight

\* No window stays where its thread works, unless the thread of the desktop panicked,
\* which leaves the job running (spawn_job).
SetupRests   == app.step \notin {"working", "fallback"}
DesktopRests == window.snapshot.status # "running" \/ worker.stage = "panicked"

\* A call in memory returns, unless the threads of the device are gone, one by a panic that
\* stored no error, above the tail they lead to: the CPU workers then spin for ever, and
\* the scope joins nobody (compress with GpuLedSplitQueue).
LeftLeading == /\ call.stage = "compress" /\ CpuSource = "retry" /\ err = "none" /\ Panicked
               /\ \A g \in GpuSide : workers[g].stage \in {"left", "panicked"}
MemoryRests == call.stage = "returned" \/ LeftLeading

\* Every call returns or passes on a panic: the loops that poll the device, the waits for
\* room in a ring or below a high-water mark, and the CPU workers that spin while the
\* device leads, but for those it has left (MemoryRests); and no window stays where its
\* thread works for ever (see SetupRests, DesktopRests).
CallsReturn ==
    []<>(/\ scenario = "slots" => round.stage \in {"done", "panicked"}
         /\ scenario = "batch" => \A t \in TwoThreads :
                                     caller[t].stage \in {"returned", "panicked"}
         /\ scenario = "pack" => \A t \in TwoThreads :
                                    gpuWorker[t].stage \in {"done", "panicked"}
         /\ scenario = "memory" => MemoryRests
         /\ scenario = "deflate" => AllAnswered \/ current.stage = "panicked"
         /\ scenario = "setup" => SetupRests
         /\ scenario = "desktop" => DesktopRests)

\* docs/pdeflate-gpu-decompress-design.md:76: a chunk that fits nowhere is decoded on the
\* CPU, so that a call answers whatever the size of its chunks (decode_chunks_gpu_v2).
TooLargeGoesToTheCpu == (scenario = "slots") ~> (round.stage \in {"done", "panicked"})
================================================================================

# A TLA+ model of cozip

cozip compresses ZIP archives and its own PDeflate archives on the CPU and the
GPU at once. Most of what is hard in it has the same shape: a thread cuts an
input into chunks, workers of two kinds take them from shared queues in any
order, and somebody puts the results back in order, while throttles, error
slots and the end of the input travel between them over mutexes, condition
variables and atomics. Around that are two formats that must be read as they
were written, a device whose answers come late or not at all, files that are
written and read in parallel, and applications that say what they did. This
directory models these, checks small instances with TLC, and proves with TLAPS
the central invariants and refinements of the stream compressors (one, and two
that share their process) and the stream decoder, of the file writer and the
decoders and readers over it, of the in-memory scheduler, of both ways to decode
with a device and of the extraction of a ZIP file, for every number of workers,
every input and every option.

* [How to run it](#how-to-run-it)
* [Inventory of the system](#inventory-of-the-system)
* [The modules](#the-modules)
* [How to read them](#how-to-read-them)
* [The runs](#the-runs)
* [Fairness](#fairness)
* [The proofs](#the-proofs)
* [Findings](#findings)
* [What the properties excuse](#what-the-properties-excuse)
* [Not modelled, and what comes next](#not-modelled-and-what-comes-next)

## How to run it

    tlasany DeflateCompress.tla
    tlc -workers 2 -config DeflateHybrid.cfg MCDeflateCompress
    tlapm DeflateCompress_proofs.tla

`PROJECT.json` lists the components, the runs with their configurations and the
properties each checks, the mutation each property is known to catch, the
lines of code behind every definition, the hazards of the code, and the main
theorems. Paths below are relative to the repository; line numbers are written
D for `src/cozip_deflate/src/lib.rs`, DG for its `gpu.rs`, S for
`src/cozip_pdeflate/src/pdeflate/stream.rs`, P for
`src/cozip_pdeflate/src/pdeflate/mod.rs`, G for its `gpu.rs`, Z for
`src/cozip/src/lib.rs`, U for `src/cozip_util/src`.

## Inventory of the system

| component | state | what is hard | correct when |
|---|---|---|---|
| Hybrid DEFLATE stream compressor (D 3162-3925) | task queue and `closed` under one mutex, compressed chunks and `ready_bytes` under another, an error slot, atomics | two throttles that wait for each other through the writer; conditions that depend on atomics changed outside their lock; batches out of the middle of the queue; the end of the input overtaking two tests of the writer; errors nobody is told of | no chunk lost or duplicated, output in order and final, exact counters, no lost wake-up, the call returns, with the error |
| PDeflate stream compressor (S 35-355, 1303-1456) | one mutex and condition variable around three queues, a level, the results; an error slot with a flag | the gap between watermark and target; a flag raised before the lock that announces it; the end of the input after the last chunk was taken | as above, FINAL_STREAM on the last frame |
| PDeflate stream decoder (S 356-754, 1457-1630) | the same without the level, with a bound on results | the throttle against the order of the queues; an end that the stream announces and may announce wrongly; error paths that stop the others and such that do not | the stream in order, Ok means a whole stream, the call returns |
| PDeflate parallel-write decoder (S 756-1131, 1164-1292) | as the decoder's, and the file writer's | the error slot of the writer against the decoder's; the drain after the joins | Ok means every chunk is in the file |
| PDeflate in-memory scheduler (P 3451-4212) | queues by index, result slots | the CPU spins while the device leads; panics | every chunk once and in order, the call returns |
| PDeflate chunk codec (P) | a chunk, its table, sections, Huffman codes, the payload | offsets, lengths and lookups that several routines compute apart; limits on code lengths | what is decoded is what was encoded; the two readers agree on every payload |
| PDeflate GPU runtime (G) | slots, scratches, rings of readbacks, high-water marks | answers in any order; mappings given up and buffers used again | every chunk answered once and as itself, a buffer serves one submission, calls return |
| DEFLATE GPU batches (DG) | slots with their mappings, pending counts and packs | two rounds of mappings in any order, a fault in one of many | as above |
| Indexed DEFLATE decoder (D 947-1750) | queue, results, error slot | a producer that nobody wakes; sizes that an index claims | Ok means the whole output |
| Bit writer, chunk mux, layout parser, CZDI index, CRC-32 combination (D, Z 3960-4018) | pure | chunks that begin within a byte | the stream decodes as one and, by the index, chunk by chunk; damage is refused |
| Parallel file writer and reader, prefetch reader (U, D 295-411) | pending bytes and operations, an error slot, a ring, a port or a pool | a drain against submits and errors, short transfers, a ring that is not created | a barrier; a file handed out without a gap |
| ZIP archives (Z) | entries, central directory, indexes, end records | where the index goes, ZIP64 thresholds, spool files of several workers | what is written can be read |
| Extraction and directory scheduling, progress (Z) | task queues, error slots, totals, backlogs | which error stops whom | totals are exact, Ok means everything was extracted |
| PDeflate archives (Z) | a parser, a dispatcher with a bounded backlog; a reader with a budget | pieces of any size; a fragment in flight; back-pressure through two queues | Ok means every file is whole, the call returns |
| Desktop application (`src/cozip_desktop`) | a plan, a window, a job shared with a thread | names that are free when they are chosen; progress copied while it changes | nothing overwritten unasked, outputs of their own, the window tells the truth |
| Installer and uninstaller (`src/cozip_win_installer`) | files, registry keys, what waits for a restart, a window and a thread | failures and kills between the steps, a library in use, one program after the other | what they say they did is so |
| Shell extension, packaging, examples | - | - | only what the installer registers is modelled |

They interact by calls (the archive level calls the stream level through
`Read` and `Write`), by queues between threads of one call, by the error slots,
and through what one assumes of the other: the parallel decoders of the file
writer, the stream compressors of a device batch, the desktop application of
the coding.

The hazards of all of these, each at its line with the properties that cover it,
are in `PROJECT.json`.

## The modules

| module | what it models |
|---|---|
| `OrderedChunkPipe` | what a chunked stream stage promises: accept in order within a window, emit in order, "ok" only after the whole input was read |
| `FileWriteBarrier` | what a file writer promises: each accepted write once, drain as a barrier, errors told |
| `ChunkBytes` | lengths as additive measures on sets of chunks |
| `DeflateCompress`, `PdeflateCompress` | the two stream compressors |
| `PdeflateDecode` | the PDeflate stream decoder |
| `PdeflateParallelDecode` | the PDeflate decoder over the file writer |
| `DeflateIndexedDecode` | both forms of the indexed decoder, the second over the file writer |
| `ParallelFileWriter` | submit, drain and the backends: io_uring, completion ports, pool of threads |
| `ParallelPrefetchReader` | reading ahead over the same backends |
| `Readers` | the parallel-write decoder, the indexed decoder and the prefetch reader, side by side over their backends |
| `PdeflateInMemory` | a whole buffer compressed and decoded by CPU and GPU workers |
| `ChunkOrder` | picking and sorting the chunks of a device's calls, groups and answers |
| `PdeflateGpuDecode`, `PdeflateGpuTrueBatch`, `PdeflateGpuBatch` | decoding on slots, decoding in true batches, compressing in groups |
| `DeflateGpuBatch` | the batches of the DEFLATE device, in the fixed and the dynamic mode |
| `PdeflateHuffman`, `PdeflateChunk`, `PdeflateCodec` | the entropy stage, the chunk format with its readers, a stream on its way |
| `DeflateBits`, `DeflateFormats` | blocks bit by bit, CRCs and varints; the stream of several chunks and its index |
| `PdeflateArchiveFormat`, `PdeflateArchiveReader`, `PdeflateArchiveWriter` | directories as PDeflate archives |
| `ZipArchive`, `ZipDirectoryCompress`, `ZipDirectoryExtract` | ZIP files, and the workers that write and extract them |
| `InstallLifecycle` | installer, uninstaller, Explorer and restarts |
| `DesktopJobs` | command line, settings, job thread and window of the desktop application |
| `MCDeflateCompress`, `MCPdeflateCompress`, `MCPdeflateBoth`, `MCPdeflateDecode`, `MCReaders`, `MCCodecs`, `MCArchives`, `MCGpu` | instances and compositions for TLC |
| `ChunkBytes_proofs` | lemmas on weights, sums, finite sets and numbers |
| `DeflateCompress_proofs`, `PdeflateCompress_proofs`, `PdeflateBoth_proofs`, `PdeflateDecode_proofs`, `Files_proofs`, `Gpu_proofs`, `MCGpu_proofs` | the theorems |

## How to read them

### Conventions of the concurrent modules

* One action is one critical section, or one step on atomics between two of
  them. Thread positions are `producer`, `worker[w]`, `writer` and the like;
  the places have the names of what the thread is about to do. What a thread
  has in its hands (its local variables) between two actions is `held[a]`, or a
  field of its record.
* A condition variable is the set of the threads asleep on it. `notify_all`
  empties the set; a thread takes its next step only when it is not in the set.
  `SpuriousWake` may take any thread out for no reason, without fairness: no
  property may rely on it.
* A queue of chunks is a set of indexes where there is one producer, which
  pushes increasing indexes, and nothing is ever pushed back: its front is the
  minimum. Elsewhere it is a sequence.
* A chunk of the stream stages is its index, and what the threads decide on is
  its length: a measure on sets of chunks that is additive and non-negative. In
  the instances the measures are sums, in the proofs only additivity is used.
* Faults are injected by constants (`Faults`, `JobFaults`, ...): what may fail at
  any time. What cannot fail on purpose but is reported as an error is in the
  model whatever the constant is. Where TLC needs it a bound is on the number of
  faults (`MaxTrouble`) or of what others do (`MaxOthers`, `MaxSessions`).
* Left out: poisoned locks, statistics, profiles and logging, and time. A wait
  with a timeout is a step that is always possible. Panics are modelled where
  somebody waits for the thread that panicked.
* Relaxed atomics are taken as sequentially consistent. In each place where the
  code reads several of them, the readers tolerate any order: `LimitHit` reads
  three in one step because `written_tasks` only grows and `inflight_raw_bytes`
  only shrinks by the writer's hand while the producer looks, so a mixed reading
  can only keep the producer waiting, and the writer notifies after each change.
  Where the order matters the model keeps it: the writer's load of `total_tasks`
  and its look at `closed` are two steps (`check_total`, `check_closed`).

Sections named "Slips", or a comment that begins with "Slip for TLC", hold
variants of the definition that follows with a plausible mistake in each. They
are not part of the specification; putting one in the place of its original
must make a property fail, which shows that the property can fail.

### The stream stages

`DeflateCompress`. The producer goes `top` (error slot), `gate` (the two
limits), `read`, `push`; at EOF it closes the queue. A worker goes `top`, `gate`
(room in the ready map), `pop`, `compress`, `insert`. `CpuPop` takes the front,
`GpuPop` a batch of eligible tasks with the tail stop of
`should_stop_gpu_tail_pop`; `Insert` waits for room for the whole batch, as
D 3883 does. A chunk that cannot be compressed is stored and is longer than it was;
the lengths are parameters, and the instance uses stored ones. The calling thread takes the next chunk (`WriterTake`), loads
`total_tasks` (`LoadTotal`), tests `closed` and writes (`WriteChunk`), moves its
atomics (`Account`), notifies (`NotifyReady`, `NotifyQueue`) and looks for the
end (`CheckDone`). A failing write leaves at once.

`PdeflateCompress`. `ReadChunk`, then `ProducerSleep`, `ProducerGivesUp`,
`ProducerEof` or `Enqueue` under the lock; EOF waits for room like a chunk. `Pop`
covers both policies; `Suitable` is what a worker may take, `Batch` how much.
`SeeError`, `TakeResult`, `SeeEnd`, `WriterSleep` are the ways a pass under the
lock ends, in the order of the code; `CheckError` is `take_worker_error`;
`WritePrev`, `WriteFinal` and `Hold` are the writes. `RecordError` sets the slot
and, if it was empty, the flag; `StopAfterError` is the critical section after
it.

`PdeflateDecode`. The stream is `NumChunks` frames, and `final`, chosen freely,
is the set of those that carry FINAL_STREAM, so that well-formed streams,
streams that stop early and streams that never say so are all inputs. `Push`
queues a frame and, if it is final, looks for trailing bytes under the same
lock. `Batch` is what a worker takes: `HeadOf` when `Throttled`, else up to its
limit of what is `Suitable`. `DecodeFails` is followed by `StopAfterError`;
`FallbackFails` is the GPU worker's exit that records an error and stops nobody.
`PdeflateParallelDecode` is the form without a calling thread that writes: each
worker submits what it decoded to `ParallelFileWriter`, whose actions it is
composed with, and the caller drains. `DeflateIndexedDecode` has both forms.

`ParallelFileWriter` has three backends behind one gate: `Ring` (submissions,
completions, short writes that are queued again), `Iocp` (a completion thread
that leaves after two empty packets) and `Pool`. A setup chooses the backend and
its faults. `FileWriteBarrier` is what it implements, and `WriterSpec` is the
writer alone, used as its callers use it: a client submits a write at most once
(`SubmitFresh`), and the drain begins when nobody is in `submit` (`DrainQuiet`).
`Readers` puts both decoders and the prefetch reader side by side; a scenario is
one of them with its backend and its faults.

`PdeflateInMemory` compresses a buffer and hands what was written, or a damaged
stream, to the decoder. `queues` are those of `CompressTaskQueueState`, of which
a policy uses one or two; a worker is at `top` (the error flag), `pop` (the
queue's lock), `work`, `left` or `panicked`. `Kept` is the order-preserving
filter that both the initial split and the two searches of the device come down
to. `CompressReturns` and `DecodeReturns` are what follows the joins.

### The device

The kernels are external: a submission is given, the device finishes it with a
result that may be wrong, and mappings come back in any order, fail, or come too
late. What is modelled is what the host does about it. `PdeflateGpuDecode` goes
round the loop of `decode_chunks_gpu_v2`: it collects, submits in groups of
`MicroSubmit` to slots of two classes, and waits at its high-water marks; a slot
whose mapping was given up is free again, and using it while the device still
maps it is the stage "panicked". `PdeflateGpuTrueBatch` has callers that share a
pool of scratches. `PdeflateGpuBatch` submits groups of chunks, collects them in
order, and falls back chunk by chunk. `DeflateGpuBatch` follows the two batch
calls of the DEFLATE device: the fixed mode maps the lengths and then the
payloads of a group; the dynamic one counts symbols, makes or finds a plan for
each chunk, packs, checks and collects, with a scan of as many levels as the
slot was made for.

### The formats

The codecs are the algorithms of the code over small alphabets: bytes of four
bits, codes of four bits at most, tables of a few entries, CRCs of eight bits.
`PdeflateChunk` makes the table of repeated strings, finds matches, writes
commands into sections, encodes them (`PdeflateHuffman`: lengths from
frequencies, the repair of those that are too long, canonical codes, the lookup
with two levels) and lays out the payload; `decode` and the preparation for the
GPU read it. `PdeflateCodec` damages what is stored in between. `DeflateBits`
parses blocks and finds the end of a stream; `DeflateFormats` compresses chunks
one by one as the CPU or the device may, joins them with connecting blocks,
marks the last, makes the index with its varints and its CRC, and decodes the
whole and each chunk alone. flate2 is external: an encoder that may choose any
blocks, and a decoder of them.

An archive is a sequence of units of which only some are looked at: lengths and
tags are one unit, so that pieces may end within any of them. `ZipArchive` is
the writer's layout read back; a file's data may look like an end record, and
`U32Max` and `MaxInline` are small enough that ZIP64 fields and the area behind
the directory occur. `ZipDirectoryCompress` has several calls of a process: the
clock stands still between them or goes on, and those that begin in the same
millisecond share a directory of spool files, which may be removed under them
(a file that is open stays). `ZipDirectoryExtract` chooses what each entry decodes
to, which is what it declares or not; the decoder writes and reports all of it.

### The applications

`InstallLifecycle` has one machine and, one after the other, installers and
uninstallers on it, each of a later release. A step of the thread
(`perform_install`, `perform_uninstall`) is one entry written, one key set, one
thing asked of the next restart; between two steps the program may be killed.
An entry is created, which cuts off what was there, and then written. A deletion may
fail; it is then asked of the next restart, which may fail too. Explorer
loads the extension when it is registered and keeps it from being written.
`Settled` is the disk after the next restart. Keys stand for the trees that are
made and deleted together.

`DesktopJobs` turns a command line into a plan, as `parse_args` does, lets the
user change where the output goes, and starts the job's thread at once or on a
click. `names` says whose each entry is: what was there, a task's, or another
program's, which may create what `unique_path` would choose next. The window
copies what the thread shares and moves its bar a part of the way (`step_displayed_progress`).

## The runs

| run | instance | shows |
|---|---|---|
| `deflate_hybrid` | a CPU worker, the GPU with batches of two and a tail stop, 5 incompressible chunks, window 3, so that the ready map can be full; everything may fail | ownership, exact counters and both throttles, no lost wake-up, a drained pipeline on success, the final bit, refinement of the pipe, the call returns, with the error, but when the head of the line is blocked or a fault meets a thread asleep at a throttle |
| `pdeflate` | two instances: a queue for each, everything may fail; a shared queue without faults where the GPU takes batches of three that may end in the short last chunk | ownership, exact level, no lost wake-up, frames in order, nothing but the last chunk missing, no error without a fault, refinement, the call returns, with the error |
| `pdecode` | 6 chunks, results limited to 2: any stream on the shared queue; a queue for each with failing reader and decoders; every fault at once | ownership, no lost wake-up, the bound on what waits, the head of the line passes the throttle, Ok means a whole well-formed stream, refinement, the call returns but where two faults leave threads asleep |
| `readers` | 3 chunks and a backlog limit of 3, the same for both decoders; the parallel-write decoder over each backend with its faults; the indexed decoder to a stream and to a file, with a wrong index; a file of 7 bytes read ahead by 3 requests | Ok means the whole output, the writer's gate is exact, the writer is a barrier, everything ends but where it is known to sleep |
| `archives` | directories of up to five files through both archives with requests, pieces and fragments that end anywhere; two calls, of two workers and of one, that begin in the same millisecond or not; whole and damaged archives, entries that decode to more or less than they declare; two workers or threads wherever there are several; the codecs on chunks of up to 28 bytes and streams of up to three chunks | in order and within the budget, Ok means extracted, ZIP files are readable but where two calls shared a name, totals exact, the calls return; codecs exact, damage refused |
| `gpu` | three slots, one of them large; pools of one; two callers or workers; a buffer of four chunks on two CPU and two GPU workers; DEFLATE calls of more chunks than slots; three runs of installer and uninstaller with one failure or kill; jobs of up to two archives | every chunk answered once, as itself and in order; a buffer serves one submission; the calls return or panic, but for CPU workers that a panic has left behind a device; the applications are honest |
| `deflate_final_bit`, `deflate_roundtrip`, `pdeflate_final`, `pdecode_fallback`, `gpu_one_slot`, `chunk_options` | the smallest that show it | violations, see Findings |

Why the bounds are enough. A pipeline distinguishes a chunk only by being the
next to write, before it, or after it, by being the last or not, and by being
too small for the GPU or not. With three to six chunks and batches of two there
are chunks in every place at once, while the throttle is shut and opens again
several times. The limits are at the edge: a window smaller than the number of
chunks, a byte limit that is not a multiple of a chunk, a target between two
chunks and three, a watermark below the target. Rings and pools are one or two
long, so that they are full and are used again, and calls have more chunks than
there are slots. The alphabets of the codecs are small enough that tables are
full, codes too long, sections and chunks empty, extended lengths needed and
every bit position of a byte the beginning of a chunk. Three sessions are the
shortest history with an uninstall between two installs, and one failure is
enough to stop any of them at any step. What the proofs cover holds for every
value; for the rest the small instances are the evidence.

`SharedInstance`, `CodecsExact`, `DamageSeen`, `ReadersExact`, `GpuDecodeSound`,
`GpuCompressSound` and `AppsHonest` name what several modules promise together;
each conjunct is stated and explained in its module.

Deadlock is checked unless the system may really stop (`pdecode`, `readers`),
where the liveness properties say what may stay.

## Fairness

Weak fairness of each thread as a whole, and of the device where a call waits
for it. The code runs each in a thread of its own; the operating system
schedules every runnable thread, a Rust mutex is granted eventually, a read, a
compression or a write returns. Weak fairness is enough because a thread has one
enabled action at a time, or a choice of the environment. None is given to
faults, spurious wake-ups, users, other programs or restarts. A thread asleep
has no enabled step, so that a lost wake-up shows as a failure of liveness. In
the composed modules, where one scenario takes its steps, what would be fair
one by one is sometimes written as one condition; since the others are disabled
in that scenario, it says the same.

## The proofs

All of it is for every finite set of workers, every number and length of chunks,
every value of the options that the assumptions of the modules allow, and every
set of faults. The assumptions are the named `ASSUME`s of each module; TLC
evaluates them on every run.

`ChunkBytes_proofs` holds what the others share: what two disjoint sets weigh
together and what is left of a weight when a part is taken out (`BytesOf...`),
how many chunks a worker takes (`FirstFew`), that sums over a finite set exist,
are unique and additive (`Sums...`), and how a sum moves when one summand does
(`SumOf...`). The induction behind them is over values and not over formulas: a
family of sets, or a set of numbers, in which the claim fails has a smallest
member (`SmallestSet`, `LeastNat`, `GreatestNat`), and that one is refuted.

`DeflateCompress_proofs`: the inductive invariant `IInv` is `TypeOK`, `Hands`
(what each thread holds, by its place), `Indexes` (how the writer's index, its
atomic and the output move apart and together within one turn), `Partition`
(between the first chunk not written and the last one read each chunk is in
exactly one of the queue, the ready map and the hands), the exact counters, the
throttle's bound, and `Admitted` (a producer about to read has room, which the
writer can only enlarge). `ChunkOwnership` alone is not inductive: it does not
say that the chunks in flight come after those written, nor that the writer
holds the next one, nor that a worker about to pop has empty hands. On top of it
`Ends` follows the end of the input and the errors, `Blocks` the last load of
`total_tasks`. Theorems: `TypeCorrect`, `Ownership`, `Bytes`, `Inflight`,
`Ready`, `ThrottlesHold`, `Wakeups`, `Drained`, `FinalBit`, `Refinement`. That
the head of the line is blocked for want of room only (`BlockedByWeight`) follows
from the exact counter of the ready map and the length of what is in hand.

`PdeflateCompress_proofs`: `IInv` is `TypeOK`, `Hands`, `Frames` (the frames out,
the one held back and the chunk in the writer's hand are the first chunks in
order, in three shapes that the writer goes through), `Partition` and the exact
level. `Ends` carries the end of the input and the errors from the flag to the
slot to the result, `Flags` the verdict `is_final` to the frame, `Faultless` and
`Alert` are inductive on their own. Theorems: `TypeCorrect`, `Buffered`,
`Ownership`, `InOrder`, `OkIsAlmostComplete`, `Refinement`, `NoFaultNoError`,
`NobodyForgotten`.

`PdeflateBoth_proofs`: the second instance of `MCPdeflateBoth`, with the shared
queue and no faults, is one of `PdeflateCompress_proofs` too, whose assumptions
are proved of its parameters, so that its `IInv`, `Faultless` and `Alert` hold
there; the lemmas named `Same...` identify the instance's definitions with those
of the module. Theorem: `SharedIsSound`.

`PdeflateDecode_proofs`: `IInv` is `TypeOK`, `Hands` (a worker that failed keeps
what it had), `Frames` and `Partition`. `Ends` carries what the stream says of
its end, and the errors, to the result. `Throttle` bounds the results by what
each worker may hold, `Share`: a worker tests the limit when it takes chunks and
inserts them long after, so that the limit itself is not an invariant, and the
limit with one share for each worker is. `Alert` adds to `NoLostWakeup` who may
sleep at all. Theorems: `TypeCorrect`, `Ownership`, `OkIsWhole`, `Refinement`,
`ThrottleHolds`, `NobodyForgotten`.

`Files_proofs`, the file writer: `WInv` has the types; `Requests` (a client in a call
has a write of its own); `Machinery` (what each backend has of the state);
`Places` and `Contents` (a write the backend has is in one place there, one it
has not is complete, untouched or lost to an error); `Closing`, `Stopping` (a
backend that stopped did so on an error or has nothing left); and `Exact`, the
gate's count as the weight of the set of writes that passed it. `Flow` says what
any step does to a write, `Gate` what it does to the count; each action of each
backend is shown to be one of those few. Theorems: `WriterTypes`, `GateCounts`,
and `WriterIsBarrier`, the refinement of `FileWriteBarrier`.

`Files_proofs`, what is over it: the indexed decoder (`IInv`: `IndexTypes`, `Phases`, `Outcome`,
`Spread`, `Level`, `Linked`), the parallel-write decoder (`PInv`:
`DecoderTypes`, `Shared`, `Errors`, `Ends`, `Calling`) and the prefetch reader
(`RInv`: `PrefetchTypes`, `Chain`, `Room`). Both decoders have `WInv` of the
file writer beside their own: their steps on the writer are steps of
`WriterSpec`, which is where `SubmitFresh` and `DrainQuiet` are discharged, and
`Linked` and `Calling` say what the decoder knows of the writes it submitted.
The lemmas named `Same...` identify the instances' definitions with those of the
modules. Theorems: `DecodesAreWhole`, `DecodersGateCounts`, `DecodersBarrier`.

`Files_proofs`, extraction of a ZIP file: `ExtractInv` has `ExtractTypes`, `Suffix` (the queue is
the end of the list), `Shown` (what the progress shows is the sum of what was
written), `Scope`, and that there is a set `lost` of workers that failed, each
with an entry of its own, such that `Written`, `Having`, `Losses` and `Accounts`
hold: the totals are those of the entries that were taken and that nobody has.
The set is not a variable of the code, which only keeps the first error, and
that some set exists is what the proof carries. Theorems: `ExtractInvariant`,
`ExtractTotals`. More is written of an entry than it declares only if its data
decodes to more; it is then with a worker that decodes it or that has failed, since
what is accounted for has the size that it declares (`Fits`).

`Gpu_proofs`, buffers in memory: `IInv` has `MemoryTypes`; while threads run, `Queued`
(a chunk is once in one queue of the policy), `Spread` (each chunk is in a
queue, or with one worker, or has its result), `InHands` (who left with chunks has
stored an error or panicked) and `Quits` (a CPU worker, and the device when it
is forced, only leaves empty queues behind); and `Compressing`, `Decoding` and
`Returned` for the results. What makes the compressor complete is `Quits`
together with the fact that it has a CPU worker: the device may leave the tail
of its queue, and the CPU worker that finds its own queue empty may not leave
before that. Theorems: `MemoryInvariant`, `MemoryIsSound`.

`Gpu_proofs`, decoding on slots: `DecodeInv` has `SlotTypes`, `OpsNumbered` (a
submission has a number of its own), `SlotsHeld` (a slot is free, or works for
the submission that the loop waits for, or was given up and is written down as
such), `ChunkPlaces` (each chunk of the call is answered, or in one submission,
or still to come, and in one of these only) and `AnswersExact`. Decoding in true
batches: `TrueBatchInv` has `TrueBatchTypes`, `BatchesNumbered`, `ScratchesHeld`,
`RoundsInOrder` and `TrueBatchExact`; the rounds are where the order comes from:
`RoundsSettled` says that what is out is exactly the jobs of the rounds done that
are in no hand, and `JobsApart` that no caller has the same round out twice.
`SlotsSound`, `ScratchesSound` and the two about the answers are not inductive:
they do not say where a chunk is that is not answered, nor that a buffer that
nobody waits for is in no submission. Both decoders pick the chunks of a
submission out of a call, answer from two sources and sort at the end:
`PickedPositions` says that what is picked is what was meant, in its order, and
`SortedAnswers` that answers with each number of the call once, sorted, are in
the order of the call. The latter needs the numbers in a call to increase
(`CallsAssumption`, `JobsAssumption`): they do, since a call is a batch off the
front of a queue of chunks. `MCGpu_proofs` carries both to the composition that
the run checks, in which the other scenarios rest. Theorem: `GpuDecodesSoundly`.

`MCGpu_proofs` also has the PDeflate batches compressed with the device. `PackInv`
has `PackCalls` (where each thread is in its batch, what it has prepared and what
its groups will answer), `PackQueue` (a submission the device has is numbered, and
there once) and `PackHeld` (a scratch is hot, spare, or works for one group of one
thread, and one that went back mapped went back with an error). `GpuBatchExact`
alone is not inductive: it says nothing before the batch is returned. What has to
be known by then is where in a group's output each payload lies: the places follow
from the sizes of the chunks before, so that two of them never meet
(`PlacesApart`), and reading at a chunk's place gives its own bytes (`PayloadIs`).
Collecting is a recursive function over the groups; a lemma unrolls it once, and
the invariant of collecting is carried along it by the first group at which it
would fail, since the library's induction theorems are out of reach. Theorem:
`GpuPacksSoundly`, of `GpuBatchExact` and `SparseSound`, two of the four parts of
`GpuCompressSound`.

The three `Refinement` theorems say `Spec => PipeSpec`: reading is `Accept`, the
writer's accounting is `Emit`, the join is `ReturnOk` or `ReturnError`, every
other step is a stutter. That the stream stages share one abstract specification
is the point of `OrderedChunkPipe`; that it is silent on whether everything
accepted was emitted is what the code allows, see below.

Only model-checked, and why:

* every liveness property: it rests on fairness and ENABLED, which are out of the
  prover's reach;
* the codecs (`CodecsExact`, `DamageSeen`), and with them the formats: their
  operators are RECURSIVE or recurse over data, which the prover has no backend
  for;
* the DEFLATE half of `GpuCompressSound` (`CallsExact`, `SlotsReleased`): a proof
  needs the header of a plan to fit the spare bits of a chunk's buffer, which the
  code estimates and does not establish for very short chunks; to assume it would
  be to assume part of what is checked;
* the archives (`ReaderSound`, `OkMeansExtracted`, `ZipComplete`): they follow the
  formats' readers through data, the inversion of a recursive format;
* the applications (`AppsHonest`): nothing stands in the way of a proof like the
  ones above, but none was made.

## Findings

* `deflate_final_bit`: the writer decides BFINAL from `closed` and `total_tasks`
  as they are when it writes a chunk (D 3390-3394). If the producer meets EOF
  after the last chunk was written, no block carries BFINAL. With
  `stream_max_inflight_chunks = 1` this happens in every schedule.
  `docs/zip-compatible-hybrid-deflate-design.md` says that the last chunk has
  BFINAL=1.
* `deflate_roundtrip`: `total_tasks` is loaded before the lock under which
  `closed` is read (D 3466-3475). If the producer reads its last chunks and
  closes the queue in between, the writer leaves with chunks unwritten and the
  call returns Ok.
* `pdeflate_final`: `is_final` is decided when the last result is taken (S 281).
  If the producer meets EOF after that, the chunk is held back as not final and
  dropped when the loop ends: the call returns Ok without its last chunk and
  without FINAL_STREAM.
* `pdecode_fallback`: when a chunk the GPU handed back does not decode, or a GPU
  result comes without its payload, the GPU worker of the decoder records the
  error and returns without setting `stopped` or notifying (S 628-637, 651-658).
  With the calling thread asleep and the CPU workers idle, the call hangs.
  `docs/pdeflate-v0-spec.md` asks for an immediate error.
* `gpu_one_slot`: with one slot there is no large class, but its capacity is set
  as if there were (G 7122), so that a chunk too large for the slot seems to fit
  (G 8931). It is neither submitted nor sent to the CPU, and the loop never
  ends. `docs/pdeflate-gpu-decompress-design.md` says that what cannot be made to
  fit is decoded on the CPU.
* `chunk_options`: with `max_ref_len = 3` and a table entry of four bytes or more
  `find_best_match` looks at a fourth byte that `rebuild_repeat_table` did not
  fill (P 5696, 66-84), and the worker panics. `validate_options` accepts these
  options (P 1716, 1721).

The theorems bound the first three: `Drained` says that nothing is lost but what is in
the ready map, `FinalBit` that a final bit is never set before EOF,
`OkIsAlmostComplete` that the last chunk is the only one PDeflate can drop.

## What the properties excuse

What follows is in the models, or was seen on the way, and no document of the
repository says otherwise; a property that would fail because of it names it as
an exception.

* DEFLATE compressor: the GPU waits for room for its whole batch (D 3883), which
  may be more than the limit; a thread that fails does not notify `ready_cv`, nor
  one asleep on `queue_cv` when a write failed (`MayHang`). Without any fault,
  later chunks may fill the ready map while the worker with the next one to be
  written waits for room in it (D 3690, D 3883): nothing leaves the map any more,
  and the call does not return (`HeadBlocked`). It takes chunks whose compressed
  lengths reach the cap of the map; `Throttles` says how much (`BlockedByWeight`).
* PDeflate decoder: a write error leaves workers asleep that are throttled (S 727);
  with `gpu_decompress_force_gpu` there is nobody for chunks too small for the
  GPU, and the parallel form leaves zeros for them and returns Ok. The total in
  a header is never compared.
* File writer: the completion thread is joined after a failed write that it may
  not learn of; a ring that is not created tells nobody; short writes leave the
  backlog too large; `submit` counts before it looks for the sender
  (`linux.rs` 228-240).
* Indexed decoder: an error of the producer leaves the workers asleep (D 1141), an
  error of a worker the producer (D 1176).
* Archives: the reader opens its first file twice; `finish_dispatch` returns an
  error without stopping its threads (Z 4748); an entry of 2^32 - 1 bytes cannot
  be read back. Two calls of a process that begin to compress a directory in the
  same millisecond share the spool directory, append to each other's files and
  remove them (Z 1118): the ZIP file of such a call may hold the wrong data, or the
  call fails; calls that did not run together with one of the same name are safe.
  What an entry decodes to is written and shown before its size is compared
  (Z 4056, Z 4114): the progress passes the totals, and an error follows.
* PDeflate GPU: a slot or scratch whose mapping was given up is used again while
  the device still maps it, and panics; so does the next use of a scratch whose
  result could not be parsed. When the last GPU worker of a compression in memory
  leaves and one has panicked, with their queue above its tail and no error stored,
  the CPU workers spin for ever and the call neither returns nor panics (P 3543). A
  failing in-memory decode leaves the output's length set.
* PDeflate codec: `min_ref_len` above 64 panics; the repair of code lengths may
  end above the limit, against its comment (P 6254-6261), and the chunk is then
  stored plain.
* DEFLATE GPU: a plan that cannot be made sends the whole batch to the CPU; the
  self-check's fallback keeps the device's end bit (DG 3642); an early return
  leaves slots mapped (DG 3172). The sizes in a CZDI header are not covered by
  its CRC.
* Installer: deletions left for a restart delete what was installed in between, or
  the replacement that was to be moved then; the extension comes back at the
  restart when its replacement was put off and the uninstaller could not delete it;
  the window says "completed" and 100 % after a failure too; the uninstaller's
  registry entry goes before the files; a panic of the thread leaves
  "Installing". The release pipeline packs the library under its final name, so
  that the installation fails while Explorer holds it.
* Desktop: a default name that was free may be taken when the job starts; with
  "browse" an output may be its own source; `unique_path` gives up after 9999 and
  returns a name that is taken (`launch.rs` 639); a failed job leaves its partial
  output or its staging directory.

## Not modelled, and what comes next

Left out for good: the kernels (WGSL) and the set-up of device, pipelines and
memory; other people's code (flate2, the TAR, 7z and RAR readers); the decoding
of file names and archives by other writers; statistics, profiles and logging;
rendering, translation and the steppers of the options; the COM objects of the
shell extension; packaging scripts, examples and benchmarks. They hold no state
that another part relies on, or are data and layout that a model would only
repeat.

Partly modelled, by the notes in `PROJECT.json`: the DEFLATE device (without its
kernels and tuning), the desktop application (without inspection and rendering),
the installer (without download and windows' drawing), the shell extension (its
registration only).

Next, in this order:

1. The archives: `OkMeansExtracted` for any directory, any pieces and any backlog,
   `ZipComplete` for any number of workers, `ReaderSound` for any budget.
2. Compression with the DEFLATE device: `CallsExact` and `SlotsReleased`, for plans
   whose headers fit, next to what `MCGpu_proofs` has for PDeflate's groups.
3. `InstallLifecycle` and `DesktopJobs`: their invariants for any number of
   sessions and jobs.

-------------------------------- MODULE MCReaders --------------------------------
(* An instance of Readers for TLC.                                             *)
EXTENDS Readers

CONSTANTS w1, w2, p1, p2

TwoWorkers == {w1, w2}
TwoPool    == {p1, p2}
OneCpu     == {w1}
OneGpu     == {w2}

MCSize   == [c \in Chunks |-> IF c = 1 THEN 1 ELSE 2]
MCPacked == [c \in Chunks |-> IF c = 2 THEN 2 ELSE 1]

\* Each backend without a fault, and with everything that may fail in it.
Quiet     == [backend : {"ring"}, faults : {{}}]
Failing   == [backend : {"ring"}, faults : {{"write"}}]
PoolSetup == [backend : {"pool"}, faults : {{}}]
MCSetups  ==
    Quiet \union Failing \union PoolSetup
    \union [backend : {"ring"}, faults : {{"enter", "write"}, {"create"}, {"short"}}]
    \union [backend : {"iocp"}, faults : {{}, {"write", "short"}}]
    \union [backend : {"pool"}, faults : {{"write"}}]

--------------------------------------------------------------------------------
\* The indexed decoder: both forms without a fault, with an index that is wrong and with
\* every fault, the writer's among them.
MCCalls ==
    [form : {"stream"}, faults : {{}, {"size"}, {"read", "trailing", "decode", "output"}},
     setup : Quiet]
    \union
    [form : {"file"}, faults : {{}, {"size"}}, setup : Quiet]
    \union
    [form : {"file"}, faults : {{"read", "trailing", "decode"}}, setup : Failing]

--------------------------------------------------------------------------------
\* The parallel-write decoder: a CPU worker and the GPU with batches of two, and the
\* second chunk is too small for the GPU.  Streams whose marks are right and wrong on a
\* ring without a fault, a stream with every fault of the decoder, every backend, and
\* calls without CPU workers.
WellFormed == {c \in Chunks : c + 1 = NumChunks}
Policies   == {"GlobalQueue", "GpuLedSplitQueue"}

ParallelCall(workers, policies, final, faults, setups) ==
    [workers : workers, policy : policies, final : final, faults : faults, setup : setups]
MCParallelCalls ==
    ParallelCall({TwoWorkers}, {"GpuLedSplitQueue"}, {{}, {0, 2}, WellFormed}, {{}}, Quiet)
    \union ParallelCall({TwoWorkers}, Policies, {WellFormed},
                        {{"read", "decode", "gpu", "fallback"}}, Quiet \union PoolSetup)
    \union ParallelCall({TwoWorkers}, {"GlobalQueue"}, {WellFormed}, {{}}, MCSetups \ Failing)
    \union ParallelCall({{}, OneGpu}, Policies, {WellFormed}, {{}}, Quiet)

--------------------------------------------------------------------------------
\* The prefetch reader: every backend without a fault, with reads that fail and come
\* short, and a ring that cannot be created.
MCPrefetchSetups ==
    [backend : {"ring", "iocp", "pool"}, faults : {{}, {"enter", "write", "short"}}]
    \union [backend : {"ring"}, faults : {{"create"}}]
================================================================================

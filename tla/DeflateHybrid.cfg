\* A CPU worker and the GPU worker, a window of three incompressible chunks and of
\* six bytes, readers, compressors and an output that fail.
CONSTANTS
    w1 = w1
    w2 = w2
    g1 = g1
    CpuWorkers <- OneWorker
    GpuWorkers <- OneGpu
    NumChunks = 5
    RawBytes <- MCRawBytes
    CompBytes <- MCStoredBytes
    ChunkSize = 2
    MaxInflightChunks = 3
    MaxInflightBytes = 6
    GpuBatchChunks = 2
    GpuMinChunkSize = 2
    TailStopPercent = 60
    Faults = {"read", "compress", "write"}
SPECIFICATION FairSpec
INVARIANTS ChunkOwnership Throttles NoLostWakeup OkMeansDrained FinalIsSticky
PROPERTIES PipeSpec Termination ErrorIsReturned

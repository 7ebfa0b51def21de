\* One CPU worker, a window of one chunk.
CONSTANTS
    w1 = w1
    w2 = w2
    g1 = g1
    CpuWorkers <- OneWorker
    GpuWorkers = {}
    NumChunks = 2
    RawBytes <- MCRawBytes
    CompBytes <- HalfBytes
    ChunkSize = 2
    MaxInflightChunks = 1
    MaxInflightBytes = 0
    GpuBatchChunks = 1
    GpuMinChunkSize = 2
    TailStopPercent = 100
    Faults = {}
SPECIFICATION Spec
INVARIANTS OnlyLastChunkFinal

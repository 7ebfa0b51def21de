\* The last chunk against the end of the input.
CONSTANTS
    w1 = w1
    w2 = w2
    g1 = g1
    CpuWorkers <- OneWorker
    GpuWorkers = {}
    NumChunks = 2
    RawBytes <- MCRawBytes
    ChunkSize = 2
    TargetBuffered = 4
    LowWatermark = 2
    GpuBatchLimit = 1
    GpuMinChunkSize = 2
    Policy = "GlobalQueue"
    Faults = {}
SPECIFICATION Spec
INVARIANTS EndsWithFinal

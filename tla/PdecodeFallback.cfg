\* A CPU worker and the GPU, no throttle: a chunk that the GPU hands back and that does not decode.
CONSTANTS
    w1 = w1
    w2 = w2
    g1 = g1
    CpuWorkers <- OneWorker
    GpuWorkers <- OneGpu
    NumChunks = 3
    DecodedBytes <- MCDecodedBytes
    ChunkSize = 2
    ResultLimit = 9
    GpuBatchLimit = 2
    GpuMinChunkSize = 1
    Calls <- HandedBack
SPECIFICATION FairSpec
PROPERTIES ErrorIsReturned

\* A CPU and the GPU worker under a throttle of two units: any stream on one queue,
\* a queue for each with a reader and decoders that fail, and everything that may
\* fail at once, after which threads may stay asleep.
CONSTANTS
    w1 = w1
    w2 = w2
    g1 = g1
    CpuWorkers <- OneWorker
    GpuWorkers <- OneGpu
    NumChunks = 6
    DecodedBytes <- MCDecodedBytes
    ChunkSize = 2
    ResultLimit = 2
    GpuBatchLimit = 2
    GpuMinChunkSize = 2
    Calls <- AllCalls
SPECIFICATION FairSpec
INVARIANTS ChunkOwnership NoLostWakeup OkMeansWholeStream ThrottleSound
PROPERTIES PipeSpec Termination ErrorReachesCaller
CHECK_DEADLOCK FALSE

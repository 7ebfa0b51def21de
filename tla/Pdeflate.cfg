\* A queue each for the CPU and the GPU with everything that may fail, and next to it
\* the shared queue without a fault, where the GPU may take the short last chunk.
CONSTANTS
    w1 = w1
    w2 = w2
    g1 = g1
    CpuWorkers <- OneWorker
    GpuWorkers <- OneGpu
    NumChunks = 5
    RawBytes <- MCRawBytes
    ChunkSize = 2
    TargetBuffered = 5
    LowWatermark = 2
    GpuBatchLimit = 2
    GpuMinChunkSize = 2
    Policy = "GpuLedSplitQueue"
    Faults = {"read", "compress", "write"}
SPECIFICATION BothSpec
INVARIANTS ChunkOwnership BufferedExact NoLostWakeup FramesInOrder OkMeansAllButLast SharedInstance
PROPERTIES PipeSpec Termination ErrorIsReturned

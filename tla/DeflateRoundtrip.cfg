\* CPU workers only and no limit, as in raw_deflate_stream_roundtrip_chunk_5mib_cpu_only.
CONSTANTS
    w1 = w1
    w2 = w2
    g1 = g1
    CpuWorkers <- TwoWorkers
    GpuWorkers = {}
    NumChunks = 3
    RawBytes <- MCRawBytes
    CompBytes <- HalfBytes
    ChunkSize = 2
    MaxInflightChunks = 0
    MaxInflightBytes = 0
    GpuBatchChunks = 1
    GpuMinChunkSize = 2
    TailStopPercent = 100
    Faults = {}
SPECIFICATION Spec
INVARIANTS OkMeansAllWritten

\* Three chunks, two workers, a queue of two units: both forms of the output without
\* and with faults; the parallel-write decoder on each backend; and a file of seven
\* bytes in requests of two, read ahead by three of them or five bytes.
\* Where a reader or a decoder fails, on a completion port after a failed write and on a
\* ring with short writes the system may really stop.
CONSTANTS
    w1 = w1
    w2 = w2
    p1 = p1
    p2 = p2
    Reader = Reader
    Drainer = Drainer
    Close = Close
    Clients <- TwoWorkers
    CpuWorkers <- OneCpu
    GpuWorkers <- OneGpu
    PoolWorkers <- TwoPool
    Writes <- Chunks
    Size <- MCSize
    Packed <- MCPacked
    NumChunks = 3
    QueueCap = 2
    LowWatermark = 1
    BacklogLimit = 3
    MaxInflight = 2
    GpuBatchLimit = 2
    GpuMinChunkSize = 2
    FileLen = 7
    RequestSize = 2
    PrefetchOps = 3
    PrefetchBytes = 5
    PrefetchLimit = 5
    Setups <- MCSetups
    Calls <- MCCalls
    ParallelCalls <- MCParallelCalls
    PrefetchSetups <- MCPrefetchSetups
SPECIFICATION ReadersSpec
INVARIANTS ReadersExact GateExact
PROPERTIES FileBarrierSpec ReadersReturn
CHECK_DEADLOCK FALSE

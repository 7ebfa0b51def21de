\* A single slot (gpu_slot_count = 1): the large slots are none, and no fault.
CONSTANTS
    a = a
    b = b
    c1 = c1
    c2 = c2
    g1 = g1
    g2 = g2
    Scenarios = {"slots"}
    DecodeCalls <- MCDecodeCalls
    SlotCount = 1
    NormalCap = 1
    MicroSubmit = 2
    TargetInflight = 1
    WaitHigh = 1
    SpinPolls = 2
    MapTimeout = FALSE
    DeviceFaults = {}
    BatchCallers <- TwoThreads
    BatchJobs <- MCBatchJobs
    SuperBatch = 2
    ReadbackRing = 2
    CopyDepth = 2
    TruePoolLimit = 1
    BatchTimeout = TRUE
    BatchFaults = {"kernel", "map"}
    GpuWorkers <- TwoThreads
    WorkerBatches <- MCBatches
    SubmitGroup = 2
    SparseTarget = 1
    SparseWaitHigh = 2
    SparsePoolLimit = 1
    SparseFaults = {"table", "submit", "match", "readback"}
    CpuSide <- TwoCpu
    GpuSide <- TwoGpu
    GpuBatchLimit = 2
    TailStopPercent = 50
    MemorySetups <- MCMemorySetups
    DamagedStreams <- MCDamagedStreams
    MemoryFaults = {"cpu", "gpu", "panic", "mismatch"}
    DeflateJobs <- MCDeflateJobs
    SlotLimit = 3
    DeflateGroup = 2
    ScanBlock = 2
    MaxPerByte = 1
    Spare = 3
    HashOf <- Parity
    HuffmanPlans <- MCPlans
    DeflateFaults = {"map", "kernel"}
    Packs <- MCPacks
    MaxSessions = 3
    MaxTrouble = 1
    FaultKinds = {"net", "disk", "registry", "schedule", "window"}
    CommandLines <- MCRequests
    DesktopEntries <- MCEntries
    Before <- MCBefore
    Offered <- MCOffered
    LastSuffix = 3
    Parts = 2
    FullBar = 4
    MaxOthers = 1
    JobFaults = {"create", "stage", "code", "panic"}
SPECIFICATION GpuSpec
PROPERTIES TooLargeGoesToTheCpu

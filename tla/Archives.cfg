\* Small files and a small budget, so that requests, pieces and fragments end within
\* records and files; two threads wherever the code has several.
CONSTANTS
    a = a
    b = b
    t1 = t1
    t2 = t2
    m1 = m1
    Directories <- MCDirectories
    RequestSize = 2
    MaxOps = 2
    ReadBudget = 5
    Reserve = 2
    MaxOpen = 6
    ReadSizes = {1, 3, 4}
    ReadFaults = {"io"}
    Streams <- MCStreams
    PieceSizes = {1, 5, 9}
    DispatchThreads <- TwoThreads
    Main = m1
    WriteBacklog = 2
    WriteFaults = {"path", "write"}
    MaxInline = 2
    U32Max = 2
    ZipCalls <- TwoCalls
    ZipWorkers <- MCZipWorkers
    FilesOf <- MCFilesOf
    LastMillis = 1
    ZipFaults = {"file", "remove"}
    ExtractTasks <- MCExtractTasks
    DamagedLengths = {1}
    ExtractWorkers <- TwoThreads
    ExtractFaults = {"read", "decode"}
SPECIFICATION ArchivesSpec
INVARIANTS ReaderSound OkMeansExtracted ZipComplete ExtractExact CodecsExact DamageSeen
PROPERTIES ArchiveExtractReturns

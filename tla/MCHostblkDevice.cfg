CONSTANTS
    UnitIds = {0}
    Attached = {0}
    SectorCount <- MCSectorCount
    WriteProtect <- MCWriteProtect
    SectorBytes = 2
    RamCells = 2
    Values <- MCValues
    Ptrs <- MCPtrs
    Readable <- MCPtrs
    Descriptors <- MCDescriptors
    SubmitCapacity = 2
    CompletionCapacity = 2
    CounterLimit = 4
    InitialDesc <- MCInitialDesc
    InitialMem <- MCInitialMem
    InitialDisk <- MCInitialDisk
    MaxDoorbells = 0
    x = x
    y = y
    z = z
    Clients <- MCClients
    Requests <- MCRequests
    HiUnit = 2
    MaxIssues = 3
SPECIFICATION FairDevSpec
INVARIANTS PoolAgreesWithCard ReturnedMeansReleased
PROPERTIES ImplementsBlockService EveryRequestReturns

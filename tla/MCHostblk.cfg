CONSTANTS
    UnitIds <- MCUnitIds
    Attached <- MCAttached
    SectorCount <- MCSectorCount
    WriteProtect <- MCWriteProtect
    SectorBytes = 2
    RamCells = 2
    Values <- MCValues
    Ptrs = {"p", "bad"}
    Readable = {"p"}
    Descriptors <- MCDescriptors
    SubmitCapacity = 2
    CompletionCapacity = 1
    CounterLimit = 2
    InitialDesc <- MCInitialDesc
    InitialMem <- MCInitialMem
    InitialDisk <- MCInitialDisk
    MaxDoorbells = 4
SPECIFICATION Spec
INVARIANTS TypeOK ExactlyOnceInOrder
PROPERTY ResidueIsHonest

CONSTANTS
    VramPages = 32
    FastPages = 384
    MAX_BOARDS = 8
    Z2Slots <- MCZ2Slots
    Z3Slots <- MCZ3Slots
    RomFull = TRUE
    RomPages = 8
    HasExtRom = FALSE
    FastShared = TRUE
    MayShutUp = {"fastram", "vram"}
    Offsets <- MCOffsets
    Radix = 8
    Functions <- MCFunctions
    MaxDev = 3
    PCI_MEM_BASE = 1024
    PCI_MEM_BYTES = 192
SPECIFICATION MachineSpec
INVARIANTS
    DirectMapAgrees
    DmaSeesWhatTheCpuWrites
    PlacedBoardsAnswer
    NoTwoFunctionsAnswer
    RecordedBarsResolve
CHECK_DEADLOCK FALSE

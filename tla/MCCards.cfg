CONSTANTS
    SECTOR_BYTES = 2
    UNIT_COUNT = 2
    Attached = {0, 1}
    Sectors = 2
    RegMod = 3
    MaxCommands = 2
    Words = 64
    VramLen = 40
    Catalog <- MCCatalog
    SizeValues = {1, 2, 3}
    SpanValues = {0, 4, 8, 32, 60}
    CharCell = 2
    ByteSpan = 4
    MinDim = 4
    MaxDim = 8
    VramBytes = 40
    Modes <- MCModes
    MaxPorts = 3
    BlitVram = 16
    AddrSpan = 32
    BITS = 2
    DWORD = 2
    Capacity = 4
    BlitConfigs <- MCBlitConfigs
    FeedBytes = {1, 2}
    MaxBlits = 2
    W = 4
    RamWords = 16
    AreaBlits <- MCAreaBlits
    LineBlits <- MCLineBlits
    MaxRuns = 1
    COPPER_INSTR_BUDGET = 7
    MAX_BANDS = 3
    MAX_DDF_WORDS = 3
    MAX_PLANES = 2
    Lines = 8
    PW = 4
    SpriteColors = 4
    HSpan = 8
    StdStart = 1
    StdDdf = 2
    FbWidth = 9
    FbHeight = 7
    PlaneRam <- MCPlaneRam
    Sprite <- MCSprite
    Screens <- MCScreens
    Lists <- MCLists
    Instructions <- MCInstructions
    MaxList = 5
    RamCells = 176
    OpenBus = 255
    RamFills = {0, 255}
    Boots <- MCBootsOf
    Tasks <- MCTasks
    MountList = 74
    DosInfo = 86
    Strings <- MCStrings
    BoardBases <- MCBoards
    Manufacturer = 77
    Product <- MCProduct
    Signature <- MCSignature
    MAX_WALK_ENTRIES = 2
    MaxMoves = 3
SPECIFICATION CardsSpec
INVARIANTS
    TransfersAreTheSectorsAsked
    PicturesStayInVram
    BlitIsItsRectangle
    BlitterDrawsItsPixels
    RenderedLineByLine
    ReportIsTheGuests
CHECK_DEADLOCK FALSE

CONSTANTS
    SerialBufCap = 2
    SerialInBufCap = 2
    OutputBufCap = 2
    InputBufCap = 2
    ReadSize = 2
    GuestTailCap = 1
    LineCap = 2
    MaxSent = 3
    MaxTyped = 2
    QueueCapacity = 3
    CounterLimit = 2
    MaxPushes = 10
    Rigs <- HostRigs
    Span = 2
    TightLoop = 4
    WedgeSeconds = 3
    StormThreshold = 3
    BacklogCap = 2
    Deadline = 1
    MaxAhead = 1
SPECIFICATION HostSpec
CHECK_DEADLOCK FALSE
INVARIANTS
    DiscreteEventsSurvive LatchCoversQueue
    SerialOutInOrder SerialInInOrder
    WedgeVerdictIsRight ScriptDirectivesAllAccepted

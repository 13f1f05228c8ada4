CONSTANTS
    QUEUE_SIZE_MAX = 2
    IdxMod = 4
    HdrLen = 1
    MaxPayload = 2
    NoData = NoData
    VNET_QUEUE_CAP = 8
    VNET_FRAME_MAX = 3
    EthHdrLen = 1
    EthMinFrame = 2
    Reads = {"r1", "r2"}
    Writes = {"w1", "w2"}
    ReadType <- SomeTypes
    AnyType = "any"
    DataLengths <- SomeLengths
    Arrivals <- SomeArrivals
    MaxIssues <- SomeIssues
SPECIFICATION DrvSpec
INVARIANTS EachBufferHasOneOwner AnsweredAsSent ReadersSeeArrivalOrder NeverFailsClosed NoCompletionStranded
CHECK_DEADLOCK FALSE

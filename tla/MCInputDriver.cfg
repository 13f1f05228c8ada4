CONSTANTS
    QueueCapacity = 2
    CounterLimit = 2
    MaxPushes = 4
    RingCapacity = 2
    AckModes = {TRUE, FALSE}
    OtherInt2 = TRUE
SPECIFICATION DriverSpec
INVARIANT DispatchesInOrder
PROPERTY KeysReachInput

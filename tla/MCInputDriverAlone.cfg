CONSTANTS
    QueueCapacity = 3
    CounterLimit = 2
    MaxPushes = 3
    RingCapacity = 2
    AckModes = {TRUE, FALSE}
    OtherInt2 = FALSE
SPECIFICATION DriverSpec
PROPERTY KeysReachInput
CHECK_DEADLOCK FALSE

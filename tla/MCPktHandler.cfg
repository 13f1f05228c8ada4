SPECIFICATION FairSpec
CONSTANTS
    MaxHandle = 3
    Errors = {2}
    LockAddrs = {l1, l2}
    FileAddrs = {f1}
    NoAddr = NoAddr
INVARIANTS OwnsItsHandle HeldHandlesResolve AnswersItsOwnRequest
PROPERTIES DroppedHandlesStayDropped EveryPacketIsAnswered
CHECK_DEADLOCK FALSE

CONSTANTS
    ByteBits = 3
    MemBytes = 32
    MaxOps = 64
    CacheSlots = 4
    Code <- MCCode
    Kernels <- MCKernels
    Iterations = {1, 3}
    Budgets = {4, 1000}
    Fills <- MCFills
    MaxCalls = 2
    MaxOrdinal = 4
    LogCapacity = 2
    CheckpointInterval = 2
    Bursts <- SomeBursts
SPECIFICATION CpuSpec
INVARIANTS ReplayFollowsRecording BlocksMeanTheirInstructions

CONSTANTS
    Keys <- MCKeys
    NoKey = NoKey
    GpuSlots = 2
    CpuSlots = 3
    Policy = "lru"
    Parts = 2
    SlotBytes = 2
    BudgetBytes = 5
    MaxConcurrent = 2
    Failures = {}
    MaxQueue = 2
    MaxStream = 8
    Depth = 1
SPECIFICATION PSpec
INVARIANT PrefetchNeverHinders

CONSTANTS
    Keys <- MCKeys
    NoKey = NoKey
    GpuSlots = 2
    CpuSlots = 3
    Policy = "lru"
    Parts = 2
    SlotBytes = 2
    BudgetBytes = 5
    MaxConcurrent = 2
    Failures = {"load", "stage", "transfer", "reconstruct", "compute"}
    MaxQueue = 2
    MaxStream = 8
    Depth = 2
SPECIFICATION PSpec
INVARIANTS PublishedContent SlotsOwned WithinLimits ResidencyRestored LayerServed NoStalePrefetch
PROPERTIES ImplementsLifecycle TurnEnds

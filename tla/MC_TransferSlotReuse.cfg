CONSTANTS
    k1 = k1
    k2 = k2
    k3 = k3
    Keys <- MCKeys
    NoKey = NoKey
    GpuSlots = 1
    CpuSlots = 2
    Policy = "lru"
    Parts = 2
    SlotBytes = 2
    BudgetBytes = 5
    MaxConcurrent = 2
    Failures = {"stage", "transfer", "reconstruct"}
    MaxQueue = 2
    MaxStream = 8
SPECIFICATION Spec
INVARIANT SlotNotReusedInFlight

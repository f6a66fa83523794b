CONSTANTS
    k1 = k1
    k2 = k2
    k3 = k3
    k4 = k4
    Keys <- MCKeys
    NoKey = NoKey
    GpuSlots = 2
    CpuSlots = 3
    Policy = "lru"
    UsedDevices = {"cuda", "cpu"}
    MaxAccess = 0
    MaxArcList = 0
SPECIFICATION HSpec
INVARIANTS TypeOK WithinSlots SlotStatsExact HoldsMostRecent
PROPERTY ImplementsStore

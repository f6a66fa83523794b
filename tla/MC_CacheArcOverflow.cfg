CONSTANTS
    k1 = k1
    k2 = k2
    k3 = k3
    Keys <- MCKeys
    NoKey = NoKey
    GpuSlots = 1
    CpuSlots = 1
    Policy = "arc"
    UsedDevices = {"cuda"}
    MaxAccess = 0
    MaxArcList = 2
SPECIFICATION Spec
INVARIANT WithinSlots

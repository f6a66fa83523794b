CONSTANTS
    k1 = k1
    k2 = k2
    k3 = k3
    k4 = k4
    Keys <- MCThreeKeys
    NoKey = NoKey
    GpuSlots = 2
    CpuSlots = 2
    Policy = "lfu"
    UsedDevices = {"cuda", "cpu"}
    MaxAccess = 3
    MaxArcList = 0
SPECIFICATION HSpec
INVARIANT WithinSlots
PROPERTIES ImplementsStore HotterSurvives

CONSTANTS
    NumLayers = 2
    NumExperts = 2
    Disks <- MCDisks
    Preloads <- MCPreloads
    Requests <- MCRequests
    NoRequest = NoRequest
    NoCache = NoCache
    Failures = {"build", "expert"}
    MaxStack = 2
SPECIFICATION ESpec
INVARIANT StackBuiltOnce

CONSTANTS
    NumLayers = 2
    NumExperts = 2
    Disks <- MCDisks
    Preloads <- MCPreloads
    Requests <- MCRequests
    NoRequest = NoRequest
    NoCache = NoCache
    Failures = {"build", "expert"}
    MaxStack = 2
SPECIFICATION ESpec
INVARIANTS InitializedComplete ContextAligned TokensAccounted DoubledStackRefuses UniformStoreServes
PROPERTY CallEnds

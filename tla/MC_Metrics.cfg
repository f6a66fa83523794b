CONSTANTS
    Threads = {u1, u2, l1, l2}
    Loops = {l1, l2}
    Calls <- MCCalls
    Free = Free
    NoValue = NoValue
    NoThread = NoThread
    MaxCount = 2
SPECIFICATION RSpec
INVARIANTS NothingLost SnapshotConsistent OneReporter KeepsReporting
PROPERTY StopEnds

SPECIFICATION FairSpec
CONSTANTS
    k1 = k1
    k2 = k2
    Procs = {p1, p2}
    Keys = {k1, k2}
    MaxKeys = 1
    LockWait = 1
    OrphanAge = 1
    None = None
    MaxCalls = 3
    LeftBehind = TRUE
    Worlds <- WorldsOfTwo
INVARIANT NeverOvercounts
PROPERTIES CountsOneByOne EveryCallEnds

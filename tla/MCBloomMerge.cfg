SPECIFICATION MergeSpec
CONSTANTS
    Parts = {"sketches"}
    Clients = {c1, c2}
    Keys = {k1, k2}
    TTL = 1
    MaxEntries = 1
    CacheErrors = FALSE
    MaxRuns = 3
    MaxForgets = 1
    MaxClock = 2
    LockTTL = 2
    WaitTimeout = 1
    MaxTime = 3
    N = 3
    MaxDeps = 2
    Secs = 3
    MaxSec = 7
    MaxRecords = 4
    Labels = {n1, n2, n3}
    Nil = Nil
    Lateness = {0}
    SketchKinds = {"bloom"}
CHECK_DEADLOCK FALSE
PROPERTY MergeReturns

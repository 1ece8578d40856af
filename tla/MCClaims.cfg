SPECIFICATION ClaimsSpec
CONSTANTS
    Parts = {"amounts", "algorithms", "containers", "emit", "shutdown", "idempotency", "windows",
             "producer"}
    Clients = {c1, c2}
    Keys = {k1}
    TTL = 1
    MaxEntries = 1
    CacheErrors = FALSE
    MaxRuns = 3
    MaxForgets = 1
    MaxClock = 1
    LockTTL = 2
    WaitTimeout = 1
    MaxTime = 3
    N = 2
    MaxDeps = 2
    Secs = 3
    MaxSec = 7
    MaxRecords = 4
    Labels = {n1, n2, n3}
    Nil = Nil
    Lateness = {0}
    SketchKinds = {"bloom", "countmin", "hyperloglog", "reservoir", "objpool", "featureflag",
                   "middleware"}
SYMMETRY Symmetry
CHECK_DEADLOCK FALSE
INVARIANT SomeStatementHolds

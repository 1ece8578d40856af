SPECIFICATION Spec
CONSTANTS
    Parts = {"idempotency", "redislock", "shutdown", "window", "containers", "windows",
             "sketches", "amounts", "cells", "adapters", "producer", "emit", "algorithms"}
    Clients = {c1, c2}
    Keys = {k1, k2}
    TTL = 1
    MaxEntries = 1
    CacheErrors = FALSE
    MaxRuns = 3
    MaxForgets = 1
    MaxClock = 2
    LockTTL = 2
    WaitTimeout = 1
    MaxTime = 3
    N = 3
    MaxDeps = 2
    Secs = 3
    MaxSec = 7
    MaxRecords = 4
    Labels = {n1, n2, n3}
    Nil = Nil
    Lateness = {0, 1}
    SketchKinds = {"bloom", "countmin", "hyperloglog", "reservoir", "objpool", "featureflag",
                   "middleware"}
SYMMETRY Symmetry
CHECK_DEADLOCK FALSE
INVARIANTS
    TypeOK
    AtMostOneRun
    WindowExact
    StructuresAgree
    ArithmeticAgrees
    CellsAgree
    
    
PROPERTIES
    MutualExclusion
    HookOrder

SPECIFICATION Spec
CONSTANTS
    Threads = {t1, t2, t3}
    Secs = 1
    MaxRequests = 2
    MinRequests = 1
    FailPercent = 50
    OpenDuration = 1
    MaxTime = 2
    MaxCalls = 4
SYMMETRY Symmetry
CHECK_DEADLOCK FALSE
INVARIANTS SlotsSettle
PROPERTIES CooldownKept RecoveryIsClean

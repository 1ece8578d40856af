SPECIFICATION Spec
CHECK_DEADLOCK FALSE
CONSTANTS
    Parts = {"workerpool", "pipeline", "adaptive", "batcher", "semaphore", "fanout", "wtimer",
             "debounce", "limiter", "tcp", "udp", "udpretry", "calls", "flows", "kafka"}
    Some = {a1, a2, a3}
    Two = {b1, b2}
    Workers = {"w1", "w2"}
    Producers = {"p1", "p2"}
    Flushers = {"f1", "f2"}
    Publishers = {"p1", "p2"}
    Cancellers = {"u1", "u2"}
    Timers = {"m1", "m2"}
    NoConn = NoConn
    QueueSize = 2
    OutSize = 1
    PoolSlots = {1, 2, 3}
    MinPool = 1
    MaxPool = 2
    MaxAdds = 3
    Permits = 3
    MayClose = TRUE
    FanSubs = {"s1", "s2"}
    FanBuffer = 1
    MaxTime = 2
    MaxTimers = 3
    MaxClock = 2
    MaxCalls = 3
    Algorithms = {"token", "leaky", "fixed", "gcra", "sliding", "redis"}
    TcpPool = 1
    TcpRetries = 1
    TcpCalls = 2
    RetryBudgets = {0, 1, 2}
    DefaultRetries = 2
    FlowKinds = {"fsm", "bus", "merge", "server", "throttle", "publicip"}
    Messages = 3
    ChanCapacity = 1
    Sessions = 2
    StreamErrors = 1
SYMMETRY Symmetry
INVARIANTS
    TypeOK
    ExactlyOnce
    CloseDrains
    ChannelsSafe
    PermitsConserved
    NoLostWakeup
    NoDoubleRun
    RateBound
    ConnsAccounted
    ReplyMatches
    EffectsBounded
    FlowsAgree
    CommitsAreEarned

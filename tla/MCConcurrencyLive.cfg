SPECIFICATION FairSpec
CHECK_DEADLOCK FALSE
CONSTANTS
    Parts = {"workerpool", "pipeline", "adaptive", "batcher", "semaphore", "fanout", "wtimer",
             "debounce", "limiter", "tcp", "udpretry", "flows", "kafka"}
    Some = {a1, a2}
    Two = {b1}
    Workers = {"w1"}
    Producers = {"p1", "p2"}
    Flushers = {"f1"}
    Publishers = {"p1", "p2"}
    Cancellers = {"u1"}
    Timers = {"m1", "m2"}
    NoConn = NoConn
    QueueSize = 1
    OutSize = 1
    PoolSlots = {1, 2, 3}
    MinPool = 1
    MaxPool = 2
    MaxAdds = 2
    Permits = 2
    MayClose = FALSE
    FanSubs = {"s1", "s2"}
    FanBuffer = 1
    MaxTime = 1
    MaxTimers = 2
    MaxClock = 1
    MaxCalls = 2
    Algorithms = {"token", "leaky", "fixed", "gcra", "sliding", "redis"}
    TcpPool = 1
    TcpRetries = 1
    TcpCalls = 2
    RetryBudgets = {0, 1, 2}
    DefaultRetries = 2
    FlowKinds = {"merge"}
    Messages = 2
    ChanCapacity = 1
    Sessions = 2
    StreamErrors = 1
PROPERTIES
    CloseReturns
    Served

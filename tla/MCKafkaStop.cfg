SPECIFICATION Spec
CONSTANTS
    Parts = {"kafka"}
    Records = {r1, r2, r3}
    Producers = {p1}
    Stoppers = {s1}
    QueueCap = 1
    RingCap = 1
    FileCap = 1
    SpillTypes = {"ring", "chain"}
    FlushBatch = 2
    MaxCrashes = 1
    BatchSize = 2
    MinSamples = 1
    MaxSends = 2
    Window = 2
    Threshold = 2
    Cooldown = 1
    PerSec = 1
    Retries = 1
    MaxTime = 3
    MaxLoggers = 3
    Closers = {c1, c2}
    CoreRecords = {d1, d2}
    Writers = {w1}
    None = None
SYMMETRY Symmetry
CHECK_DEADLOCK FALSE
INVARIANT StopDrainsQueued

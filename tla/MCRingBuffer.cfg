SPECIFICATION FairSpec
CONSTANTS
    Threads = {t1, t2, t3}
    Items = {a, b}
    Cap = 2
    Zero = zero
INVARIANTS TypeOK CursorsAgree NoLostWakeup
PROPERTIES CloseReleases FifoSpec
CHECK_DEADLOCK FALSE

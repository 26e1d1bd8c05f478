SPECIFICATION FairSpec
CONSTANTS
    Daemons = {d1, d2, d3}
    ConcurrentStart = TRUE
    StartDuringStop = FALSE
    MayCrash = FALSE
    None = None
CHECK_DEADLOCK FALSE
INVARIANTS OnlyOneDaemon

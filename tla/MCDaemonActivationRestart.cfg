SPECIFICATION FairSpec
CONSTANTS
    Daemons = {d1, d2}
    ConcurrentStart = FALSE
    StartDuringStop = TRUE
    MayCrash = FALSE
    None = None
CHECK_DEADLOCK FALSE
INVARIANTS ActiveIsReachable

SPECIFICATION FairSpec
CONSTANTS
    Daemons = {d1, d2, d3, d4}
    ConcurrentStart = FALSE
    StartDuringStop = FALSE
    MayCrash = TRUE
    None = None
CHECK_DEADLOCK FALSE
INVARIANTS OnlyOneDaemon ActiveIsReachable
PROPERTIES StopEnds ActivationSucceeds

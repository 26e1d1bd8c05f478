SPECIFICATION FairSpec
CONSTANTS
    Clients = {c1, c2}
    Lines <- ThreadLines
    Backlog = 2
    MayLeave = FALSE
    None = None
    Garbage = Garbage
    k1 = k1
    Keys = {k1}
    Data = {"A", "NXDOMAIN", "NODATA"}
    Expirations = {0}
    Capacities = {0}
    DefaultMax = 2
    MaxTime = 0
    IntMax = 1
    SizeModulus = 4
CHECK_DEADLOCK FALSE
INVARIANTS NoUseAfterDestroyed

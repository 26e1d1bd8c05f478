SPECIFICATION FairSpec
CONSTANTS
    k1 = k1
    k2 = k2
    glued = glued
    Queries = {q1, q2}
    Asked = {k1, k2}
    Prefixed <- Glued
    Responses <- AllResponses
    Malformed = Malformed
    MayStop = TRUE
    None = None
    Garbage = Garbage
    Keys = {k1, k2, glued}
    Data = {"A", "NXDOMAIN", "NODATA"}
    Expirations = {0}
    Capacities = {0}
    DefaultMax = 1
    MaxTime = 1
    IntMax = 400
    SizeModulus = 4
CHECK_DEADLOCK FALSE
INVARIANTS CacheReflectsNetwork
PROPERTIES EveryQueryEnds

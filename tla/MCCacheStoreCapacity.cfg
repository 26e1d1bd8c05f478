SPECIFICATION Spec
SYMMETRY KeySymmetry
CONSTANTS
    Keys = {k1, k2}
    Data = {d1}
    Expirations = {1}
    Capacities = {1}
    DefaultMax = 2
    MaxTime = 0
INVARIANTS CapacityRespected

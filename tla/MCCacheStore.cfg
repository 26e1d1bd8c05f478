SPECIFICATION Spec
SYMMETRY KeySymmetry
CONSTANTS
    Keys = {k1, k2, k3}
    Data = {d1}
    Expirations = {0, 1}
    Capacities = {0, 1}
    DefaultMax = 2
    MaxTime = 2
INVARIANTS TypeOK
PROPERTIES GrowthWithinLimit LiveLossesJustified ImplementsLossyCache

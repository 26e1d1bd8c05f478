SPECIFICATION FairSpec
CONSTANTS
    n1 = n1
    n2 = n2
    garbled = garbled
    r1 = r1
    r2 = r2
    s1 = s1
    s2 = s2
    v6 = v6
    Names = {n1, n2, garbled}
    Domain = n1
    Garbled = garbled
    Compressed = FALSE
    Servers = {r1, r2, s1, s2, v6}
    Roots <- RootList
    Ns = s2
    Modes = {"Recursive"}
    Nets <- TangledNets
    Unusable = {v6}
    Weathers = {"calm"}
    MaxDepth = 4
    Nothing = Nothing
CHECK_DEADLOCK FALSE
PROPERTIES Terminates

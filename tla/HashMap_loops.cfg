SPECIFICATION Spec
CONSTANTS
    k1 = k1
    k2 = k2
    k3 = k3
    k4 = k4
    v1 = v1
    v2 = v2
    m1 = m1
    m2 = m2
    Maps <- TwoMaps
    Keys <- TwoKeys
    Values <- OneValue
    Hash <- Collide
    FirstCap = 2
    MaxCap = 4
    MaxLoops = 2
PROPERTIES
    LoopsHold
    ImplementsOrderedMap
SYMMETRY AnyMapAndKey

SPECIFICATION CollectionsSpec
CONSTANTS
    k1 = k1
    k2 = k2
    k3 = k3
    k4 = k4
    v1 = v1
    v2 = v2
    m1 = m1
    m2 = m2
    Maps <- OneMap
    Keys <- FourKeys
    Values <- TwoValues
    Hash <- Collide
    FirstCap = 2
    MaxCap = 4
    MaxLoops = 0
    Programs <- SomePrograms
    Spare <- OneSpare
    Room = 5
INVARIANTS
    RemovingIsWhole
    TableSound
PROPERTIES
    ImplementsOrderedMap

CONSTANTS
    k1 = k1
    k2 = k2
    k3 = k3
    small = small
    large = large
    Miss = Miss
    Keys <- MCKeys
    Values <- MCValues
    KeyLen <- MCKeyLen
    ValueLen <- MCValueLen
    Capacities <- MCCapacities
SPECIFICATION Spec
INVARIANTS
    ListMatchesMap
    SizeIsExact
PROPERTIES
    DropsOldest
    SetMakesRoom
    IsBoundedCache

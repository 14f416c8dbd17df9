CONSTANTS
    k1 = k1
    k2 = k2
    k3 = k3
    small = small
    large = large
    Miss = Miss
    MaxFreq = 3
    Keys <- MCKeys
    Values <- MCValues
    KeyLen <- MCKeyLen
    ValueLen <- MCValueLen
    Capacities <- MCCapacities
SPECIFICATION Spec
INVARIANTS
    TypeOK
    ListsMatchMap
    SizeIsExact
    MinFreqIsLeast
PROPERTIES
    DropsLeastUsed
    IsBoundedCache

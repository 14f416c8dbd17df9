CONSTANTS
    r1 = r1
    r2 = r2
    k1 = k1
    k2 = k2
    k3 = k3
    Nil = Nil
    Keys <- MCKeys
    Readers <- TwoReaders
    Capacity = 3
    MaxSets = 3
    MaxRacySets = 3
SYMMETRY Symmetry
SPECIFICATION Spec
INVARIANT ConcurrentGetsAreSafe

SPECIFICATION FairSpec
CONSTANTS
    t1 = t1
    t2 = t2
    k1 = k1
    k2 = k2
    c1 = c1
    c2 = c2
    c3 = c3
    c4 = c4
    NoCall = NoCall
    NoKey = NoKey
    Threads <- MCThreads
    Keys <- MCKeys
    Calls <- MCCalls
    Evictable <- MCEvictable
    Outcomes <- MCOutcomes
    MaxVersion = 2
INVARIANTS
    OneLeaderPerKey
    WaitersHaveALeader
    FilledIsNotLoaded
PROPERTIES
    MonotonicReads
    CacheNeverGoesBack
    EveryGetReturns
CHECK_DEADLOCK FALSE

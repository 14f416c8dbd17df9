SPECIFICATION Spec
SYMMETRY Symmetry
CONSTANTS
    r1 = r1
    r2 = r2
    k1 = k1
    k2 = k2
    Requests <- MCRequests
    Keys <- MCKeys
    Chains <- MCChains
    Outcomes <- MCOutcomes
    Pages <- MCPages
    ErrStatus = 500
    ErrMsg = "error"
    Bodyless <- MCBodyless
    Capacity = 1
    MaxFills = 1
INVARIANTS
    ReportIsFinal
    PagesShown
    PanicsContained
    LoggedOnce
    LimiterHolds
CHECK_DEADLOCK FALSE

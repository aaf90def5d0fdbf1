SPECIFICATION Spec
CONSTANTS
    r1 = r1
    r2 = r2
    i1 = i1
    Requests <- MCRequests
    Instances <- OneInstance
    Home <- SameHome
    Limits <- MCLimits
    MaxReserve = 2
    Overrun = 1
    TTL = 1
INVARIANTS
    WithinLimit
    LogIsCharged
SYMMETRY RequestSymmetry

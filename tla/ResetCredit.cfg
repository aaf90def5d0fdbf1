SPECIFICATION FairSpec
CONSTANTS
    p1 = p1
    p2 = p2
    a1 = a1
    a2 = a2
    k1 = k1
    k2 = k2
    None = None
    Callers <- MCCallers
    Accounts <- MCAccounts
    Keys <- MCKeys
    Shared <- MCShared
    Owner <- MCOwner
    Credits <- MCCredits
INVARIANTS
    ReducedOnce
PROPERTIES
    SettledOnce
    CallsEnd

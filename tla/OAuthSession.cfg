SPECIFICATION Spec
CONSTANTS
    b1 = b1
    d1 = d1
    c1 = c1
    c2 = c2
    u1 = u1
    u2 = u2
    i1 = i1
    Sessions <- MCSessions
    Device <- MCDevice
    Callbacks <- MCCallbacks
    Users <- MCUsers
    User <- MCUser
    Mail <- MCMail
    Legacy <- MCLegacy
    Imports <- MCImports
    Batches <- MCBatches
INVARIANTS
    StoredOnce
    UsersApart
PROPERTIES
    EndedGetsNoTokens
    LoginEnds
CHECK_DEADLOCK FALSE

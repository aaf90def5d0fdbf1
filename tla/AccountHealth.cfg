SPECIFICATION Spec
CONSTANTS
    r1 = r1
    r2 = r2
    u1 = u1
    flight = flight
    recovery = recovery
    d1 = d1
    Requests <- MCRequests
    Refreshes <- OneRefresh
    Flight <- flight
    Recovery <- recovery
    Adders <- OneAdder
    MaxTries = 2
    MaxCooldown = 1
    MaxVersion = 2
    MaxReaders = 2
SYMMETRY Interchangeable
INVARIANTS
    SameVersionSameRow
PROPERTIES
    StaleWritesAreDropped

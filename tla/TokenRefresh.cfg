SPECIFICATION Spec
CONSTANTS
    r1 = r1
    r2 = r2
    s1 = s1
    Requests <- MCRequests
    Sweeps <- MCSweeps
    MaxGen = 2
INVARIANTS
    RotationIsStored
PROPERTIES
    WaitersGetNewer
    WaitersAreAnswered

SPECIFICATION WindowsSpec
CONSTANTS
    p1 = p1
    p2 = p2
    Writers <- MCWriters
    Limits <- MCLimits
    Resets = {"known", "none"}
    MaxRows = 2
INVARIANTS
    BlameIsExact
PROPERTIES
    SampleOverridesNothing
CHECK_DEADLOCK FALSE

SPECIFICATION Spec
CONSTANTS
    a = a
    b = b
    Lists <- TwoLists
    Recycled <- Second
    RingSize = 2
    MaxRenewals = 1
INVARIANTS
    TypeOK
    CleanIsClean
    BypassIsObserved
    AppliedAsRecorded

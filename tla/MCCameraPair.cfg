SPECIFICATION FairSpec
CONSTANTS
    Feeds = 2
    Slots = 1
    MaxIds = 4
    MaxRequests = 4
    MaxTroubles = 2
INVARIANTS
    TypeOK
PROPERTIES
    ErasedClosed
    ResetMeansEmpty
    ResumesClosed
    RetirementEnds
CHECK_DEADLOCK FALSE

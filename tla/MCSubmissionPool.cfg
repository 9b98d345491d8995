SPECIFICATION FairSpec
CONSTANTS
    p1 = p1
    p2 = p2
    Slots <- TwoPackets
    MaxSerial = 3
    MaxReceipt = 2
    MaxRelease = 1
INVARIANTS
    TypeOK
    LeaseKeptUnlessReleased
    CompletedCopyRan
    SaveFollowsRestore
PROPERTIES
    EveryCopyAnswered
CHECK_DEADLOCK FALSE

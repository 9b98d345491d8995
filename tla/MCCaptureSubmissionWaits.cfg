SPECIFICATION Spec
CONSTANTS
    a = a
    b = b
    p1 = p1
    p2 = p2
    x = x
    y = y
    Lists <- TwoLists
    Packets <- OnePacket
    Queues <- TwoQueues
    Private = Private
    Null = Null
    MaxReceipts = 3
    MaxTroubles = 0
    MaxCloses = 1
SYMMETRY Interchangeable
INVARIANTS
    NoNewCycle
    GateReleasesWaits
CHECK_DEADLOCK FALSE

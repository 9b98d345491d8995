SPECIFICATION Spec
CONSTANTS
    a = a
    b = b
    p1 = p1
    p2 = p2
    x = x
    y = y
    Lists <- OneList
    Packets <- TwoPackets
    Queues <- TwoQueues
    Private = Private
    Null = Null
    MaxReceipts = 2
    MaxTroubles = 1
    MaxCloses = 0
SYMMETRY Interchangeable
INVARIANT
    NewestFrameWins
PROPERTY
    FramesLeased
CHECK_DEADLOCK FALSE

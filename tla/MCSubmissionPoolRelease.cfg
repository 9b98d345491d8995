SPECIFICATION Spec
CONSTANTS
    p1 = p1
    p2 = p2
    Slots <- TwoPackets
    MaxSerial = 2
    MaxReceipt = 2
    MaxRelease = 1
INVARIANT LeaseOutlivesExecution
CHECK_DEADLOCK FALSE

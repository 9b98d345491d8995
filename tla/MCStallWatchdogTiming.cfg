SPECIFICATION Spec
CONSTANTS
    Stall = 2
    Recovery = 2
    HoldTrips = 2
    HoldWindow = 9
    MaxElapsed = 2
    MaxPass = 0
    Worlds <- TimingWorlds
    MayHalt = FALSE
INVARIANTS
    TypeOK
    FreezeDetected
    RepeatedStallsHold
    GateFollowsWatchdog
    RequestBelongsToHold
    HoldLastsWhileRequested

SPECIFICATION FairSpec
CONSTANTS
    Stall = 1
    Recovery = 1
    HoldTrips = 1
    HoldWindow = 3
    MaxElapsed = 1
    MaxPass = 2
    Worlds <- HoldWorlds
    MayHalt = TRUE
INVARIANTS
    HaltHoldsOutsideRace
PROPERTIES
    RecoversWithFrames
    OffEndsHold

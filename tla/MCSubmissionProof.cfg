SPECIFICATION Spec
CONSTANTS
    MaxBatch = 2
    RingSize = 2
CONSTRAINT OneListUnderContention
INVARIANTS
    OverlayOnTop
    EntryUnderWrites
    SettledIsActual

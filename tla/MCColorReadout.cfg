SPECIFICATION Spec
CONSTANTS
    Pages <- MCPages
    Height = 2
    MaxChunk = 2
    PageCap = 3
    MaxFaults = 1
INVARIANTS
    FinishedPagesAreWhole
    OkIsWholeJob
    SoundJobSucceeds
PROPERTIES
    DeliversPages
    Termination
CHECK_DEADLOCK FALSE

SPECIFICATION Spec
CONSTANTS
    Pages <- MCPages
    Height = 3
    BandRows = 2
    MaxSlop = 1
    Lead80 = FALSE
INVARIANTS
    TypeOK
    BandsReproducePage
    FinishedPagesAreWhole
    OkIsWholeJob
    SoundJobSucceeds
PROPERTIES
    DeliversPages
    Termination
CHECK_DEADLOCK FALSE

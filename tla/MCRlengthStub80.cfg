SPECIFICATION Spec
CONSTANTS
    Pages <- MCTwoPages
    Height = 2
    BandRows = 2
    MaxSlop = 2
    Lead80 = TRUE
INVARIANT OkIsWholeJob
CHECK_DEADLOCK FALSE

SPECIFICATION Spec
CONSTANTS
    MaxPages = 3
    Bands = 2
    ConnectAttempts = 3
    MaxRequests = 2
    Selections <- MCSelections
INVARIANTS
    TypeOK
    DoneIsTrue
    OneAlert
    CancelIsClean
    URLHasOneOwner
    ScansSelectedUnit
PROPERTIES
    ScanIsReportedDone

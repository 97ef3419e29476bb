SPECIFICATION Spec
CONSTANTS
    Printers <- MCPrinters
    FirstHosts <- MCOnePrinter
    Funcs <- MCOneFunc
    ReregisterSec = 1
    DurationSec = 2
    RefreshSec = 1
    Capacity = 1
    RegIds <- MCRegIds
    MaxPresses = 2
    MaxCopies = 2
    MaxQueue = 2
    MaxEdits = 2
    MaxMoves = 1
    MaxEvents = 4
INVARIANTS
    CachesFollowConfig
    AddressesAreFresh
    WaitsRegistered
    ScansThePressedPrinter
    OncePerPress
    AckedIsHandled
PROPERTIES
    ReloadTakesEffect
    StopExits
CHECK_DEADLOCK FALSE

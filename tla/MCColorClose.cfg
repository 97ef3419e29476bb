SPECIFICATION Spec
CONSTANTS
    Pages <- MCPages
    Height = 2
    MaxChunk = 2
    PageCap = 3
    MaxFaults = 1
INVARIANT SentJobSucceeds
CHECK_DEADLOCK FALSE

SPECIFICATION Spec
CONSTANT SplitGreeting = FALSE
INVARIANTS
    TypeOK
    ReadoutStartsClean
    EmptyFeederIsLeftAlone
    StatusIsTheDevices
PROPERTY SessionEnds
CHECK_DEADLOCK FALSE

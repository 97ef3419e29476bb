SPECIFICATION Spec
CONSTANT SplitGreeting = TRUE
INVARIANT StatusIsTheDevices
CHECK_DEADLOCK FALSE

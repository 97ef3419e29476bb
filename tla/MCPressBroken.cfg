SPECIFICATION Spec
CONSTANTS
  Literal <- MCLiteral
  HostName = "mac"
  Home <- MCHome
  Frames <- MCFrames
  Configs <- MCConfigs
  MaxPages = 3
INVARIANT NoBrokenFileLeft
CHECK_DEADLOCK FALSE

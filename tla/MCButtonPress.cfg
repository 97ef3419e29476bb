SPECIFICATION Spec
CONSTANTS
  Literal <- MCLiteral
  HostName = "mac"
  Home <- MCHome
  Frames <- MCFrames
  Configs <- MCConfigs
  MaxPages = 3
INVARIANTS
  TypeOK
  ActsOnWholeScan
  EmailLeavesNothing
  SavedPathIsThere
  PlanIsScannable
CHECK_DEADLOCK FALSE

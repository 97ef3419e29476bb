SPECIFICATION Spec
CONSTANTS
  Literal <- MCLiteral
  HostName = "mac"
  Home <- MCHome
  Versions <- MCVersions
  Edits <- MCEdits
  MaxEdits = 2
  MaxVersions = 1
  MaxCrashes = 1
PROPERTIES
  RefusesOnlyUnread

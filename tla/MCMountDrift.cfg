SPECIFICATION Spec
CONSTANTS
  Paths <- MCPaths
  NoPath = NoPath
  MaxFiles = 4
  Contents <- MCContents
  MaxMounts = 2
  MaxEntries = 3
INVARIANTS MountedIdInRange
CHECK_DEADLOCK FALSE

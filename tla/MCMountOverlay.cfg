SPECIFICATION Spec
CONSTANTS
  Paths <- MCPaths
  NoPath = NoPath
  MaxFiles = 4
  Contents <- MCContents
  MaxMounts = 2
  MaxEntries = 3
INVARIANTS NeverAsserts
CHECK_DEADLOCK FALSE

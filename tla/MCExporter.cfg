SPECIFICATION ExtractionSpec
CONSTANTS
  Names <- MCNames
  Paths <- MCPaths
  NoPath = NoPath
  MaxFiles = 4
  Targets <- MCTargets
  Unreadable <- MCUnreadable
INVARIANTS RoundTrip FolderHoldsExport ManagerSeesExport
PROPERTIES ExportEnds
CHECK_DEADLOCK FALSE

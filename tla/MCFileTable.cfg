SPECIFICATION Spec
CONSTANTS
  Paths <- MCPaths
  NoPath = NoPath
  MaxFiles = 4
  ContainerIDs = {1}
  ContainerFileIDs = {}
INVARIANTS OnePathOneFile ParentHoldsParentPath EnumerationExact
PROPERTIES KnownForever ImplementsPathTree
CHECK_DEADLOCK FALSE

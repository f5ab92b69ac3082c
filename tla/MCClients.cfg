SPECIFICATION ClientsFairSpec
CONSTANTS
  Paths <- MCPaths
  NoPath = NoPath
  MaxFiles = 4
  Contents <- MCContents
  MaxMounts = 2
  MaxEntries = 3
  Handles = {h1}
  Modes = {R}
  NoRef = NoRef
  Created <- MCCreated
  Registered <- MCRegistered
  Texts = {new}
  Empty = Empty
  Fails = Fails
  Nothing = Nothing
  Directory = Directory
INVARIANTS Routed RegisteredSoFar DiskFollows NewFileIsEmpty
PROPERTIES CallsReturn ImplementsFileTable WriteTouchesOne OneFileAtATime SizeIsLength StaysReadable UsesFileRefs
CHECK_DEADLOCK FALSE

SPECIFICATION Spec
CONSTANTS
  Handles = {h1, h2, h3}
  FileIDs <- MCFileIDs
  Modes = {R}
  TableSize = 3
  GenSpace = 2
  NoMode = NoMode
  NoRef = NoRef
SYMMETRY MCSymmetry
INVARIANTS NoStaleHandle CrashOnlyWhenFull NoSlotLeaked
PROPERTIES ImplementsFileRefs
CHECK_DEADLOCK FALSE

SPECIFICATION Spec
CONSTANTS
  Hashes <- MCHashes
  RootHash = 3
  InitialCapacity = 3
  IdSpace = 6
  FileLimit = 6
  MaxReserve = 5
INVARIANTS FirstEntryReserved
CHECK_DEADLOCK FALSE

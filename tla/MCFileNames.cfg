SPECIFICATION NamesSpec
CONSTANTS
  Hashes <- MCHashes
  RootHash = 3
  InitialCapacity = 3
  IdSpace = 8
  FileLimit = 8
  MaxReserve = 2
  NameOf <- MCNameOf
  Names <- MCNames
  Length <- MCLength
  InitialStrings = 4
  End = End
  Junk = Junk
INVARIANTS AccessInBounds SwapLoopInserts EveryFileFound NamesReadBack
PROPERTIES ImplementsPathIndex
CHECK_DEADLOCK FALSE

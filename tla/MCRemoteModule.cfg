SPECIFICATION FairSpec
CONSTANTS
  f = f
  Files <- MCFiles
  FileTable = FileTable
  StringTable = StringTable
  Size <- MCSize
  Short = Short
  Failed = Failed
  NoItem = NoItem
  MaxThreads = 2
  MaxConnections = 2
  Buffers = 2
  MaxRequests = 2
INVARIANTS StoppedWhenDisabled AnsweredInOrder GetsWhatItAsked
PROPERTIES DisableReturnsOrClientWaited
CHECK_DEADLOCK FALSE

SPECIFICATION Spec
CONSTANTS
  archive = archive
  note = note
  NoContent = NoContent
  Contents = {note, archive}
  ContentSize <- MCSizes
  Archives = {archive}
  Lists <- MCLists
  NameBytes = 2
  PointerSpace = 915
  MaxExports = 2
  MaxFills = 1
  Raw = {0, 1, 2, 3}
  RawBytes <- MCRawBytes
  PackedBytes <- MCPackedBytes
  Word = 1024
INVARIANTS AcceptedIsComplete
PROPERTIES SucessIsAccepted

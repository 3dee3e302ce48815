CONSTANTS
  Note = Note  note = note  other = other  x = x  empty = empty
  i1 = i1  i2 = i2  i3 = i3  i4 = i4
  Paths <- MCPaths  Keys <- MCKeys  Key <- MCKey
  Contents <- MCContents  Empty = empty  None = None  Paused = Paused
  Ids <- MCIds  OldPaths <- MCOldPaths  OldId <- MCOldId  OldVersions = {1}
  RenameTargets <- MCTargets  Fetched <- MCLooked  Opened <- MCNowhere
  MaxVersion = 4  MaxEpoch = 1
SPECIFICATION MCSpec
INVARIANTS
  SeenAndStoredAreExact
  NamesAreExact
  AcceptedSurvives
PROPERTIES
  RetireEnds
  ImplementsVersionedFiles
CHECK_DEADLOCK FALSE

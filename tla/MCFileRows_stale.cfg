CONSTANTS
  Note = Note  note = note  other = other  x = x  empty = empty
  i1 = i1  i2 = i2  i3 = i3  i4 = i4
  Paths <- MCPaths  Keys <- MCKeys  Key <- MCKey
  Contents <- MCContents  Empty = empty  None = None  Paused = Paused
  Ids <- MCIds  OldPaths <- MCOldPaths  OldId <- MCOldId  OldVersions = {1}
  RenameTargets <- MCOnto  Fetched <- MCNowhere  Opened <- MCLooked
  MaxVersion = 5  MaxEpoch = 3
SPECIFICATION Spec
INVARIANTS
  StaleStateIsolated
CHECK_DEADLOCK FALSE

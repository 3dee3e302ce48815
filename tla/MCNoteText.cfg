CONSTANTS
  img1 = img1  img2 = img2  img3 = img3  None = None  Partial = Partial
  Images <- MCImages  RenamesLie = TRUE  u = u  v = v
  Paths = {a, b}  Epochs = {1, 2}  MaxEdits = 2  MaxHappened = 3
SPECIFICATION MCSpec
INVARIANTS
  NothingIsLostOrDoubled
  AllHaveTheText
  LoadsSeeAll
PROPERTIES
  ImplementsAtomicFile
CHECK_DEADLOCK FALSE

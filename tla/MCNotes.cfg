CONSTANTS
  laptop = laptop  phone = phone  Foreign = Foreign  Push = Push  None = None
  Conns = {1, 2, 3, 4}  UserOf <- MCUserOf  Slots = 3  Stride = 2  MaxOrdinal = 4
  Devices <- MCDevices  Positions = {1, 2}
  Keys = {1, 2, 3}  MaxRequests = 2  WindowMs = 2  MaxTrackedKeys = 2
SYMMETRY MCSymmetry
SPECIFICATION MCSpec
INVARIANTS
  CaretsAgreeWithTheRelay
  LimitsAreKept
PROPERTIES
  NotesAreWhereTheyAre
  ColoursAreTheirOwn
CHECK_DEADLOCK FALSE

CONSTANTS
  Recs = {1, 2}  MaxIds = 3  MaxTokens = 2  MaxPending = 2  MaxFaults = 1  None = None
SPECIFICATION Spec
PROPERTIES
  NoFalseAlarm
CHECK_DEADLOCK FALSE

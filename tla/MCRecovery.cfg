CONSTANTS
  MaxChanges = 3  MaxDurables = 2  MaxRequests = 2  MaxRetries = 1  None = None
  img1 = img1  img2 = img2  img3 = img3  Partial = Partial
  Socks = {1, 2}  MaxConnects = 3  MaxFaults = 2
  Clicks = {1}  MaxClicks = 8  MaxHostFaults = 3  MaxIdentities = 4
  Recs = {1, 2}  MaxIds = 3  MaxTokens = 2  MaxPending = 2  MaxLosses = 1
SPECIFICATION MCSpec
INVARIANTS
  OneSocket
  SavedTokenIsHonoured
PROPERTIES
  OneIdentity
  PromisesAreKept
  ReplacementsSucceed
  AllAreServed
  Reconnects
  CatchesUp
CHECK_DEADLOCK FALSE

CONSTANTS
  owner = owner  guest = guest  laptop = laptop  desk = desk
  crew = crew  i1 = i1  whole = whole  some = some
  inside = inside  outside = outside  room0 = room0  Paused = Paused
  Users <- MCUsers  Owner = owner  Devices <- MCDevices  UserOf <- MCUserOf
  Teams <- MCTeams  NewTeams <- MCTeams  Subjects <- MCSubjects  Invites <- MCInvites
  Paths <- MCPaths  NoPath = room0  Patterns <- MCPatterns  Covers <- MCCovers
  Whole = whole  Custom <- MCCustom  MaxRules = 2  MaxUses = 1  None = None
  OldUsers = {"ann", "bob"}  OldTeams = {"team", "crew"}  OldRooms = {1, 2}  Mounts = {"m", "n"}
  MaxHandMade = 1  MaxImages = 4
SPECIFICATION MCSpec
INVARIANTS
  SubscribersAllowed
  RevocationTakesEffect
  StaleStateIsolated
PROPERTIES
  GrantTakesEffect
  UpgradesKeepAll
CHECK_DEADLOCK FALSE

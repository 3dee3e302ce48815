SPECIFICATION FairSpec
CONSTANTS
    s1 = s1
    s2 = s2
    None = None
    FileCount = 1
    TextCount = 2
    MaxSeq = 2
    MaxEpoch = 1
    MaxQueue = 2
    Switchers <- MCOneSwitcher
    MaxSeedAttempts = 2
    Failures = {"append", "land", "durable", "restart"}
INVARIANTS
    CacheIsExact
    AcceptedSurvives
    MaterializedIsATextOfTheNote
PROPERTIES
    MaterializedNeverGoesBack

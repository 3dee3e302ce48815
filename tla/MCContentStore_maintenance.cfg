SPECIFICATION FairSpec
CONSTANTS
    f1 = f1
    c1 = c1
    c2 = c2
    None = None
    Empty = c1
    Files <- MCOneFile
    Contents <- MCContents
    LegacyRows <- MCLegacyRows
    StartPhase = "backfill"
INVARIANTS
    IInv
    NoDanglingReference
    ReadFindsBlob
    NoSilentLeak
    TombstonesHoldNoBlobs
PROPERTIES
    SweepIsComplete
    BlobQueueDrains

SPECIFICATION FairSpec
CONSTANTS
    None = none
    none = none
    MaxText = 3
    MaxVersion = 3
    MaxQueue = 1
    Overlaps = {}
INVARIANTS
    EntryIsExact
PROPERTIES
    EditsSurvive
    EditsSettle
CHECK_DEADLOCK FALSE

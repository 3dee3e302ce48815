SPECIFICATION Spec
CONSTANTS
    None = none
    none = none
    MaxText = 3
    MaxVersion = 3
    MaxQueue = 1
    Overlaps = {"push"}
PROPERTIES
    EditsSurvive
CHECK_DEADLOCK FALSE

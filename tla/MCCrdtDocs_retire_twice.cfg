SPECIFICATION Spec
CONSTANTS
    s1 = s1
    s2 = s2
    None = None
    FileCount = 1
    TextCount = 2
    MaxSeq = 2
    MaxEpoch = 1
    MaxQueue = 1
    Switchers <- MCTwoSwitchers
    MaxSeedAttempts = 2
    Failures = {"land"}
SYMMETRY SwitcherSymmetry
INVARIANTS
    AcceptedSurvives

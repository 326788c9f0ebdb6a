SPECIFICATION FilesSpec
CONSTANTS
    Procs = {"p1", "p2", "p3"}
    Kids = {"test"}
    MaxKeys = 3
INVARIANTS
    PairMatches
PROPERTY
    NeverOverwritten
CHECK_DEADLOCK FALSE

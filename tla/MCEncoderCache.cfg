SPECIFICATION FairSpec
CONSTANTS
    Threads <- TwoThreads
    Types <- MCTypes
    Kind <- MCKind
    Kids <- MCKids
    MaxCalls = 1
    MaxNonNil = 1
CHECK_DEADLOCK FALSE
INVARIANTS
    CallsBuilt
    QuietCacheIsReal
PROPERTY
    MarshalReturns

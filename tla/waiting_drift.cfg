SPECIFICATION Spec
CONSTANTS
    N = 2
    BlockSize = 16
    PrefillBound = 60
    QueueThreshold = 2
    ImbalanceCount = 1
    MatchNum = 1
    MatchDen = 2
    Duration = 2
    IdleTps = 1
    Requests <- MCRequests
    Chunks = {16}
    CachedAtFirst <- MCCached
    MaxRequests = 3
    MaxSteps = 2
    MaxNow = 4
INVARIANTS
    IdleHasNoTokens
CHECK_DEADLOCK FALSE
CONSTRAINT Explored

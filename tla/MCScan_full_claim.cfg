SPECIFICATION Spec
CONSTANTS
    n1 = n1
    n2 = n2
    agni = agni
    moe = moe
    Nodes <- MCNodes
    Pools <- MCPools
    Logs <- MCLogs
    DaysSet <- MCDays
    Skew = 1
    Lag = 1
    FirstTip = 8
    LastTip = 11
    BlocksPerDay = 3
    HeadTries = 2
    Span = 2
    FlushEvery = 2
    TornWrites = TRUE
    MaxRuns = 3
SYMMETRY Symmetry
INVARIANT
    PublishedFull
CHECK_DEADLOCK FALSE

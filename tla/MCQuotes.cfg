SPECIFICATION FairSpec
CONSTANTS
    PoolCount = 2
    Changes <- MCChanges
    Starts <- MCStarts
    Undecodable <- MCUndecodable
    Limits <- MCLimits
    Batch = 2
    FlushEvery = 2
    TornWrites = TRUE
    MaxKills = 1
    MaxNulls = 1
INVARIANTS
    DeliveryComplete
    LossBounded
PROPERTIES
    ImplementsJobs
    DeliveredAgain

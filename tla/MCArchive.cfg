SPECIFICATION FairSpec
CONSTANTS
    w1 = w1
    w2 = w2
    Workers <- MCWorkers
    Days = 2
    LastDay = 4
    TornWrites = TRUE
    MaxKills = 2
INVARIANTS
    TapeComplete
    ThreadsApart
PROPERTIES
    RunEnds
CHECK_DEADLOCK FALSE

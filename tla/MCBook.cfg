SPECIFICATION BookSpec
CONSTANTS
    Prices <- MCPrices
    Sizes <- MCSizes
    MaxLevels = 3
    Ladder <- MCLadder
    Unit = 24
    PoolMids <- MCPoolMids
    PoolCosts = {0, 1}
    Gas = {0, 1}
    BybitMids <- MCBybitMids
    FeeUnits = 10
    Null = Null
INVARIANTS
    FillIsHonest
    BestExecution
    NoBetterThanTouch
    BreakevenExact
    NeverBothWays
CHECK_DEADLOCK FALSE

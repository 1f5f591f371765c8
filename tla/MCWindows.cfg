SPECIFICATION Spec
CONSTANTS
    Combos <- MCCombos
    Mids <- MCMids
    Ties <- MCTies
    Blocks <- MCBlocks
    LastMs = 3
    MaxPrints = 4
    MaxBlocks = 3
    ActionableMs = 2
    CarryRate = 1
INVARIANTS
    ExactBetweenChanges
    TimeCountedOnceUnlessShared
    TookOnceUnlessShared
    TakerCounted
    TakersKept
    VerdictsAgree
CHECK_DEADLOCK FALSE

SPECIFICATION Spec
CONSTANTS
    Kinds = {"v3", "lb"}
    TopPrice = 3
    Fee = 1
    Lots = {1, 2}
    BybitMids = {1, 2, 3, 4, 5}
    Depth <- MCDepth
    SlipPct = 3
    TakerPct = 2
    MaxBlocks = 3
    MaxSwaps = 3
INVARIANTS
    DirectionMovesMid
    FeeFloor
    ProfitNeedsGap
CHECK_DEADLOCK FALSE

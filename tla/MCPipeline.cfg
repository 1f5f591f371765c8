CONSTANTS
    Orders <- MCOrders
    MaxPasses = 2
    MaxRuns = 10
SPECIFICATION Spec
INVARIANTS ReportsAgree OnlyPartsAreOld InputsReady
CHECK_DEADLOCK FALSE

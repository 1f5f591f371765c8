SPECIFICATION Spec
CONSTANTS
    TopPrice = 4
    MaxLag = 0
    LastMs = 3
    MaxPrints = 2
INVARIANTS
    EnvelopeHolds
    CrossedIsStale
    MatchHolds
CHECK_DEADLOCK FALSE

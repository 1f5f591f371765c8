CONSTANTS
    Orders <- ReadmeOrder
    MaxPasses = 1
    MaxRuns = 6
SPECIFICATION Spec
INVARIANT UnfillableReported
CHECK_DEADLOCK FALSE

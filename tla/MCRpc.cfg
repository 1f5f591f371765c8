SPECIFICATION FairSpec
CONSTANTS
    MinInterval = 350
    MaxInterval = 3000
    Retries = 6
    BackoffUnit = 750
    BackoffCap = 20000
    MaxBatch = 2
    Bodies <- MCBodies
    Delays <- MCDelays
INVARIANTS
    Paced
    BatchInOrder
PROPERTIES
    RequestEnds

SPECIFICATION FairSpec
CONSTANTS
    MaxCycles = 2
    MaxChunks = 3
    Statuses <- MCStatuses
INVARIANTS
    EachChunkOnce
    BodiesInOrder
    SuccessMeansDelivered
    FailureIsOwn
PROPERTY CallsReturn
CHECK_DEADLOCK FALSE

SPECIFICATION Spec
CONSTANTS
    MaxCycles = 2
    MaxChunks = 2
    Statuses <- MCStatuses
INVARIANT DeliveredIsReceived
CHECK_DEADLOCK FALSE

SPECIFICATION Spec
CONSTANTS
    MaxRuns = 3
    MaxChunks = 2
    MaxRetries = 1
INVARIANTS
    OldTempsAreGone
    TargetIsOneRun
PROPERTY DeliveryContract
CHECK_DEADLOCK FALSE

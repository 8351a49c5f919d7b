SPECIFICATION Spec
CONSTANTS
    MaxRuns = 2
    MaxChunks = 2
    Sizes = {1, 2}
    MaxBodyBytes = 3
    MaxRetries = 2
    Statuses = {200, 302, 404, 429, 503}
    Errors <- MCErrors
INVARIANTS
    CopiesAreWhole
    SuccessMeansReceived
    SettledIsFinal
CHECK_DEADLOCK FALSE

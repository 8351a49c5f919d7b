SPECIFICATION Spec
CONSTANTS
    Items <- MCItems
    Workers <- MCOneWorker
    MaxItems = 2
    MaxRuns = 1
INVARIANT GateStopsErrors
CHECK_DEADLOCK FALSE

SPECIFICATION Spec
CONSTANTS
    Items <- MCItems
    Workers <- MCUngated
    MaxItems = 2
    MaxRuns = 1
INVARIANT EveryRunReturnsReport
CHECK_DEADLOCK FALSE

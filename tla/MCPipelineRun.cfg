SPECIFICATION FairSpec
CONSTANTS
    Items <- MCItems
    Workers <- MCWorkers
    MaxItems = 3
    MaxRuns = 2
INVARIANT SuccessMeansDelivered
INVARIANT DeliveredIsArchived
INVARIANT EarlyFailureTouchesNothing
INVARIANT StrictnessKeepsInvalidOut
INVARIANT FailStopIsFinal
INVARIANT NoSilentLoss
INVARIANT UsageIsPerRun
PROPERTY RunReturns
CHECK_DEADLOCK FALSE

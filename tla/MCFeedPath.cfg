SPECIFICATION FeedSpec
CONSTANTS
    Feeds <- MCFeeds
    Repairs <- MCRepairs
    MaxBuilds = 3
INVARIANT WorkerKeepsItsLog
INVARIANT EveryRecordOnce
INVARIANT MarkersAreDistinguishable
INVARIANT StreamingAgreesWithEager
INVARIANT CellsComeFromTheirSource
CHECK_DEADLOCK FALSE

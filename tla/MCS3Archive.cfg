SPECIFICATION Spec
CONSTANTS
    MaxRuns = 2
    MaxChunks = 3
    MaxSecond = 2
    Sizes <- MCSizes
    MinPartSize = 2
    MaxRetries = 1
INVARIANTS
    CompletionIsValid
    NoUploadLeft
PROPERTY ArchiveContract
CHECK_DEADLOCK FALSE

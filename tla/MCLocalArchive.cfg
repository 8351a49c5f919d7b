SPECIFICATION Spec
CONSTANTS
    MaxRuns = 2
    MaxChunks = 2
    MaxSecond = 2
    MaxCrashes = 2
INVARIANT WhatWasToldSurvives
PROPERTY ArchiveContract
CHECK_DEADLOCK FALSE

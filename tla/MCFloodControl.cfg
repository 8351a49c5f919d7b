SPECIFICATION Spec
CONSTANTS
    Threads = {t1, t2}
    Keys = {k1, k2}
    WindowSeconds = 2
    SummaryInterval = 1
    Quotas = {1, 2}
    CacheSizes = {1, 2}
    MaxTime = 4
    MaxRecords = 5
INVARIANTS
    TablesAreBounded
    DecidesByWindow
    RateIsLimited
    SummariesAddUp
SYMMETRY MCSymmetry
CHECK_DEADLOCK FALSE

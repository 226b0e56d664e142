SPECIFICATION FairSpec
CONSTANTS
    Threads = {t1, t2}
    FromVersions = {0, 1, 2, 3, 4, 5}
    MaxCrashes = 2
    MaxFailures = 2
INVARIANTS
    StampedIsComplete
    RowsKept
PROPERTIES
    NewerUntouched
    Opens
CHECK_DEADLOCK FALSE

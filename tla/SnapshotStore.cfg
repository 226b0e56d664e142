SPECIFICATION ReadSpec
CONSTANTS
    o1 = o1
    o2 = o2
    Opps = {o1, o2}
    MaxRoi = 2
    Scans <- MCScans
    MaxWrites = 4
    MaxTs = 3
    Keep = 1
    FrameN = 2
    FrameBudget = 2
    OppFullN = 1
    BacklogKeep = 1
    Windows = {1}
    Persist = 0
    ReadFrom = 2
    ReadTo = 3
INVARIANTS
    StoreTypeOK
    LatestSurvives
    LatestEvidenceKept
    RowsAccounted
    EvictedIsExpired
    TidyCatchesUp
    BacklogIsHistory
    ReadsAreHistory
CHECK_DEADLOCK FALSE

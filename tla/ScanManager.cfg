SPECIFICATION FairSpec
CONSTANTS
    Callers = {c1}
    MaxScans = 3
    MaxClock = 2
    MaxBoots = 2
    Ttl = 1
    Cooldown = 2
    SerialHooks = FALSE
INVARIANTS
    TypeOK
    Singleflight
    StatusTracksFlight
    TtlSpacing
    CooldownHonoured
    DoneNamesLatest
PROPERTIES
    RefinesSingleFlight
    ScanEnds
CHECK_DEADLOCK FALSE

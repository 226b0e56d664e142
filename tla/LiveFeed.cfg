SPECIFICATION FeedFairSpec
CONSTANTS
    Callers = {c1}
    MaxScans = 2
    MaxClock = 0
    MaxBoots = 2
    Ttl = 0
    Cooldown = 0
    SerialHooks = TRUE
    None = None
    Conns = {k1}
INVARIANTS
    NewestNeverLost
    HookShowsOwnScan
PROPERTY CatchesUp
CHECK_DEADLOCK FALSE

SPECIFICATION FeedSpec
CONSTANTS
    Callers = {c1}
    MaxScans = 2
    MaxClock = 0
    MaxBoots = 1
    Ttl = 0
    Cooldown = 0
    SerialHooks = FALSE
    None = None
    Conns = {k1}
INVARIANT NewestNeverLost
CHECK_DEADLOCK FALSE

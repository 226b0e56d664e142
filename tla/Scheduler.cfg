SPECIFICATION SchedFairSpec
CONSTANTS
    Viewers = {v1, v2}
    Tabs = {t1}
    Intervals = {10, 60}
    MaxLoops = 2
INVARIANTS
    OneLoop
    NoStaleSleep
PROPERTIES
    StopEnds
    ScansGoOn
    IdlePauses
CHECK_DEADLOCK FALSE

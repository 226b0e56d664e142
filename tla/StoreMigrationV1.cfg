SPECIFICATION Spec
CONSTANTS
    Threads = {t1}
    FromVersions = {1}
    MaxCrashes = 2
    MaxFailures = 0
INVARIANT OlderFileNeverLost
CHECK_DEADLOCK FALSE

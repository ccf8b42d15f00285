\* Runs that fill the tip, then a run without --start.
CONSTANTS
    ThousandsSize = 10
    MillionsSize = 100
    MaxHeight = 12
    InitTip = 11
    InitCaches <- MCInitCaches
    StartArgs = {9}
    EndArgs = {12}
    BatchSize = 2
    BatchDelay = 5000
    MaxDelay = 120000
    StreakThreshold = 2
    MaxRetries = 2
    MaxRuns = 2
    None = NoArg
    NoArg = NoArg
SPECIFICATION Spec
INVARIANT DefaultStartFollowsCache
CHECK_DEADLOCK FALSE

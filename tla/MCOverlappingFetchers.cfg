\* Two invocations over one directory, each allowed once, fetching 9..10.
CONSTANTS
    ThousandsSize = 10
    MillionsSize = 100
    MaxHeight = 10
    InitTip = 10
    InitCaches <- MCInitCaches
    StartArgs = {9}
    EndArgs = {10}
    BatchSize = 2
    BatchDelay = 100000
    MaxDelay = 120000
    StreakThreshold = 1
    MaxRetries = 1
    MaxRuns = 2
    None = NoArg
    NoArg = NoArg
SPECIFICATION Spec
PROPERTY OverlapCompleteEntryStable
CHECK_DEADLOCK FALSE

\* One fetcher run over 9..10 and up to two check runs (default start
\* s3_start = 1, --end auto-detected, --fix on or off) with one thread.
CONSTANTS
    ThousandsSize = 5
    MillionsSize = 10
    MaxHeight = 10
    InitCaches <- MCInitCaches
    None = NoArg
    NoArg = NoArg
    InitTip = 10
    FetchStartArgs = {9}
    FetchEndArgs = {10}
    FetchRuns = 1
    BatchSize = 2
    BatchDelay = 100000
    MaxDelay = 120000
    StreakThreshold = 1
    MaxRetries = 1
    Workers <- MCWorkers
    w1 = w1
    CheckStartArgs = {}
    CheckEndArgs = {0}
    S3Start = 1
    CheckRuns = 2
SPECIFICATION Spec
INVARIANT CleanScanMeansComplete
CHECK_DEADLOCK FALSE

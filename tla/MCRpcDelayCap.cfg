\* --delay 130 s, above the 120 s backoff cap.
CONSTANTS
    ThousandsSize = 10
    MillionsSize = 100
    MaxHeight = 12
    InitTip = 11
    InitCaches <- MCInitCaches
    StartArgs = {9}
    EndArgs = {12}
    BatchSize = 2
    BatchDelay = 130000
    MaxDelay = 120000
    StreakThreshold = 2
    MaxRetries = 2
    MaxRuns = 2
    None = NoArg
    NoArg = NoArg
SPECIFICATION Spec
INVARIANT DelayWithinBounds
CHECK_DEADLOCK FALSE

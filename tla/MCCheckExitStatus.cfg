SPECIFICATION Spec
CONSTANTS
    ThousandsSize = 5
    MillionsSize = 10
    MaxHeight = 12
    InitCaches <- MCInitCaches
    StartArgs = {10}
    EndArgs = {0}
    S3Start = 1
    Workers <- MCWorkers
    MaxRuns = 2
    None = NoArg
    NoArg = NoArg
    w1 = w1
    w2 = w2
    w3 = w3
CHECK_DEADLOCK FALSE
INVARIANT ExitReflectsRemaining

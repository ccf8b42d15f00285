SPECIFICATION Spec
CONSTANTS
    ThousandsSize = 5
    MillionsSize = 10
    MaxHeight = 12
    InitCaches <- MCInitCaches
    StartArgs = {}
    EndArgs = {}
    DefaultStart = 1
    DefaultEnd = 10
    Workers <- MCWorkers
    MaxRuns = 2
    None = NoArg
    NoArg = NoArg
    w1 = w1
    w2 = w2
CHECK_DEADLOCK FALSE
INVARIANT EveryBoundaryListed

SPECIFICATION Spec
CONSTANTS
    ThousandsSize = 5
    MillionsSize = 10
    MaxHeight = 12
    InitCaches <- MCInitCaches
    StartArgs = {10}
    EndArgs = {5}
    DefaultStart = 5
    DefaultEnd = 10
    Workers <- MCWorkers
    MaxRuns = 2
    None = NoArg
    NoArg = NoArg
    w1 = w1
    w2 = w2
INVARIANT EveryBoundaryListed
INVARIANT DownloadsAccounted
PROPERTY RunTerminates
PROPERTY SequentialFixRefined
CHECK_DEADLOCK FALSE

\* Tip-filling and explicit-range runs, failures of every kind, crashes.
\* A 100 s baseline under the 120 s cap and a streak of one batch let the
\* two batches of a run double the delay to the cap and relax it to the floor.
CONSTANTS
    ThousandsSize = 10
    MillionsSize = 100
    MaxHeight = 12
    InitTip = 11
    InitCaches <- MCInitCaches
    StartArgs = {9}
    EndArgs = {12}
    BatchSize = 2
    BatchDelay = 100000
    MaxDelay = 120000
    StreakThreshold = 1
    MaxRetries = 2
    MaxRuns = 2
    None = NoArg
    NoArg = NoArg
SPECIFICATION Spec
INVARIANT TypeOK
INVARIANT TotalsMatchDisk
INVARIANT EntryHoldsOwnData
INVARIANT DelayWithinBounds
PROPERTY CompleteEntryStable
PROPERTY RunTerminates
\* The script exits and, after MaxRuns invocations, nobody starts it again.
CHECK_DEADLOCK FALSE

------------------------- MODULE OverlappingFetchers -------------------------
(***************************************************************************)
(* Two invocations of fetch_blocks_rpc.py over the same --blocks-dir: a    *)
(* resumed run started while an earlier one (or a cron job) still runs.    *)
(* Nothing in the script prevents it: there is no lock file, and each      *)
(* invocation keeps its own locals.  The composition interleaves the       *)
(* steps of two copies of RpcFetcher; they share the node (tip), the disk  *)
(* (files, dirs) and the bound on invocations (runs), and each has its     *)
(* own copy of main()'s locals.                                            *)
(***************************************************************************)
EXTENDS Naturals

CONSTANTS ThousandsSize, MillionsSize, MaxHeight, InitTip, InitCaches,
          StartArgs, EndArgs, BatchSize, BatchDelay, MaxDelay,
          StreakThreshold, MaxRetries, MaxRuns, None

VARIABLES
    tip, files, dirs, runs,
    pc1, startArg1, dryRun1, start1, end1, missing1, i1, attempt1,
    resp1, j1, written1, errors1, delay1, ok1,
    pc2, startArg2, dryRun2, start2, end2, missing2, i2, attempt2,
    resp2, j2, written2, errors2, delay2, ok2

proc1 == <<pc1, startArg1, dryRun1, start1, end1, missing1, i1, attempt1,
           resp1, j1, written1, errors1, delay1, ok1>>
proc2 == <<pc2, startArg2, dryRun2, start2, end2, missing2, i2, attempt2,
           resp2, j2, written2, errors2, delay2, ok2>>
vars == <<tip, files, dirs, runs, proc1, proc2>>

P1 == INSTANCE RpcFetcher
        WITH pc <- pc1, startArg <- startArg1, dryRun <- dryRun1,
             start <- start1, end <- end1, missing <- missing1, i <- i1,
             attempt <- attempt1, resp <- resp1,
             j <- j1, written <- written1, errors <- errors1,
             delay <- delay1, ok <- ok1

P2 == INSTANCE RpcFetcher
        WITH pc <- pc2, startArg <- startArg2, dryRun <- dryRun2,
             start <- start2, end <- end2, missing <- missing2, i <- i2,
             attempt <- attempt2, resp <- resp2,
             j <- j2, written <- written2, errors <- errors2,
             delay <- delay2, ok <- ok2

(* Both processes start idle over the same initial cache.                 *)
Init == P1!Init /\ P2!Init

(* A step of either process (or of the node), the other one's locals     *)
(* untouched; the OS interleaves the two at every file operation.         *)
Next ==
    \/ P1!Next /\ UNCHANGED proc2
    \/ P2!Next /\ UNCHANGED proc1

Spec == Init /\ [][Next]_vars /\ WF_vars(P1!RunStep /\ UNCHANGED proc2)
                              /\ WF_vars(P2!RunStep /\ UNCHANGED proc1)

----------------------------------------------------------------------------
(* The spec (sections 2 and 5): a cache entry is write-once-or-overwrite, *)
(* never partially mutated, and a run is resumed by simply re-invoking.   *)
(* So a complete entry stays as it is even while another invocation runs  *)
(* over the same directory: open(path, "wb") in fetch_and_write_batch     *)
(* never truncates an entry that the other process has finished.          *)
OverlapCompleteEntryStable ==
    [][\A x \in P1!Heights : P1!Complete(x) => files'[x] = files[x]]_files
=============================================================================

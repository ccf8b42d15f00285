---------------------------- MODULE FetchAndCheck ----------------------------
(***************************************************************************)
(* fetch_blocks_rpc.py and check_block_completeness.py over the same       *)
(* block directory, as they are used together: the fetcher fills the tip   *)
(* from the node, the checker scans the archive for gaps and, with --fix,  *)
(* repairs them from S3.  The two processes share only the disk (files,    *)
(* and the directories the fetcher reads back in find_cache_latest); each  *)
(* keeps its own locals, may be invoked again and may be killed at any     *)
(* step, and nothing orders the steps of one against those of the other.   *)
(* A file is the same record in both models: absent, partial, or the       *)
(* block and receipts of a height.                                         *)
(***************************************************************************)
EXTENDS Naturals

CONSTANTS
    ThousandsSize, MillionsSize, MaxHeight, InitCaches, None,
    InitTip, FetchStartArgs, FetchEndArgs, FetchRuns,
    BatchSize, BatchDelay, MaxDelay, StreakThreshold, MaxRetries,
    Workers, CheckStartArgs, CheckEndArgs, S3Start, CheckRuns

VARIABLES
    files, dirs,
    \* fetch_blocks_rpc.py
    tip, fruns, fpc, startArg, dryRun, fstart, end, missing, i, attempt,
    resp, j, written, errors, delay, ok,
    \* check_block_completeness.py and its pool
    queue, worker, results, downloaded, failed, cruns, cpc, fix, cstart,
    latest, chunks, totalExpected, totalMissing, allMissing, fixable, status

fetchVars == <<tip, fruns, fpc, startArg, dryRun, fstart, end, missing, i,
               attempt, resp, j, written, errors, delay, ok>>
checkVars == <<queue, worker, results, downloaded, failed, cruns, cpc, fix,
               cstart, latest, chunks, totalExpected, totalMissing,
               allMissing, fixable, status>>
vars == <<files, dirs, fetchVars, checkVars>>

Fetch == INSTANCE RpcFetcher
           WITH runs <- fruns, pc <- fpc, start <- fstart,
                StartArgs <- FetchStartArgs, EndArgs <- FetchEndArgs,
                MaxRuns <- FetchRuns

Check == INSTANCE CompletenessCheck
           WITH runs <- cruns, pc <- cpc, start <- cstart,
                StartArgs <- CheckStartArgs, EndArgs <- CheckEndArgs,
                MaxRuns <- CheckRuns

Init == Fetch!Init /\ Check!Init

(* download_one's cache_path(...).parent.mkdir(parents=True) comes before *)
(* write_bytes, so every file the checker creates has its directory, the  *)
(* same one block_path names (ScriptsAgree).                              *)
CheckDirs ==
    dirs' = dirs \cup {Fetch!BlockPathDir(x) : x \in {y \in Fetch!Heights : files'[y].state # "absent"}}

(* A step of either script; the other one's locals stay as they are.      *)
Next ==
    \/ Fetch!Next /\ UNCHANGED checkVars
    \/ Check!Next /\ CheckDirs /\ UNCHANGED fetchVars

Spec == Init /\ [][Next]_vars
             /\ WF_vars(Fetch!RunStep /\ UNCHANGED checkVars)
             /\ WF_vars(Check!RunStep /\ CheckDirs /\ UNCHANGED fetchVars)

----------------------------------------------------------------------------
(* The spec: no entry is ever left partially written, and a run is        *)
(* resumed by re-invoking.  So once no fetcher is running, a check run    *)
(* that finds nothing missing leaves every height of its range a complete *)
(* entry, whichever script wrote it: a fetcher killed (or whose f.write   *)
(* failed) between open(path, "wb") and the end of the write, or a        *)
(* checker killed inside write_bytes, must not leave a file that the next *)
(* scan's exists() test counts as done.                                   *)
CleanScanMeansComplete ==
    (cpc = "done" /\ totalMissing = 0 /\ fpc = "idle")
        => \A h \in cstart .. latest : Check!Complete(h)
=============================================================================

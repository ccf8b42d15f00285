--------------------------- MODULE BoundaryDownload ---------------------------
(***************************************************************************)
(* scripts/download_boundary_blocks.py: list the multiples of 1000 in      *)
(* [start, end] whose local file is absent (an earlier path formula never  *)
(* fetched them) and download them from S3 through the same pool as       *)
(* check_block_completeness (module DownloadPool).  The listing visits    *)
(* range(start, end + 1, 1000).  The environment may invoke the script    *)
(* again and kill a run at any point.                                     *)
(***************************************************************************)
EXTENDS Integers, Sequences, FiniteSets, SequencesExt, PathScheme, DownloadPool

CONSTANTS
    InitCaches,    \* possible sets of heights cached before the first run
    StartArgs,     \* values offered for --start (besides the default)
    EndArgs,       \* values offered for --end (besides the default)
    DefaultStart,  \* CHAIN_CONFIG[chain]["default_start"]
    DefaultEnd,    \* CHAIN_CONFIG[chain]["default_end"]
    MaxRuns,       \* bound on invocations of the script
    None           \* an argument left at its default

ASSUME InitCaches \subseteq SUBSET Heights
ASSUME StartArgs \cup EndArgs \cup {DefaultStart, DefaultEnd} \subseteq Heights
ASSUME Workers # {} /\ MaxRuns \in Nat

VARIABLES
    runs,     \* invocations so far
    pc,       \* "idle", "pool" or "done"
    start,    \* args.start
    end,      \* args.end
    dryRun,   \* --dry-run
    missing   \* find_missing_blocks' result, submitted to the pool

mainVars == <<runs, pc, start, end, dryRun, missing>>
vars == <<files, poolVars, mainVars>>

(* range(a, b + 1, step), as a set.                                       *)
RangeStep(a, b, step) == {x \in a .. b : (x - a) % step = 0}

(* Mutant: the scan stops before end, as range(start, end, 1000) would.   *)
FindMissingBlocksExclusive(s, e) ==
    SetToSortSeq({h \in RangeStep(s, e - 1, ThousandsSize) : ~Present(h)},
                 LAMBDA a, b : a < b)

(* Mutant: every boundary block is listed, without the exists() test.    *)
FindMissingBlocksNoExists(s, e) ==
    SetToSortSeq(RangeStep(s, e, ThousandsSize), LAMBDA a, b : a < b)

(* find_missing_blocks: the heights of range(start, end + 1, 1000), in    *)
(* order, whose cache_path does not exist.                                *)
FindMissingBlocks(s, e) ==
    SetToSortSeq({h \in RangeStep(s, e, ThousandsSize) : ~Present(h)},
                 LAMBDA a, b : a < b)

Init ==
    /\ \E c \in InitCaches :
          files = [h \in Heights |-> IF h \in c THEN Entry(h) ELSE Absent]
    /\ PoolIdle
    /\ runs = 0 /\ pc = "idle" /\ start = 0 /\ end = 0 /\ dryRun = FALSE
    /\ missing = <<>>

(* main() up to the pool: defaults from the chain profile, the listing,   *)
(* and the early return on --dry-run or when nothing is missing.          *)
Invoke ==
    /\ pc = "idle" /\ runs < MaxRuns
    /\ \E s \in StartArgs \cup {None}, e \in EndArgs \cup {None}, dry \in BOOLEAN :
          LET st == IF s = None THEN DefaultStart ELSE s
              en == IF e = None THEN DefaultEnd ELSE e
              m == FindMissingBlocks(st, en)
          IN /\ start' = st /\ end' = en /\ dryRun' = dry /\ missing' = m
             /\ IF dry \/ m = <<>>
                THEN pc' = "done" /\ UNCHANGED queue
                ELSE pc' = "pool" /\ queue' = m
    /\ runs' = runs + 1
    /\ UNCHANGED <<files, worker, results, downloaded, failed>>

(* A thread of the pool, or the coordinating loop, takes a step.          *)
Downloading ==
    /\ pc = "pool" /\ PoolStep
    /\ UNCHANGED mainVars

(* as_completed is exhausted; the executor shuts down and main() prints   *)
(* the totals.                                                            *)
PoolDone ==
    /\ pc = "pool" /\ Drained(Len(missing))
    /\ pc' = "done"
    /\ UNCHANGED <<files, poolVars, runs, start, end, dryRun, missing>>

(* main() returns.                                                        *)
Exit ==
    /\ pc = "done" /\ pc' = "idle"
    /\ start' = 0 /\ end' = 0 /\ dryRun' = FALSE /\ missing' = <<>>
    /\ PoolGone
    /\ UNCHANGED <<files, runs>>

(* The process is killed: its threads die with it, files stay as they are.*)
Crash ==
    /\ pc # "idle" /\ pc' = "idle"
    /\ start' = 0 /\ end' = 0 /\ dryRun' = FALSE /\ missing' = <<>>
    /\ PoolGone
    /\ UNCHANGED <<files, runs>>

RunStep == Downloading \/ PoolDone \/ Exit

Next == Invoke \/ RunStep \/ Crash

(* The pool's threads and the coordinator keep being scheduled while the  *)
(* process lives; invocations and kills are not assumed.                  *)
Spec == Init /\ [][Next]_vars /\ WF_vars(RunStep)
-----------------------------------------------------------------------------
(* Refinement: as in CompletenessCheck, the heights a thread has taken    *)
(* and whose future is not yet yielded are shown as still absent, and the *)
(* submitted heights not yet counted form the abstract to-do set.         *)
InFlight == ({worker[w] : w \in Workers} \ {0}) \cup {r[1] : r \in results}

AbsFiles == [h \in Heights |-> IF h \in InFlight THEN Absent ELSE files[h]]

Fix == INSTANCE SequentialFix WITH files <- AbsFiles, todo <- ToSet(queue) \cup InFlight

(* The script's purpose: once listed, every boundary block (a multiple of *)
(* 1000) of [start, end] without a local file is in the list submitted    *)
(* to the pool, for any --start and --end the chain profile or the user   *)
(* gives.                                                                 *)
EveryBoundaryListed ==
    pc \in {"pool", "done"} =>
        \A h \in start .. end :
            (h % ThousandsSize = 0 /\ ~Present(h)) => h \in ToSet(missing)

(* The (downloaded, failed) totals main() prints, counted by the          *)
(* coordinator from results arriving in any order, account for every     *)
(* listed block (none on --dry-run), and downloaded is the number of them *)
(* now complete on disk.                                                  *)
DownloadsAccounted ==
    (pc = "done" /\ ~dryRun) =>
        /\ downloaded + failed = Len(missing)
        /\ downloaded = Cardinality({h \in ToSet(missing) : Complete(h)})

(* Every run of the script returns, whatever the order of the threads.    *)
RunTerminates == (pc # "idle") ~> (pc = "idle")

(* main()'s pool, with its threads and completion-order counting, does   *)
(* what downloading the listed blocks one at a time would: each is        *)
(* counted once, as downloaded exactly when its entry is then complete.   *)
SequentialFixRefined == Fix!Spec
=============================================================================

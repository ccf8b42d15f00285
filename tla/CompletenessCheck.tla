-------------------------- MODULE CompletenessCheck --------------------------
(***************************************************************************)
(* scripts/check_block_completeness.py: scan the local block cache shard   *)
(* by shard for absent heights and, with --fix, download the ones inside   *)
(* the S3 range through a thread pool.  main() returns the exit status 1   *)
(* when the scan found a height missing.                                   *)
(*                                                                         *)
(* The model keeps the control of main (range determination, the shard     *)
(* loop, the fix step, the exit status), of find_latest_local_block, of    *)
(* check_chunk and of download_blocks: the pool's FIFO work queue, its     *)
(* worker threads each running download_one, and the coordinating thread  *)
(* consuming results with as_completed in completion order.  The disk is  *)
(* per height an absent, partial (opened by write_bytes but not yet      *)
(* written) or complete file; directories are left out, as nothing this  *)
(* script reads depends on an empty one.  The                             *)
(* environment may invoke the script again and kill a run at any point.   *)
(***************************************************************************)
EXTENDS Integers, Sequences, FiniteSets, SequencesExt, PathScheme, DownloadPool

CONSTANTS
    InitCaches,  \* possible sets of heights cached before the first run
    StartArgs,   \* values offered for --start (besides the default)
    EndArgs,     \* values offered for --end; 0 is the default (auto-detect)
    S3Start,     \* CHAIN_CONFIG[chain]["s3_start"]
    MaxRuns,     \* bound on invocations of the script
    None         \* --start left at its default

ASSUME InitCaches \subseteq SUBSET Heights
ASSUME StartArgs \subseteq Heights /\ EndArgs \subseteq 0 .. MaxHeight
ASSUME S3Start \in Heights /\ Workers # {} /\ MaxRuns \in Nat

VARIABLES
    runs,           \* invocations so far
    pc,             \* "idle", "scan", "pool" or "done"
    fix,            \* --fix
    start,          \* args.start
    latest,         \* --end, or find_latest_local_block
    chunks,         \* the <<millions_base, thousands_base>> still to scan
    totalExpected,  \* total_expected
    totalMissing,   \* total_missing
    allMissing,     \* all_missing, in scan order
    fixable,        \* the heights submitted to download_blocks
    status          \* exit status of the last run: 0, 1, -9 if killed, -1 before any

scanVars == <<runs, pc, fix, start, latest, chunks, totalExpected,
              totalMissing, allMissing, fixable, status>>
vars == <<files, poolVars, scanVars>>

(* find_latest_local_block: the highest height with a file under a        *)
(* digit-named thousands directory; every file counts, written or not.    *)
FindLatestLocalBlock ==
    LET hs == {h \in Heights : Present(h)}
    IN IF hs = {} THEN 0 ELSE CHOOSE h \in hs : \A g \in hs : g <= h

MaxOf2(a, b) == IF a >= b THEN a ELSE b
MinOf2(a, b) == IF a <= b THEN a ELSE b

(* The bucket of x in the code's ((x - 1) // size) * size.                *)
Below(x, size) == Bucket(x - 1, size)

(* Mutant: t_start bucketed by --start itself instead of --start - 1.   *)
ThousandsStartNoMinusOne(s, mb) ==
    IF s > 0 THEN MaxOf2(Bucket(s, ThousandsSize), mb) ELSE mb

(* t_start of the millions directory mb.                                  *)
ThousandsStart(s, mb) ==
    IF s > 0 THEN MaxOf2(Below(s, ThousandsSize), mb) ELSE mb

(* The (millions_base, thousands_base) pairs main's two nested loops       *)
(* visit, in visiting order (thousands bases increase across millions).   *)
ShardLoop(s, l) ==
    LET ms == IF s > 0 THEN Below(s, MillionsSize) ELSE 0
        me == IF l > 0 THEN Below(l, MillionsSize) ELSE 0
        TEnd(mb) == MinOf2(mb + MillionsSize - ThousandsSize, Below(l, ThousandsSize))
        Steps(a, b, size) == {x \in a .. b : (x - a) % size = 0}
        pairs == UNION { {<<mb, tb>> : tb \in Steps(ThousandsStart(s, mb), TEnd(mb), ThousandsSize)} :
                         mb \in Steps(ms, me, MillionsSize) }
    IN SetToSortSeq(pairs, LAMBDA a, b : a[2] < b[2])

Ascending(S) == SetToSortSeq(S, LAMBDA a, b : a < b)

(* The values of main's locals before the scan.                           *)
ScanReset ==
    /\ fix' = FALSE /\ start' = 0 /\ latest' = 0 /\ chunks' = <<>>
    /\ totalExpected' = 0 /\ totalMissing' = 0 /\ allMissing' = <<>>
    /\ fixable' = <<>>

Init ==
    /\ \E c \in InitCaches :
          files = [h \in Heights |-> IF h \in c THEN Entry(h) ELSE Absent]
    /\ PoolIdle
    /\ runs = 0 /\ pc = "idle"
    /\ fix = FALSE /\ start = 0 /\ latest = 0 /\ chunks = <<>>
    /\ totalExpected = 0 /\ totalMissing = 0 /\ allMissing = <<>>
    /\ fixable = <<>> /\ status = -1

(* main() up to the shard loop: default start from the chain profile,     *)
(* latest from --end or from the cache.                                   *)
Invoke ==
    /\ pc = "idle" /\ runs < MaxRuns
    /\ \E s \in StartArgs \cup {None}, e \in EndArgs, f \in BOOLEAN :
          LET st == IF s = None THEN S3Start ELSE s
              l == IF e > 0 THEN e ELSE FindLatestLocalBlock
          IN /\ start' = st /\ latest' = l /\ fix' = f
             /\ chunks' = ShardLoop(st, l)
    /\ runs' = runs + 1 /\ pc' = "scan"
    /\ UNCHANGED <<files, poolVars, totalExpected, totalMissing, allMissing,
                   fixable, status>>

(* Mutant: total_expected += len(expected) dropped.                     *)
ScanChunkNoExpected ==
    /\ pc = "scan" /\ chunks # <<>>
    /\ LET expected == BlocksInChunk(Head(chunks)[2], Head(chunks)[1], latest)
           missing == Ascending({bn \in expected : ~Present(bn)})
       IN /\ totalExpected' = totalExpected
          /\ totalMissing' = totalMissing + Len(missing)
          /\ allMissing' = allMissing \o missing
    /\ chunks' = Tail(chunks)
    /\ UNCHANGED <<files, poolVars, runs, pc, fix, start, latest, fixable, status>>

(* One iteration of the inner loop: blocks_in_chunk, then check_chunk's   *)
(* existence test of each expected height (an empty chunk adds nothing). *)
ScanChunk ==
    /\ pc = "scan" /\ chunks # <<>>
    /\ LET expected == BlocksInChunk(Head(chunks)[2], Head(chunks)[1], latest)
           missing == Ascending({bn \in expected : ~Present(bn)})
       IN /\ totalExpected' = totalExpected + Cardinality(expected)
          /\ totalMissing' = totalMissing + Len(missing)
          /\ allMissing' = allMissing \o missing
    /\ chunks' = Tail(chunks)
    /\ UNCHANGED <<files, poolVars, runs, pc, fix, start, latest, fixable, status>>

(* After the loop: with --fix, the missing heights at or above s3_start   *)
(* are submitted to download_blocks; otherwise main() goes on to return.  *)
ScanDone ==
    /\ pc = "scan" /\ chunks = <<>>
    /\ LET fx == SelectSeq(allMissing, LAMBDA bn : bn >= S3Start)
       IN IF fix /\ fx # <<>>
          THEN pc' = "pool" /\ fixable' = fx /\ queue' = fx
          ELSE pc' = "done" /\ UNCHANGED <<fixable, queue>>
    /\ UNCHANGED <<files, runs, fix, start, latest, chunks, totalExpected,
                   totalMissing, allMissing, worker, results, downloaded,
                   failed, status>>

(* A thread of download_blocks' pool, or its coordinator, takes a step.   *)
Fixing ==
    /\ pc = "pool" /\ PoolStep
    /\ UNCHANGED scanVars

(* as_completed is exhausted and download_blocks returns.                 *)
PoolDone ==
    /\ pc = "pool" /\ Drained(Len(fixable))
    /\ pc' = "done"
    /\ UNCHANGED <<files, poolVars, runs, fix, start, latest, chunks,
                   totalExpected, totalMissing, allMissing, fixable, status>>

(* main() returns 1 if total_missing > 0 else 0.                          *)
RetVal == IF totalMissing > 0 THEN 1 ELSE 0

(* sys.exit(main()): the executor was shut down on leaving download_blocks.*)
Exit ==
    /\ pc = "done" /\ pc' = "idle" /\ status' = RetVal
    /\ ScanReset /\ PoolGone
    /\ UNCHANGED <<files, runs>>

(* The process is killed: its threads die with it, files stay as they are.*)
Crash ==
    /\ pc # "idle" /\ pc' = "idle" /\ status' = -9
    /\ ScanReset /\ PoolGone
    /\ UNCHANGED <<files, runs>>

RunStep == ScanChunk \/ ScanDone \/ Fixing \/ PoolDone \/ Exit

Next == Invoke \/ RunStep \/ Crash

(* Every thread of a live process keeps being scheduled; invocations and  *)
(* kills come from outside and are not assumed.                           *)
Spec == Init /\ [][Next]_vars /\ WF_vars(RunStep)
-----------------------------------------------------------------------------
(* Refinement: the heights a thread has taken, whose future is not yet    *)
(* yielded, are shown as still absent (their write is not yet observed),  *)
(* and the submitted heights not yet counted form the abstract to-do set. *)
InFlight == ({worker[w] : w \in Workers} \ {0}) \cup {r[1] : r \in results}

AbsFiles == [h \in Heights |-> IF h \in InFlight THEN Absent ELSE files[h]]

Fix == INSTANCE SequentialFix WITH files <- AbsFiles, todo <- ToSet(queue) \cup InFlight


TypeOK ==
    /\ PoolTypeOK
    /\ pc \in {"idle", "scan", "pool", "done"} /\ fix \in BOOLEAN
    /\ runs \in 0 .. MaxRuns /\ start \in 0 .. MaxHeight /\ latest \in 0 .. MaxHeight
    /\ totalMissing \in 0 .. totalExpected /\ totalExpected \in 0 .. MaxHeight
    /\ ToSet(allMissing) \subseteq Heights /\ ToSet(fixable) \subseteq Heights
    /\ status \in {-1, 0, 1, -9}

(* The scan misses no gap: once the shard loop of main() is done, every   *)
(* height of [start, latest] without a file is in all_missing (the t_start*)
(* and t_end bucketing of the loop cover the whole range).                *)
ScanFindsEveryGap ==
    pc \in {"pool", "done"} =>
        \A h \in start .. latest : ~Present(h) => h \in ToSet(allMissing)

(* download_blocks' (downloaded, failed), counted by the coordinator from *)
(* results arriving in any order, account for every submitted height, and *)
(* downloaded is exactly the number of them now complete on disk.        *)
DownloadsAccounted ==
    pc = "done" =>
        /\ downloaded + failed = Len(fixable)
        /\ downloaded = Cardinality({h \in ToSet(fixable) : Complete(h)})

(* Every run of the script returns: the pool's as_completed loop yields   *)
(* every submitted future, whatever the threads' order.                   *)
RunTerminates == (pc # "idle") ~> (pc = "idle")

(* download_blocks with its threads and completion-order counting does    *)
(* what a loop downloading one height at a time would: each submitted     *)
(* height is counted exactly once, as downloaded exactly when its entry   *)
(* is then complete, and a kill abandons the heights not yet counted.     *)
SequentialFixRefined == Fix!Spec

(* The spec's GapReport is for [start, end]: all_missing holds no height  *)
(* outside it.  The first shard of the loop starts at its thousands base, *)
(* below --start.                                                         *)
ReportWithinRange ==
    pc \in {"pool", "done"} =>
        \A h \in ToSet(allMissing) : start <= h /\ h <= latest

(* The run's exit status reflects whether a height of the range is still  *)
(* missing after the run, repairs included.                               *)
ExitReflectsRemaining ==
    pc = "done" => ((RetVal = 1) <=> \E h \in start .. latest : ~Present(h))
=============================================================================

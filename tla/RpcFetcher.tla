----------------------------- MODULE RpcFetcher -----------------------------
(***************************************************************************)
(* scripts/fetch_blocks_rpc.py: fill the local block cache from a JSON-RPC *)
(* node.  One invocation of main() determines a height range, lists the    *)
(* heights whose file is absent, and fetches them batch by batch; each     *)
(* batch is one rpc_call (with its own retry loop) followed by a           *)
(* sequential write of every height of the batch.  Between batches an      *)
(* adaptive delay doubles on a failed batch and relaxes after a streak of  *)
(* successful ones.                                                        *)
(*                                                                         *)
(* The model keeps the control of main, rpc_call, fetch_and_write_batch    *)
(* and find_cache_latest, and the on-disk state they change: the set of    *)
(* thousands directories and, per height, whether its file is absent,      *)
(* partially written (opened with "wb" but not yet closed) or a complete   *)
(* entry.  A complete entry records whose block data it holds and whose    *)
(* receipts (0 when the receipts response was missing and [] was written). *)
(* The environment may grow the chain tip, invoke the script again, and    *)
(* kill a running invocation at any point.  Sleeps are left out: only the  *)
(* value of the adaptive delay is kept.                                    *)
(***************************************************************************)
EXTENDS Integers, Sequences, FiniteSets, PathScheme

CONSTANTS
    MaxHeight,        \* highest block the node reaches in the model
    InitTip,          \* the node's tip when the model starts
    InitCaches,       \* possible sets of heights cached before the first run
    StartArgs,        \* values offered for --start (besides the default)
    EndArgs,          \* values offered for --end (besides the default)
    BatchSize,        \* --batch-size (BATCH_SIZE = 5)
    BatchDelay,       \* --delay in ms (BATCH_DELAY = 5.0 s)
    MaxDelay,         \* the 120 s cap of the backoff, in ms
    StreakThreshold,  \* the 5 consecutive successes before relaxing
    MaxRetries,       \* MAX_RETRIES = 5 attempts of one rpc_call
    MaxRuns,          \* bound on invocations of the script
    None              \* an argument left at its default

Heights == 1 .. MaxHeight

ASSUME InitTip \in Heights /\ InitCaches \subseteq SUBSET (1 .. InitTip)
ASSUME StartArgs \subseteq Heights /\ EndArgs \subseteq Heights
ASSUME BatchSize \in Nat \ {0} /\ MaxRetries \in Nat \ {0}
ASSUME BatchDelay \in Nat \ {0} /\ MaxDelay \in Nat \ {0}
ASSUME StreakThreshold \in Nat \ {0} /\ MaxRuns \in Nat

(* The content of a file.  A complete one records the height whose block  *)
(* data it holds and the height whose receipts it holds, 0 for the []     *)
(* written when none came back.                                           *)
Absent == [state |-> "absent", blk |-> 0, rcpts |-> 0]
Partial == [state |-> "partial", blk |-> 0, rcpts |-> 0]
Entry(b, r) == [state |-> "complete", blk |-> b, rcpts |-> r]
Entries == {Entry(b, r) : b \in Heights, r \in Heights \cup {0}}

VARIABLES
    tip,        \* the node's current block number
    files,      \* per height: Absent, Partial or an entry of Entries
    dirs,       \* the <<millions, thousands>> directories that exist
    runs,       \* invocations so far
    pc,         \* where the running invocation is; "idle" when none runs
    startArg,   \* --start of the running invocation (None: default)
    dryRun,     \* --dry-run
    start,      \* args.start after range determination
    end,        \* args.end after range determination (0 until known)
    missing,    \* the heights main() will fetch, in order
    i,          \* offset of the current batch in missing
    attempt,    \* attempt number of the rpc_call in progress
    resp,       \* the batch response: request id -> "ok" or "none"
    j,          \* position, in the current batch, of the height being written
    written,    \* total_written
    errors,     \* total_errors
    delay,      \* current_delay
    ok          \* consecutive_ok

vars == <<tip, files, dirs, runs, pc, startArg, dryRun, start, end, missing,
          i, attempt, resp, j, written, errors, delay, ok>>

diskVars == <<files, dirs>>
runVars == <<startArg, dryRun, start, end, missing, i, attempt, resp,
             j, written, errors, delay, ok>>

MinOf(a, b) == IF a < b THEN a ELSE b
MaxOf(a, b) == IF a > b THEN a ELSE b
MaxSet(S) == CHOOSE x \in S : \A y \in S : y <= x

Present(x) == files[x].state # "absent"     \* os.path.exists(block_path(...))
Complete(x) == files[x].state = "complete"

(* find_cache_latest: the highest millions directory, in it the highest   *)
(* thousands directory (both sorted numerically), in it the file name     *)
(* that sorts last as a string; 0 as soon as one level is empty.          *)
FindCacheLatest ==
    LET millions == {d[1] : d \in dirs}
        lm == MaxSet(millions)
        lt == MaxSet({d[2] : d \in {e \in dirs : e[1] = lm}})
        inDir == {x \in Heights : Present(x) /\ BlockPathDir(x) = <<lm, lt>>}
    IN  IF millions = {} THEN 0
        ELSE IF inDir = {} THEN 0
        ELSE LexicalLast(inDir)

(* The current batch: missing[i : i + batch_size].                        *)
Batch == SubSeq(missing, i + 1, MinOf(i + BatchSize, Len(missing)))

(* Request ids of the i-th height (from 1) of the batch: 2i and 2i+1      *)
(* counted from 0, for eth_getBlockByNumber and eth_getBlockReceipts.     *)
(* Mutant: the response loop counts heights from 1 (enumerate(..., 1)).  *)
BlockIdFromOne(k) == k * 2

BlockId(k) == (k - 1) * 2
ReceiptsId(k) == (k - 1) * 2 + 1
Ids == 0 .. 2 * Len(Batch) - 1

(* by_id.get(id, {}).get("result"): an id absent from the response gives  *)
(* no result.                                                             *)
ById(id) == IF id \in DOMAIN resp THEN resp[id] ELSE "none"

(* The height a request id asked for: the node answers each request for  *)
(* the params it carried.                                                 *)
RequestedHeight(id) == Batch[id \div 2 + 1]

(* Outcomes of one batch request: per id, a usable result or none (id     *)
(* absent from the array, "result": null, an error object, or a block     *)
(* that rpc_to_nanoreth cannot convert).                                  *)
Responses == [Ids -> {"ok", "none"}]

(* The locals of main() while no invocation runs; an exiting or killed    *)
(* process leaves none behind.                                            *)
NoRun ==
    /\ startArg = None
    /\ dryRun = FALSE
    /\ start = 0
    /\ end = 0
    /\ missing = <<>>
    /\ i = 0
    /\ attempt = 0
    /\ resp = <<>>
    /\ j = 0
    /\ written = 0
    /\ errors = 0
    /\ delay = BatchDelay
    /\ ok = 0

ResetRun ==
    /\ startArg' = None
    /\ dryRun' = FALSE
    /\ start' = 0
    /\ end' = 0
    /\ missing' = <<>>
    /\ i' = 0
    /\ attempt' = 0
    /\ resp' = <<>>
    /\ j' = 0
    /\ written' = 0
    /\ errors' = 0
    /\ delay' = BatchDelay
    /\ ok' = 0

----------------------------------------------------------------------------
Init ==
    /\ tip = InitTip
    /\ \E c \in InitCaches :
         /\ files = [x \in Heights |->
                        IF x \in c THEN Entry(x, x) ELSE Absent]
         /\ dirs = {BlockPathDir(x) : x \in c}
    /\ runs = 0
    /\ pc = "idle"
    /\ NoRun

(* The node produces a new block.                                         *)
ChainGrows ==
    /\ tip < MaxHeight
    /\ tip' = tip + 1
    /\ UNCHANGED <<files, dirs, runs, pc>>
    /\ UNCHANGED runVars

(* main(): parse the arguments and determine start; if --end is not given *)
(* the tip is asked for next, otherwise the scan follows.  The fetch      *)
(* loop's totals and pacing state start afresh in every invocation.       *)
Invoke ==
    /\ pc = "idle"
    /\ runs < MaxRuns
    /\ \E s \in StartArgs \cup {None}, e \in EndArgs \cup {None}, d \in BOOLEAN :
         /\ startArg' = s
         /\ start' = IF s = None THEN FindCacheLatest + 1 ELSE s
         /\ end' = IF e = None THEN 0 ELSE e
         /\ pc' = IF e = None THEN "tip" ELSE "scan"
         /\ dryRun' = d
    /\ runs' = runs + 1
    /\ attempt' = 0
    /\ missing' = <<>>
    /\ i' = 0
    /\ resp' = <<>>
    /\ j' = 0
    /\ written' = 0
    /\ errors' = 0
    /\ delay' = BatchDelay
    /\ ok' = 0
    /\ UNCHANGED <<tip, files, dirs>>

(* One attempt of rpc_call that returns a list of responses.  For         *)
(* get_chain_tip the tip becomes args.end; for a batch the responses are  *)
(* indexed by id and the heights are written from the first one on.      *)
RpcReturns ==
    /\ pc \in {"tip", "rpc"}
    /\ IF pc = "tip"
         THEN /\ end' = tip
              /\ pc' = "scan"
              /\ UNCHANGED <<resp, j>>
         ELSE /\ \E r \in Responses : resp' = r
              /\ j' = 1
              /\ pc' = "height"
              /\ UNCHANGED end
    /\ UNCHANGED <<tip, files, dirs, runs, startArg, dryRun, start, missing, i,
                   attempt, written, errors, delay, ok>>

(* Mutant: one attempt too many before giving up.                        *)
RpcRetryPastLimit ==
    /\ pc \in {"tip", "rpc"}
    /\ attempt < MaxRetries
    /\ attempt' = attempt + 1
    /\ UNCHANGED <<tip, files, dirs, runs, pc, startArg, dryRun, start, end,
                   missing, i, resp, j, written, errors, delay, ok>>

(* An attempt raises RequestException: a transport error, a timeout, an   *)
(* HTTP error status, a body that is not JSON, or a single error object   *)
(* (the raise inside the try is caught by the same except).  Before the   *)
(* last attempt rpc_call sleeps and tries again.                           *)
RpcRetry ==
    /\ pc \in {"tip", "rpc"}
    /\ attempt < MaxRetries - 1
    /\ attempt' = attempt + 1
    /\ UNCHANGED <<tip, files, dirs, runs, pc, startArg, dryRun, start, end,
                   missing, i, resp, j, written, errors, delay, ok>>

(* Mutant: the failed batch is re-queued, as the comment in the except   *)
(* clause considers, by neither counting it nor advancing the offset.    *)
RpcGiveUpRequeue ==
    /\ pc \in {"tip", "rpc"}
    /\ attempt = MaxRetries - 1
    /\ IF pc = "tip"
         THEN /\ pc' = "exit"
              /\ UNCHANGED <<delay, ok>>
         ELSE /\ delay' = MinOf(delay * 2, MaxDelay)
              /\ ok' = 0
              /\ pc' = "batch"
    /\ UNCHANGED <<tip, files, dirs, runs, startArg, dryRun, start, end,
                   missing, attempt, resp, j, written>>
    /\ UNCHANGED <<errors, i>>

(* The last attempt fails and rpc_call re-raises.  get_chain_tip does not *)
(* catch it and the script exits; the batch loop catches it: the delay    *)
(* doubles up to the cap, the streak resets, the whole batch is counted   *)
(* as errors and the loop moves on to the next batch.                     *)
RpcGiveUp ==
    /\ pc \in {"tip", "rpc"}
    /\ attempt = MaxRetries - 1
    /\ IF pc = "tip"
         THEN /\ pc' = "exit"
              /\ UNCHANGED <<delay, ok, errors, i>>
         ELSE /\ delay' = MinOf(delay * 2, MaxDelay)
              /\ ok' = 0
              /\ errors' = errors + Len(Batch)
              /\ i' = i + BatchSize
              /\ pc' = "batch"
    /\ UNCHANGED <<tip, files, dirs, runs, startArg, dryRun, start, end,
                   missing, attempt, resp, j, written>>

(* Mutant: the fast mode of the spec, every height of the range is     *)
(* assumed missing without testing existence.                            *)
ScanAssumeMissing ==
    /\ pc = "scan"
    /\ LET range == [k \in 1 .. MaxOf(end - start + 1, 0) |-> start + k - 1]
           absent(x) == ~Present(x)
       IN  /\ missing' = range
           /\ pc' = IF dryRun \/ missing' = <<>> THEN "exit" ELSE "batch"
    /\ UNCHANGED <<tip, files, dirs, runs, startArg, dryRun, start, end, i,
                   attempt, resp, j, written, errors, delay, ok>>

(* The range scan: every height of start..end whose file does not exist   *)
(* (both the --scan-gaps branch and the default branch test existence).   *)
(* A dry run, or nothing to fetch, ends the invocation.                   *)
Scan ==
    /\ pc = "scan"
    /\ LET range == [k \in 1 .. MaxOf(end - start + 1, 0) |-> start + k - 1]
           absent(x) == ~Present(x)
       IN  /\ missing' = SelectSeq(range, absent)
           /\ pc' = IF dryRun \/ missing' = <<>> THEN "exit" ELSE "batch"
    /\ UNCHANGED <<tip, files, dirs, runs, startArg, dryRun, start, end, i,
                   attempt, resp, j, written, errors, delay, ok>>

(* Head of the batch loop: start the next batch's rpc_call, or finish.    *)
NextBatch ==
    /\ pc = "batch"
    /\ pc' = IF i < Len(missing) THEN "rpc" ELSE "exit"
    /\ attempt' = 0
    /\ UNCHANGED <<tip, files, dirs, runs, startArg, dryRun, start, end,
                   missing, i, resp, j, written, errors, delay, ok>>

(* Mutant: the height is skipped without errors += 1.                   *)
SkipHeightUncounted ==
    /\ pc = "height"
    /\ j <= Len(Batch)
    /\ ById(BlockId(j)) = "none"
    /\ j' = j + 1
    /\ UNCHANGED <<tip, files, dirs, runs, pc, startArg, dryRun, start, end,
                   missing, i, attempt, resp, written, delay, ok,
                   errors>>

(* A height without block data (missing id, null result or error) or     *)
(* whose conversion raises is counted as an error and skipped.            *)
SkipHeight ==
    /\ pc = "height"
    /\ j <= Len(Batch)
    /\ ById(BlockId(j)) = "none"
    /\ errors' = errors + 1
    /\ j' = j + 1
    /\ UNCHANGED <<tip, files, dirs, runs, pc, startArg, dryRun, start, end,
                   missing, i, attempt, resp, written, delay, ok>>

(* os.makedirs(..., exist_ok=True) then open(path, "wb").  Either may     *)
(* raise (the directory may be left created); the except counts an       *)
(* error.  Otherwise the file now exists, empty, until it is written.     *)
OpenFile ==
    /\ pc = "height"
    /\ j <= Len(Batch)
    /\ ById(BlockId(j)) = "ok"
    /\ LET x == Batch[j] IN
       \/ /\ dirs' \in {dirs, dirs \cup {BlockPathDir(x)}}
          /\ errors' = errors + 1
          /\ j' = j + 1
          /\ UNCHANGED <<files, pc>>
       \/ /\ dirs' = dirs \cup {BlockPathDir(x)}
          /\ files' = [files EXCEPT ![x] = Partial]
          /\ pc' = "write"
          /\ UNCHANGED <<errors, j>>
    /\ UNCHANGED <<tip, runs, startArg, dryRun, start, end, missing, i,
                   attempt, resp, written, delay, ok>>

(* f.write(compressed) and close: the entry is complete and holds the     *)
(* block of the block response and the receipts of the receipts response  *)
(* (or [] when there was none).  A failing write is counted as an error   *)
(* and leaves the file as it is.                                           *)
WriteFile ==
    /\ pc = "write"
    /\ LET x == Batch[j]
           entry == Entry(RequestedHeight(BlockId(j)),
                          IF ById(ReceiptsId(j)) = "ok"
                          THEN RequestedHeight(ReceiptsId(j)) ELSE 0)
       IN  \/ /\ files' = [files EXCEPT ![x] = entry]
              /\ written' = written + 1
              /\ UNCHANGED errors
           \/ /\ errors' = errors + 1
              /\ UNCHANGED <<files, written>>
    /\ j' = j + 1
    /\ pc' = "height"
    /\ UNCHANGED <<tip, dirs, runs, startArg, dryRun, start, end, missing, i,
                   attempt, resp, delay, ok>>

(* Mutant: the relaxed delay is not floored at the baseline.             *)
RelaxNoFloor(d) == (d * 4) \div 5

(* max(args.delay, current_delay * 0.8); the delay is kept in integer ms. *)
Relax(d) == MaxOf(BatchDelay, (d * 4) \div 5)

(* fetch_and_write_batch returned: the streak grows and, once it reaches  *)
(* the threshold while the delay is above the baseline, the delay         *)
(* relaxes by 20% but not below the baseline; then the next batch.        *)
BatchDone ==
    /\ pc = "height"
    /\ j > Len(Batch)
    /\ ok' = ok + 1
    /\ delay' = IF ok' >= StreakThreshold /\ delay > BatchDelay
                  THEN Relax(delay) ELSE delay
    /\ i' = i + BatchSize
    /\ pc' = "batch"
    /\ resp' = <<>>
    /\ j' = 0
    /\ UNCHANGED <<tip, files, dirs, runs, startArg, dryRun, start, end,
                   missing, attempt, written, errors>>

(* main() returns (or get_chain_tip raised) and the process exits.        *)
Exit ==
    /\ pc = "exit"
    /\ pc' = "idle"
    /\ ResetRun
    /\ UNCHANGED <<tip, files, dirs, runs>>

(* The invocation is killed (Ctrl-C, OOM, a KeyError on a malformed       *)
(* response): whatever is on disk stays, a file opened but not written    *)
(* stays partial.                                                         *)
Crash ==
    /\ pc # "idle"
    /\ pc' = "idle"
    /\ ResetRun
    /\ UNCHANGED <<tip, files, dirs, runs>>

(* The steps of the script itself.                                        *)
RunStep ==
    \/ RpcReturns \/ RpcRetry \/ RpcGiveUp \/ Scan \/ NextBatch
    \/ SkipHeight \/ OpenFile \/ WriteFile \/ BatchDone \/ Exit

Next == ChainGrows \/ Invoke \/ RunStep \/ Crash

(* A running script keeps executing: each rpc_call attempt ends within    *)
(* REQUEST_TIMEOUT, and every other step is local computation or I/O.     *)
Spec == Init /\ [][Next]_vars /\ WF_vars(RunStep)

----------------------------------------------------------------------------
(***************************************************************************)
(* Properties                                                              *)
(***************************************************************************)
TypeOK ==
    /\ tip \in Heights
    /\ files \in [Heights -> {Absent, Partial} \cup Entries]
    /\ dirs \subseteq {BlockPathDir(x) : x \in Heights}
    /\ runs \in 0 .. MaxRuns
    /\ pc \in {"idle", "tip", "scan", "batch", "rpc", "height", "write", "exit"}
    /\ startArg \in StartArgs \cup {None}
    /\ missing \in Seq(Heights)
    /\ attempt \in 0 .. MaxRetries - 1
    /\ resp \in UNION {[0 .. 2 * n - 1 -> {"ok", "none"}] : n \in 0 .. BatchSize}
    /\ written \in Nat /\ errors \in Nat /\ ok \in Nat

(* The heights of missing whose batch has been handled.                   *)
Handled == {missing[k] : k \in 1 .. MinOf(i, Len(missing))}

(* The run's totals account for every handled height: at every batch      *)
(* boundary of main's loop, total_written is the number of handled        *)
(* heights that now have a complete entry and total_errors the number     *)
(* that do not (skipped, failed to open or write, or in a failed batch).  *)
TotalsMatchDisk ==
    pc \in {"batch", "exit"} =>
        /\ written = Cardinality({x \in Handled : Complete(x)})
        /\ errors = Cardinality({x \in Handled : ~Complete(x)})

(* The adaptive delay of the batch loop stays between the --delay         *)
(* baseline and the 120 s cap, whatever sequence of failed and            *)
(* successful batches the node produces.                                  *)
DelayWithinBounds ==
    pc # "idle" => BatchDelay <= delay /\ delay <= MaxOf(BatchDelay, MaxDelay)

(* Responses are matched to heights by request id, not by position: every *)
(* complete entry holds the block data of its own height, and either its  *)
(* own receipts or the [] written when they did not come back, never      *)
(* those of another height of the batch.                                  *)
EntryHoldsOwnData ==
    \A x \in Heights : Complete(x) => files[x].blk = x /\ files[x].rcpts \in {x, 0}

(* A complete entry is never rewritten, truncated or removed: a run only  *)
(* opens files the scan found absent.                                     *)
CompleteEntryStable ==
    [][\A x \in Heights : Complete(x) => files'[x] = files[x]]_files

(* Every invocation ends: rpc_call gives up after MAX_RETRIES attempts    *)
(* and every batch, failed or not, advances the loop.                     *)
RunTerminates == (pc # "idle") ~> (pc = "idle")

(* A run started without --start resumes from one past the highest       *)
(* cached height, so it relies on no height below that being absent:      *)
(* re-invoking is the spec's way to resume an interrupted fill            *)
(* (section 5), and heights below start are never looked at again.       *)
DefaultStartCoversBelow ==
    (pc # "idle" /\ startArg = None) =>
        \A x \in 1 .. start - 1 : Present(x)

(* The highest height with a file on disk, 0 for an empty cache.          *)
HighestPresent ==
    IF \E x \in Heights : Present(x) THEN MaxSet({x \in Heights : Present(x)}) ELSE 0

(* The spec (section 4.4): without --start, a run starts one past the     *)
(* highest local height.  find_cache_latest reads only the newest         *)
(* thousands directory and takes the file name that sorts last as a       *)
(* string there, or 0 when that directory holds no file.                  *)
DefaultStartFollowsCache ==
    (pc \in {"tip", "scan"} /\ startArg = None) => start = HighestPresent + 1
=============================================================================

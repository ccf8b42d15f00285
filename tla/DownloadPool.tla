---------------------------- MODULE DownloadPool ----------------------------
(***************************************************************************)
(* The S3 download pool shared, line for line, by                          *)
(* check_block_completeness.download_blocks and the pool of                *)
(* download_boundary_blocks.main: a ThreadPoolExecutor whose threads take  *)
(* the submitted heights in submission order, each running download_one   *)
(* (download_block) to completion, and a coordinating thread that         *)
(* consumes the futures with as_completed, in completion order, and keeps *)
(* the (downloaded, failed) counters.                                     *)
(*                                                                         *)
(* A task does get_object, mkdir and write_bytes.  Nothing of it but the  *)
(* file at its final path is visible: write_bytes first creates (opens)  *)
(* the file and then writes it, so between the two the file is partial.  *)
(* The module gives the pool's steps; the script modules say when the     *)
(* pool runs and what the rest of the process does meanwhile.             *)
(***************************************************************************)
EXTENDS Integers, Sequences, FiniteSets

CONSTANTS
    MaxHeight,  \* highest height in the model
    Workers     \* the threads of the pool (--workers)

Heights == 1 .. MaxHeight

(* The content of a height's file: absent, created but not yet written,  *)
(* or the complete object of block b (its block and its own receipts, as  *)
(* the bulk archive stores them).                                         *)
Absent == [state |-> "absent", blk |-> 0, rcpts |-> 0]
Partial == [state |-> "partial", blk |-> 0, rcpts |-> 0]
Entry(b) == [state |-> "complete", blk |-> b, rcpts |-> b]
FileStates == {Absent, Partial} \cup {Entry(h) : h \in Heights}

VARIABLES
    files,       \* per height: Absent, Partial or Entry(b)
    queue,       \* the executor's work queue, in submission order
    worker,      \* per thread: the height its task is writing, or 0
    results,     \* finished futures not yet yielded by as_completed
    downloaded,  \* the coordinator's counters
    failed

poolVars == <<queue, worker, results, downloaded, failed>>

Present(h) == files[h].state # "absent"
Complete(h) == files[h].state = "complete"

(* The pool before anything is submitted.                                 *)
PoolIdle ==
    queue = <<>> /\ worker = [w \in Workers |-> 0] /\ results = {}
    /\ downloaded = 0 /\ failed = 0

(* The same, as the state a step leaves: the executor is gone.           *)
PoolGone ==
    /\ queue' = <<>> /\ worker' = [w \in Workers |-> 0] /\ results' = {}
    /\ downloaded' = 0 /\ failed' = 0

(* Mutant: a task that raises never completes its future.               *)
DownloadDropsFailure(w) ==
    /\ worker[w] = 0 /\ queue # <<>>
    /\ LET bn == Head(queue)
       IN \/ UNCHANGED <<files, worker, results>>
          \/ /\ files' = [files EXCEPT ![bn] = Partial]
             /\ worker' = [worker EXCEPT ![w] = bn]
             /\ UNCHANGED results
    /\ queue' = Tail(queue)
    /\ UNCHANGED <<downloaded, failed>>

(* A free thread takes the next submitted height and runs its task up to  *)
(* write_bytes: get_object, mkdir or the open of write_bytes may raise,   *)
(* and the future finishes with (bn, False); otherwise write_bytes has    *)
(* created the file at its final path.                                    *)
Download(w) ==
    /\ worker[w] = 0 /\ queue # <<>>
    /\ LET bn == Head(queue)
       IN \/ /\ results' = results \cup {<<bn, FALSE>>}
             /\ UNCHANGED <<files, worker>>
          \/ /\ files' = [files EXCEPT ![bn] = Partial]
             /\ worker' = [worker EXCEPT ![w] = bn]
             /\ UNCHANGED results
    /\ queue' = Tail(queue)
    /\ UNCHANGED <<downloaded, failed>>

(* Mutant: a write that raises is still reported as a download.          *)
WriteBytesReportsEarly(w) ==
    /\ worker[w] # 0
    /\ LET bn == worker[w]
       IN /\ \/ files' = [files EXCEPT ![bn] = Entry(bn)]
             \/ UNCHANGED files
          /\ results' = results \cup {<<bn, TRUE>>}
    /\ worker' = [worker EXCEPT ![w] = 0]
    /\ UNCHANGED <<queue, downloaded, failed>>

(* The rest of write_bytes: the data is written and the task returns      *)
(* (bn, True), or the write raises, leaving the created file partial,    *)
(* and it returns (bn, False).                                            *)
WriteBytes(w) ==
    /\ worker[w] # 0
    /\ LET bn == worker[w]
       IN \/ /\ files' = [files EXCEPT ![bn] = Entry(bn)]
             /\ results' = results \cup {<<bn, TRUE>>}
          \/ /\ results' = results \cup {<<bn, FALSE>>}
             /\ UNCHANGED files
    /\ worker' = [worker EXCEPT ![w] = 0]
    /\ UNCHANGED <<queue, downloaded, failed>>

(* Mutant: the yielded future is left in the completion set.             *)
CollectNoRemove ==
    /\ \E r \in results :
          /\ results' = results
          /\ IF r[2] THEN downloaded' = downloaded + 1 /\ UNCHANGED failed
                     ELSE failed' = failed + 1 /\ UNCHANGED downloaded
    /\ UNCHANGED <<files, queue, worker>>

(* The coordinating thread: as_completed yields any finished future and   *)
(* one counter is incremented from its result.                            *)
Collect ==
    /\ \E r \in results :
          /\ results' = results \ {r}
          /\ IF r[2] THEN downloaded' = downloaded + 1 /\ UNCHANGED failed
                     ELSE failed' = failed + 1 /\ UNCHANGED downloaded
    /\ UNCHANGED <<files, queue, worker>>

(* A step of one of the pool's threads.                                   *)
PoolStep ==
    \/ Collect
    \/ \E w \in Workers : Download(w) \/ WriteBytes(w)

(* as_completed is exhausted once each of the n submitted futures has     *)
(* been yielded.                                                          *)
Drained(n) == downloaded + failed = n

PoolTypeOK ==
    /\ files \in [Heights -> FileStates]
    /\ worker \in [Workers -> 0 .. MaxHeight]
    /\ results \subseteq Heights \X BOOLEAN
    /\ downloaded \in 0 .. MaxHeight /\ failed \in 0 .. MaxHeight
=============================================================================

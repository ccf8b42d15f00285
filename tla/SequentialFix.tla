---------------------------- MODULE SequentialFix ----------------------------
(***************************************************************************)
(* What the spec (sections 4.3 and 5) promises of a repair from the bulk   *)
(* store, stated without threads: the submitted heights are handled one at *)
(* a time, each exactly once; a handled height is counted as downloaded    *)
(* exactly when its entry is now complete, and as failed otherwise (its    *)
(* file may be left as it was or partially written).  A failure does not  *)
(* stop the others.  A kill abandons the heights not yet handled; the ones *)
(* being worked on at that moment may be left absent, partial or complete. *)
(***************************************************************************)
EXTENDS Integers, FiniteSets

CONSTANTS MaxHeight

Heights == 1 .. MaxHeight

Absent == [state |-> "absent", blk |-> 0, rcpts |-> 0]
Partial == [state |-> "partial", blk |-> 0, rcpts |-> 0]
Entry(b) == [state |-> "complete", blk |-> b, rcpts |-> b]

VARIABLES
    files,       \* per height: Absent, Partial or Entry(b)
    todo,        \* submitted heights not yet handled
    downloaded,  \* heights handled with success
    failed       \* heights handled with failure

vars == <<files, todo, downloaded, failed>>

FileStates == {Absent, Partial} \cup {Entry(h) : h \in Heights}

Init == files \in [Heights -> FileStates] /\ todo = {} /\ downloaded = 0 /\ failed = 0

(* A set of absent heights is submitted to a fresh repair.               *)
Submit(S) ==
    /\ todo = {} /\ downloaded = 0 /\ failed = 0
    /\ S # {} /\ \A h \in S : files[h] = Absent
    /\ todo' = S
    /\ UNCHANGED <<files, downloaded, failed>>

(* One height is handled: downloaded, or failed leaving it as it was or   *)
(* partially written.                                                     *)
Handle(h) ==
    /\ h \in todo
    /\ todo' = todo \ {h}
    /\ \/ /\ files' = [files EXCEPT ![h] = Entry(h)]
          /\ downloaded' = downloaded + 1 /\ UNCHANGED failed
       \/ /\ files' = [files EXCEPT ![h] = Partial]
          /\ failed' = failed + 1 /\ UNCHANGED downloaded
       \/ /\ failed' = failed + 1 /\ UNCHANGED <<files, downloaded>>

(* The repair is over and its counters are dropped.                       *)
Finish ==
    /\ todo = {}
    /\ downloaded' = 0 /\ failed' = 0
    /\ UNCHANGED <<files, todo>>

(* A kill: the heights not yet handled are abandoned, each left absent,   *)
(* partial or complete.                                                   *)
Kill ==
    /\ \E part, comp \in SUBSET todo :
          files' = [h \in Heights |->
                      IF h \in comp THEN Entry(h)
                      ELSE IF h \in part THEN Partial ELSE files[h]]
    /\ todo' = {} /\ downloaded' = 0 /\ failed' = 0

Next ==
    \/ \E S \in SUBSET Heights : Submit(S)
    \/ \E h \in Heights : Handle(h)
    \/ Finish
    \/ Kill

Spec == Init /\ [][Next]_vars
=============================================================================

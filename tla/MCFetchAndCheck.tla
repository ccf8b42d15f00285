------------------------- MODULE MCFetchAndCheck -------------------------
(***************************************************************************)
(* The fetcher and the checker over 10 heights in thousands directories   *)
(* of 5 and millions directories of 10.  Heights 1..8 but 4 are cached    *)
(* and the tip is 10: the checker finds the gap at 4 and repairs it, the  *)
(* fetcher fetches 9 and 10.                                              *)
(***************************************************************************)
EXTENDS FetchAndCheck

CONSTANTS NoArg, w1

MCWorkers == {w1}

MCInitCaches == {(1 .. 8) \ {4}}
=============================================================================

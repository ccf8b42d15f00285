------------------------ MODULE MCOverlappingFetchers ------------------------
(***************************************************************************)
(* Model-checking instance of OverlappingFetchers: the directory sizes of *)
(* MCRpcFetcher, heights 1..8 cached and the tip at 10, so both           *)
(* invocations find 9 and 10 missing.                                     *)
(***************************************************************************)
EXTENDS OverlappingFetchers

CONSTANT NoArg

MCInitCaches == {1 .. 8}
=============================================================================

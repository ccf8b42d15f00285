------------------------- MODULE MCBoundaryDownload -------------------------
(* The boundary downloader over 12 heights with thousands directories of  *)
(* 5 heights: the boundary blocks are 5 and 10.                           *)
EXTENDS BoundaryDownload

CONSTANTS NoArg, w1, w2

MCWorkers == {w1, w2}

(* Caches missing the boundary blocks, as the old path formula left them, *)
(* and one that also misses an ordinary height.                           *)
MCInitCaches == {Heights \ {5, 10}, Heights \ {4, 10}}
=============================================================================

------------------------- MODULE MCCompletenessCheck -------------------------
(* The scanner over 12 heights with thousands directories of 5 and        *)
(* millions directories of 10 heights, so that the shard loop crosses two *)
(* millions directories and a --start or s3_start on a directory          *)
(* boundary behaves as 18_000_000 does at full size.                      *)
EXTENDS CompletenessCheck

CONSTANTS NoArg, w1, w2, w3

MCWorkers == {w1, w2, w3}

(* A cache with gaps at 4, 5, 10 and 11 (5 and 10 are multiples of the   *)
(* thousands size): four heights for three threads, so one waits queued. *)
MCInitCaches == {Heights \ {4, 5, 10, 11}}

(* A testnet-like cache: held from s3_start on, nothing below.            *)
MCTestnetCaches == {10 .. 12}
=============================================================================

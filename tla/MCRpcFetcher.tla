---------------------------- MODULE MCRpcFetcher ----------------------------
(***************************************************************************)
(* Model-checking instance of RpcFetcher.  The directory sizes are scaled  *)
(* from 1_000 / 1_000_000 down to 10 / 100, which keeps the decimal file   *)
(* names crossing a power of ten inside one thousands directory (9 and 10  *)
(* in directory 0) as 999_999 and 1_000_000 do at full size.               *)
(***************************************************************************)
EXTENDS RpcFetcher

CONSTANT NoArg

(* Heights 1..8 come from the bulk archive; the tip region 9..13 spans    *)
(* directories 0 and 10.                                                  *)
MCInitCaches == {1 .. 8}
=============================================================================

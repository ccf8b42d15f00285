---------------------------- MODULE MCPathScheme ----------------------------
(***************************************************************************)
(* Checks the addressing operators of PathScheme and the field encodings  *)
(* of Transcoder at every height of a set of windows: a variable h walks  *)
(* the windows in increasing order and the properties are invariants     *)
(* over h.                                                                 *)
(***************************************************************************)
EXTENDS PathScheme, Transcoder

CONSTANTS
    Centres,        \* heights around which the walk checks the scheme
    Span            \* the walk covers Centres +/- Span

ASSUME Centres \subseteq Nat /\ Centres # {} /\ Span \in Nat

VARIABLE h

TestHeights ==
    UNION { (IF c > Span THEN c - Span ELSE 0) .. (c + Span) : c \in Centres }

LowestTest == CHOOSE x \in TestHeights : \A y \in TestHeights : x <= y
HighestTest == CHOOSE x \in TestHeights : \A y \in TestHeights : x >= y

Init == h = LowestTest

(* Move to the next test height, jumping the gap between two windows.     *)
Step ==
    /\ h < HighestTest
    /\ h' = IF h + 1 \in TestHeights THEN h + 1
            ELSE CHOOSE x \in TestHeights :
                    /\ x > h
                    /\ \A y \in TestHeights : y > h => x <= y

Spec == Init /\ [][Step]_h

TypeOK == h \in TestHeights

(* Every script that writes or reads an entry puts height h in the same   *)
(* directory as the completeness scanner expects it: fetch_blocks_rpc     *)
(* block_path, download_boundary_blocks s3_key and cache_path agree with  *)
(* check_block_completeness expected_dir.                                 *)
ScriptsAgree ==
    /\ BlockPathDir(h) = ExpectedDir(h)
    /\ S3KeyDir(h) = ExpectedDir(h)
    /\ BoundaryCachePathDir(h) = ExpectedDir(h)

(* The scanner's shards partition the heights as the spec defines them:   *)
(* h >= 1 is in the shard of the reference definition, the millions       *)
(* directory contains the thousands directory, and the heights the        *)
(* scanner expects in h's directory (blocks_in_chunk) are exactly the     *)
(* contiguous span T+1 .. T+ThousandsSize cut at latest = h, so h is      *)
(* scanned in its own directory and in no other.                          *)
ShardsPartitionHeights ==
    h >= 1 =>
        LET M == ExpectedDir(h)[1]
            T == ExpectedDir(h)[2]
        IN  /\ T = RefShard(h, ThousandsSize)
            /\ M = RefShard(h, MillionsSize)
            /\ BlocksInChunk(T, M, h) = (T + 1) .. h


(***************************************************************************)
(* The JSON the node sends for the block at h: every key read with b[...] *)
(* and, of the nine read with b.get, those of the set bits of h, so each  *)
(* window meets every pattern of absent keys; every value is hex(h).  Its *)
(* one transaction and that transaction's receipt have the declared type  *)
(* h % 7 of TxTypes; yParity (h % 2) and v (27 + (h % 2), a legacy sign     *)
(* value) are each present or not, and so is the receipt's status.        *)
(***************************************************************************)
OptionalKeys == <<"difficulty", "extraData", "mixHash", "nonce", "baseFeePerGas",
                  "withdrawalsRoot", "blobGasUsed", "excessBlobGas",
                  "parentBeaconBlockRoot">>

Bit(n, k) == (n \div (2 ^ k)) % 2 = 1

BlockJson(n) ==
    [f \in RawHeaderKeys \cup WidthHeaderKeys
          \cup {OptionalKeys[k] : k \in {k \in 1 .. 9 : Bit(n, k - 1)}} |-> HexDigits(n)]

TxTypes == <<"none", "0x0", "0x1", "0x2", "0x3", "0x4", "0x7e">>

Typed(n, keys, vals) ==
    LET t == TxTypes[(n % 7) + 1]
        ks == IF t = "none" THEN keys ELSE keys \cup {"type"}
    IN  [f \in ks |-> IF f = "type" THEN t ELSE vals[f]]

TxJson(n) ==
    LET sig == [r |-> HexDigits(n), s |-> HexDigits(n + 1), yParity |-> <<n % 2>>,
                v |-> HexDigits(27 + (n % 2))]
        keys == {"r", "s"} \cup (IF (n \div 7) % 2 = 0 THEN {"yParity"} ELSE {})
                           \cup (IF (n \div 14) % 2 = 0 THEN {"v"} ELSE {})
    IN  Typed(n, keys, sig)

RcptJson(n) ==
    LET st == (n \div 28) % 3
    IN  Typed(n, IF st = 2 THEN {} ELSE {"status"},
              [status |-> IF st = 0 THEN "0x1" ELSE "0x0"])

HeaderRecord == Record(BlockJson(h), <<>>, <<>>)

(* rpc_to_nanoreth stores get_highest_precompile(int(b["number"], 16)) in *)
(* every record: the address in force at the block's height, each         *)
(* transition taking effect at exactly its threshold height and not one   *)
(* block later.                                                            *)
PrecompileInForce ==
    ~RecordRaises(BlockJson(h), <<>>) /\ HeaderRecord.highest_precompile_address = RefPrecompile(h)

(* The header of the block at h is the archive's, whatever keys the node  *)
(* leaves out: every fixed-width integer field has the width the spec     *)
(* lists and reads back as the value sent, or 0 when absent; an absent    *)
(* mixHash, withdrawalsRoot or parentBeaconBlockRoot is 32 zero bytes and *)
(* an absent nonce 8 zero bytes (spec section 4.5).                        *)
HeaderBitExact ==
    LET b == BlockJson(h)
        hd == HeaderRecord.header
        zeros(n) == [k \in 1 .. n |-> 0]
    IN  /\ ~RecordRaises(b, <<>>)
        /\ \A f \in DOMAIN SpecWidths :
              /\ Len(hd[f]) = SpecWidths[f]
              /\ BytesValue(hd[f]) = IF f \in DOMAIN b THEN h ELSE 0
        /\ \A f \in {"mixHash", "withdrawalsRoot", "parentBeaconBlockRoot"} :
              f \notin DOMAIN b => hd[f] = zeros(32)
        /\ "nonce" \notin DOMAIN b => hd["nonce"] = zeros(8)

(* The spec's round trip of the variant tags (sections 4.5 and 8), for   *)
(* the block at h with its transaction and that transaction's receipt: a *)
(* transaction declared absent, 0x0, 0x1 or 0x2 decodes as the variant   *)
(* of that type; its receipt, whatever the type, carries the same tag as *)
(* the transaction, so the archive pairs them alike; and the recovery     *)
(* indicator reads back as yParity when the node sends it, else as v,     *)
(* else 0.                                                                 *)
VariantTagsRoundTrip ==
    LET tx == TxJson(h)
        rec == Record(BlockJson(h), <<tx>>, <<RcptJson(h)>>)
        parity == IF "yParity" \in DOMAIN tx THEN h % 2
                  ELSE IF "v" \in DOMAIN tx THEN 27 + (h % 2) ELSE 0
    IN  /\ ~RecordRaises(BlockJson(h), <<tx>>)
        /\ DeclaredType(tx) \in DOMAIN SpecVariant =>
              rec.transactions[1].transaction = SpecVariant[DeclaredType(tx)]
        /\ rec.receipts[1].tx_type = rec.transactions[1].transaction
        /\ BytesValue(rec.transactions[1].signature[3]) = parity

(* hex_to_raw keeps the value of the digits, with or without leading     *)
(* zeros and for odd as for even digit counts: the raw bytes read back as *)
(* the same number and are half as many as the digits, rounded up.       *)
RawBytesExact ==
    \A d \in {HexDigits(h), <<0, 0, 0>> \o HexDigits(h)} :
        LET r == HexToRaw(d)
        IN  BytesValue(r) = HexValue(d) /\ Len(r) = (Len(d) + 1) \div 2
=============================================================================

----------------------------- MODULE Transcoder -----------------------------
(***************************************************************************)
(* The pure helpers of fetch_blocks_rpc.rpc_to_nanoreth that decide what   *)
(* bytes a field gets: the highest-precompile lookup by height and the     *)
(* two hex conversions, hex_to_bytes (a fixed-width big-endian integer)    *)
(* and hex_to_raw (the digits as raw bytes).  A hex string "0x..." is the  *)
(* sequence of its digits (0 .. 15) after the prefix; "0x" and "" are the  *)
(* empty sequence.  A byte string is a sequence of 0 .. 255.  Addresses    *)
(* are kept as their numeric value.  Then the record rpc_to_nanoreth      *)
(* assembles from them; msgpack and lz4 are opaque and left out.           *)
(***************************************************************************)
EXTENDS Integers, Sequences

(* PRECOMPILE_TRANSITIONS, newest first: <<threshold, address>>.          *)
PrecompileTransitions ==
    << <<44868476, 2067>>,    \* 0x...0813
       <<42675776, 2066>>,    \* 0x...0812
       <<41121887, 2065>>,    \* 0x...0811
       <<0, 2064>> >>         \* 0x...0810

(* Mutant: the transition is taken only above its threshold.              *)
RECURSIVE FirstTransitionAbove(_, _)
FirstTransitionAbove(tbl, block_num) ==
    IF tbl = <<>> THEN PrecompileTransitions[Len(PrecompileTransitions)][2]
    ELSE IF block_num > Head(tbl)[1] THEN Head(tbl)[2]
    ELSE FirstTransitionAbove(Tail(tbl), block_num)

(* The loop of get_highest_precompile: the first entry whose threshold is *)
(* at most the height; the last entry's address when none is.             *)
RECURSIVE FirstTransition(_, _)
FirstTransition(tbl, block_num) ==
    IF tbl = <<>> THEN PrecompileTransitions[Len(PrecompileTransitions)][2]
    ELSE IF block_num >= Head(tbl)[1] THEN Head(tbl)[2]
    ELSE FirstTransition(Tail(tbl), block_num)

GetHighestPrecompile(block_num) == FirstTransition(PrecompileTransitions, block_num)

(* int(h, 16): the value of a digit sequence, most significant first.     *)
RECURSIVE HexValue(_)
HexValue(s) == IF s = <<>> THEN 0 ELSE HexValue(SubSeq(s, 1, Len(s) - 1)) * 16 + s[Len(s)]

(* Whether val.to_bytes(length, ...) has room for val: val < 256^length, *)
(* computed without the power, which overflows TLC's integers.            *)
RECURSIVE FitsIn(_, _)
FitsIn(val, length) == IF length = 0 THEN val = 0 ELSE FitsIn(val \div 256, length - 1)

(* val.to_bytes(length, "big"), for a val that fits.                       *)
RECURSIVE ToBytes(_, _)
ToBytes(val, length) ==
    IF length = 0 THEN <<>> ELSE Append(ToBytes(val \div 256, length - 1), val % 256)

(* to_bytes raises OverflowError when the value does not fit.             *)
Overflow == "OverflowError"

(* hex_to_bytes: "0x" or "" is 0; the value in exactly length bytes.     *)
HexToBytes(h, length) ==
    LET val == IF h = <<>> THEN 0 ELSE HexValue(h)
    IN  IF FitsIn(val, length) THEN ToBytes(val, length) ELSE Overflow

(* Mutant: an odd digit string is completed with a trailing "0".          *)
HexToRawPadRight(h) ==
    IF h = <<>> THEN <<>>
    ELSE LET p == IF Len(h) % 2 = 1 THEN h \o <<0>> ELSE h
         IN  [k \in 1 .. Len(p) \div 2 |-> p[2 * k - 1] * 16 + p[2 * k]]

(* hex_to_raw: "0x" or "" is b""; an odd digit string gets a leading "0" *)
(* and bytes.fromhex takes the digits two by two.                         *)
HexToRaw(h) ==
    IF h = <<>> THEN <<>>
    ELSE LET p == IF Len(h) % 2 = 1 THEN <<0>> \o h ELSE h
         IN  [k \in 1 .. Len(p) \div 2 |-> p[2 * k - 1] * 16 + p[2 * k]]

----------------------------------------------------------------------------
(***************************************************************************)
(* rpc_to_nanoreth.  A JSON object is a function from the keys the node   *)
(* sent to their values: a hex string as its digit sequence, "type" and    *)
(* "status" as the strings themselves.  The record keeps what the         *)
(* properties tell apart: the header's bytes, each transaction's variant  *)
(* tag and signature, each receipt's tag and success flag, and the        *)
(* precompile address; the other transaction fields, the logs and the     *)
(* msgpack layout are left out.  A KeyError (a key read with b[...] that  *)
(* the node left out) or an OverflowError makes the whole call raise.     *)
(***************************************************************************)
ZeroDigits(n) == [k \in 1 .. n |-> 0]

(* The header keys read with b[...]: hex_to_raw ones, then hex_to_bytes.  *)
RawHeaderKeys == {"hash", "parentHash", "sha3Uncles", "miner", "stateRoot",
                  "transactionsRoot", "receiptsRoot", "logsBloom"}
WidthHeaderKeys == {"number", "gasLimit", "gasUsed", "timestamp"}

(* Mutant: the nonce defaults to "0x0", one byte, like the integers.     *)
HeaderDefaultsShortNonce ==
    [difficulty |-> <<0>>, extraData |-> <<>>, mixHash |-> ZeroDigits(64),
     nonce |-> <<0>>, baseFeePerGas |-> <<0>>,
     withdrawalsRoot |-> ZeroDigits(64), blobGasUsed |-> <<0>>,
     excessBlobGas |-> <<0>>, parentBeaconBlockRoot |-> ZeroDigits(64)]

(* The header keys read with b.get, and the default each one gets.        *)
HeaderDefaults ==
    [difficulty |-> <<0>>, extraData |-> <<>>, mixHash |-> ZeroDigits(64),
     nonce |-> ZeroDigits(16), baseFeePerGas |-> <<0>>,
     withdrawalsRoot |-> ZeroDigits(64), blobGasUsed |-> <<0>>,
     excessBlobGas |-> <<0>>, parentBeaconBlockRoot |-> ZeroDigits(64)]

(* The byte width hex_to_bytes is given for each integer header field.    *)
HeaderWidths ==
    [difficulty |-> 32, number |-> 8, gasLimit |-> 8, gasUsed |-> 8,
     timestamp |-> 8, baseFeePerGas |-> 8, blobGasUsed |-> 8,
     excessBlobGas |-> 8]

HeaderValue(b, f) == IF f \in DOMAIN b THEN b[f] ELSE HeaderDefaults[f]

(* The header dict: hex_to_bytes for the fields with a width, hex_to_raw  *)
(* for the others ("hash" goes one level up in the record, with them).    *)
EncodeHeader(b) ==
    [f \in RawHeaderKeys \cup WidthHeaderKeys \cup DOMAIN HeaderDefaults |->
        IF f \in DOMAIN HeaderWidths THEN HexToBytes(HeaderValue(b, f), HeaderWidths[f])
        ELSE HexToRaw(HeaderValue(b, f))]

(* tx.get("type", "0x0"), and r.get("type", "0x0") for a receipt.         *)
DeclaredType(j) == IF "type" \in DOMAIN j THEN j["type"] ELSE "0x0"

(* The if / elif / else on tx_type: 0x2, 0x1, and Legacy for any other.   *)
TxTag(tx) ==
    CASE DeclaredType(tx) = "0x2" -> "Eip1559"
      [] DeclaredType(tx) = "0x1" -> "Eip2930"
      [] OTHER                    -> "Legacy"

(* tx.get("yParity", tx.get("v", "0x0")).                                 *)
Recovery(tx) ==
    IF "yParity" \in DOMAIN tx THEN tx["yParity"]
    ELSE IF "v" \in DOMAIN tx THEN tx["v"] ELSE <<0>>

(* sig: r and s in 32 bytes, the recovery indicator in 8.                 *)
Signature(tx) ==
    <<HexToBytes(tx["r"], 32), HexToBytes(tx["s"], 32), HexToBytes(Recovery(tx), 8)>>

TxRecord(tx) == [signature |-> Signature(tx), transaction |-> TxTag(tx)]

(* Mutant: the receipt map forgets the access-list type.                  *)
ReceiptTypeNameNo2930 == [x \in {"0x0", "0x2"} |-> IF x = "0x2" THEN "Eip1559" ELSE "Legacy"]

(* The receipt type map; .get(rtype, "Legacy") for a type not in it.      *)
ReceiptTypeName ==
    [x \in {"0x0", "0x1", "0x2"} |->
        CASE x = "0x0" -> "Legacy" [] x = "0x1" -> "Eip2930" [] x = "0x2" -> "Eip1559"]

ReceiptRecord(r) ==
    [tx_type |-> IF DeclaredType(r) \in DOMAIN ReceiptTypeName
                 THEN ReceiptTypeName[DeclaredType(r)] ELSE "Legacy",
     success |-> "status" \in DOMAIN r /\ r["status"] = "0x1"]

(* hex_to_bytes raises OverflowError for a value wider than its field.   *)
Overflows(h, length) == ~FitsIn(IF h = <<>> THEN 0 ELSE HexValue(h), length)

(* rpc_to_nanoreth raises, and fetch_and_write_batch counts an error:     *)
(* a key read with b[...] or tx[...] is missing (KeyError), or a header   *)
(* integer or a signature part does not fit its width (OverflowError).   *)
(* The KeyErrors of the transaction fields and logs left out are too.     *)
RecordRaises(b, txs) ==
    \/ ~(RawHeaderKeys \cup WidthHeaderKeys \subseteq DOMAIN b)
    \/ \E f \in DOMAIN HeaderWidths : Overflows(HeaderValue(b, f), HeaderWidths[f])
    \/ \E k \in DOMAIN txs :
          \/ ~({"r", "s"} \subseteq DOMAIN txs[k])
          \/ Overflows(txs[k]["r"], 32) \/ Overflows(txs[k]["s"], 32)
          \/ Overflows(Recovery(txs[k]), 8)

(* The record of one block that does not raise: txs is                   *)
(* b.get("transactions", []) and rcpts receipts_json or [].               *)
Record(b, txs, rcpts) ==
    [header |-> EncodeHeader(b),
     transactions |-> [k \in DOMAIN txs |-> TxRecord(txs[k])],
     receipts |-> [k \in DOMAIN rcpts |-> ReceiptRecord(rcpts[k])],
     highest_precompile_address |-> GetHighestPrecompile(HexValue(b["number"]))]

(***************************************************************************)
(* Reference definitions, from the spec: the value of a big-endian byte    *)
(* string, the digits a node sends for a number (hex(n), no leading       *)
(* zeros), and the address in force at a height: that of the greatest     *)
(* threshold not above it.                                                 *)
(***************************************************************************)
RECURSIVE BytesValue(_)
BytesValue(b) == IF b = <<>> THEN 0 ELSE BytesValue(SubSeq(b, 1, Len(b) - 1)) * 256 + b[Len(b)]

RECURSIVE HexDigits(_)
HexDigits(n) == IF n < 16 THEN <<n>> ELSE Append(HexDigits(n \div 16), n % 16)

(* Section 4.5: the transaction variant of each declared type, and the   *)
(* byte width of each fixed-width integer header field.                   *)
SpecVariant == [x \in {"0x0", "0x1", "0x2"} |->
                   CASE x = "0x0" -> "Legacy" [] x = "0x1" -> "Eip2930" [] x = "0x2" -> "Eip1559"]

SpecWidths == [difficulty |-> 32, number |-> 8, gasLimit |-> 8, gasUsed |-> 8,
               timestamp |-> 8, baseFeePerGas |-> 8, blobGasUsed |-> 8,
               excessBlobGas |-> 8]

RefPrecompile(x) ==
    LET ts == {k \in DOMAIN PrecompileTransitions : PrecompileTransitions[k][1] <= x}
        best == CHOOSE k \in ts : \A l \in ts : PrecompileTransitions[l][1] <= PrecompileTransitions[k][1]
    IN  PrecompileTransitions[best][2]
=============================================================================

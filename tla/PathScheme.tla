----------------------------- MODULE PathScheme -----------------------------
(***************************************************************************)
(* The addressing scheme of the local block cache and of the S3 bucket:    *)
(* a block height is stored at  {millions}/{thousands}/{height}.rmp.lz4 .  *)
(* Each of the three scripts computes the two directory buckets with its   *)
(* own copy of the formula; this module holds each copy as an operator so  *)
(* that they can be compared with each other and with the spec's           *)
(* definition of a shard as a contiguous span of heights.                  *)
(* The operators are pure; MCPathScheme checks them over bounded heights. *)
(***************************************************************************)
EXTENDS Integers, Sequences, FiniteSets

CONSTANTS
    ThousandsSize,  \* 1_000 in the code: heights per thousands directory
    MillionsSize    \* 1_000_000 in the code: heights per millions directory

ASSUME ThousandsSize \in Nat \ {0}
ASSUME MillionsSize \in Nat \ {0} /\ MillionsSize % ThousandsSize = 0

Bucket(x, size) == (x \div size) * size

(* check_block_completeness.expected_dir: (height-1) bucketing, height 0   *)
(* special-cased to (0, 0).                                                *)
ExpectedDir(block_number) ==
    IF block_number = 0 THEN <<0, 0>>
    ELSE <<Bucket(block_number - 1, MillionsSize),
           Bucket(block_number - 1, ThousandsSize)>>

(* Mutant: block_path bucketing by the height itself.                    *)
BlockPathDirNoMinusOne(block_num) ==
    <<Bucket(block_num, MillionsSize), Bucket(block_num, ThousandsSize)>>

(* fetch_blocks_rpc.block_path: the same formula without the special case *)
(* for height 0 (Python's // floors, as \div does).                        *)
BlockPathDir(block_num) ==
    <<Bucket(block_num - 1, MillionsSize), Bucket(block_num - 1, ThousandsSize)>>

(* download_boundary_blocks.s3_key: the object key's two directories.     *)
S3KeyDir(block_number) ==
    <<Bucket(block_number - 1, MillionsSize), Bucket(block_number - 1, ThousandsSize)>>

(* download_boundary_blocks.cache_path: its own copy for the local path.  *)
BoundaryCachePathDir(block_number) ==
    <<Bucket(block_number - 1, MillionsSize), Bucket(block_number - 1, ThousandsSize)>>

(* Mutant: range(thousands_base, thousands_base + 1000).                 *)
BlocksInChunkFromBase(thousands_base, millions_base, latest) ==
    { bn \in thousands_base .. (thousands_base + ThousandsSize - 1) :
        /\ bn <= latest
        /\ ExpectedDir(bn) = <<millions_base, thousands_base>> }

(* check_block_completeness.blocks_in_chunk: the heights the scanner       *)
(* expects in directory (millions_base, thousands_base), stopping at       *)
(* latest.                                                                 *)
BlocksInChunk(thousands_base, millions_base, latest) ==
    { bn \in (thousands_base + 1) .. (thousands_base + ThousandsSize) :
        /\ bn <= latest
        /\ ExpectedDir(bn) = <<millions_base, thousands_base>> }

(***************************************************************************)
(* Reference definition, from the spec rather than from any of the copies: *)
(* a height h >= 1 belongs to the thousands shard T, a multiple of the     *)
(* shard size, with T < h <= T + ThousandsSize, inside the millions shard  *)
(* M, a multiple of MillionsSize, with M < h <= M + MillionsSize.          *)
(***************************************************************************)
RefShard(x, size) ==
    CHOOSE s \in {size * q : q \in {x \div size - 1, x \div size}} :
        s < x /\ x <= s + size

(***************************************************************************)
(* File names: a height is stored as f"{height}.rmp.lz4".  Sorting names   *)
(* as strings compares the decimal digits left to right, and '.' sorts     *)
(* before every digit, so the name of a height is its digit sequence       *)
(* followed by a terminator smaller than any digit.                        *)
(***************************************************************************)
RECURSIVE Digits(_)
Digits(n) == IF n < 10 THEN <<n>> ELSE Append(Digits(n \div 10), n % 10)

FileName(n) == Append(Digits(n), -1)

RECURSIVE NameLess(_, _)
NameLess(s, t) ==
    IF s = <<>> THEN t # <<>>
    ELSE IF t = <<>> THEN FALSE
    ELSE IF Head(s) = Head(t) THEN NameLess(Tail(s), Tail(t))
    ELSE Head(s) < Head(t)

(* The height whose file name sorts last, as sorted(...)[-1] picks it.     *)
LexicalLast(S) ==
    CHOOSE n \in S : \A m \in S \ {n} : NameLess(FileName(m), FileName(n))
=============================================================================

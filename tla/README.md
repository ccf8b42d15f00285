# TLA+ models of the nanoreth block-cache scripts

This directory holds TLA+ models of the three scripts under `src/scripts/`. Together they keep
a local archive of per-block files complete and free of gaps:

* `fetch_blocks_rpc.py` ("fetch") fills the archive from a JSON-RPC node.
* `check_block_completeness.py` ("check") scans it for gaps and, with `--fix`, repairs them
  from S3.
* `download_boundary_blocks.py` ("boundary") repairs the multiples of 1000 that an earlier path
  formula missed.

The spec of the system is `spec.md`. Every definition here is translated from the Python
source, and `PROJECT.json` maps each one to the lines it models. The one exception is
`SequentialFix`, the abstract specification of a repair, which is written from the spec.

## 1. The system

### Components and their state

| Component (spec name) | Code | State it keeps | Modules |
|---|---|---|---|
| PathScheme | `expected_dir`, `cache_path` (check); `block_path` (fetch); `s3_key`, `cache_path` (boundary) | none (pure) | `PathScheme` |
| CacheScanner | check: `find_latest_local_block`, `blocks_in_chunk`, `check_chunk`, the shard loop of `main` | running totals, `all_missing` | `CompletenessCheck`; beside the fetcher: `FetchAndCheck` |
| RemoteArchiveFetcher | check: `download_blocks`/`download_one`; boundary: `find_missing_blocks`, `download_block`, the pool of `main` | a thread pool, the `downloaded`/`failed` counters of the coordinator | `DownloadPool`, `CompletenessCheck`, `BoundaryDownload`; abstract: `SequentialFix` |
| LiveChainFetcher | fetch: `main`, `rpc_call`, `fetch_and_write_batch`, `get_chain_tip`, `find_cache_latest` | range, `missing`, batch offset, `current_delay`, `consecutive_ok`, totals | `RpcFetcher`; two invocations: `OverlappingFetchers`; with `check --fix`: `FetchAndCheck` |
| BlockTranscoder | fetch: `get_highest_precompile`, `hex_to_bytes`, `hex_to_raw`, `rpc_to_nanoreth` | none (pure) | `Transcoder`; `RpcFetcher` keeps only which data an entry holds |
| Orchestrator | check: `main` | exit status | `CompletenessCheck`, `FetchAndCheck` |

The archive directory is the only shared state. Every script reads or writes it through its own
copy of the path formula. Nothing coordinates two scripts, or two runs of one script, that use
the archive at the same time. Runs interact through re-invocation: a later run sees what an
earlier one left on disk.

### What is hard

* **Crashes and kills.** Nothing is written atomically. `open(path, "wb")` and
  `Path.write_bytes` write at the final path, and existence is the only test of completeness.
* **Unreliable RPC.** A batch response can:
  * lose entries;
  * return `null` or error objects;
  * arrive in any order;
  * be a single error object;
  * fail outright.

  Retries use exponential backoff.
* **Adaptive pacing.** A failed batch doubles the delay up to a cap. A streak of successes
  relaxes it toward the baseline.
* **Resumption.** A run is resumed by invoking the script again. The default start comes from
  the newest cached file.
* **Numeric edges.** These include:
  * bucketing by height−1, at the multiples of 1000 and at height 0;
  * file names compared as strings where they cross a power of ten;
  * a delay cap that can be below the user's baseline;
  * the precompile transition heights;
  * the first shard of a range that starts mid-shard.
* **Concurrency.** The S3 repair runs a thread pool. The counters are updated by the coordinator,
  in completion order.

## 2. Modules

### PathScheme, Transcoder / MCPathScheme (pure operators)

`PathScheme` keeps each copy of the bucket formula as its own operator:

* `ExpectedDir`: check:26-32.
* `BlockPathDir`: fetch:86-89.
* `S3KeyDir` and `BoundaryCachePathDir`: boundary:29-40.
* `BlocksInChunk`: check:72-89.

`RefShard` is the spec's definition of a shard, found by `CHOOSE`. `Digits`, `NameLess` and
`LexicalLast` give the string order that `sorted()` applies to file names.

`Transcoder` holds the pure helpers of `rpc_to_nanoreth`:

* `GetHighestPrecompile`: a recursive walk of `PRECOMPILE_TRANSITIONS`, newest first.
* `HexToBytes`: `int(h, 16).to_bytes(length, "big")`, including the `OverflowError` branch.
* `HexToRaw`: an odd digit count gets a leading `0`, then the digits are taken two by two.
* `Record(b, txs, rcpts)`: the record `rpc_to_nanoreth` returns, for a call that does not
  raise. It has these parts:
  * `EncodeHeader`: the header dict. `HeaderDefaults` holds the defaults of the keys read with
    `b.get`, and `HeaderWidths` the widths given to `hex_to_bytes`.
  * `TxRecord`: `TxTag` (the if/elif/else on the declared type, Legacy for any other type) and
    `Signature`. `Recovery` is `yParity`, else `v`, else `0x0`.
  * `ReceiptRecord`: the `ReceiptTypeName` map with its `Legacy` default, and `success` as
    `status == "0x1"`.
  * The precompile address of `int(b["number"], 16)`.
* `RecordRaises`: whether the call raises instead. This happens on a missing `b[...]` key, or on
  an integer too wide for its field.

A JSON object is a function from the keys the node sent to their values. The other transaction
fields, the logs and the msgpack layout are left out: no property tells them apart.

A hex string is the sequence of its digits after `0x`, and a byte string is a sequence of
0..255. The reference definitions are:

* `RefPrecompile`: the greatest threshold not above the height.
* `BytesValue`: the big-endian value of a byte string.
* `HexDigits`: what a node sends as `hex(n)`.
* `SpecVariant` and `SpecWidths`: the variant of each declared type and the width of each
  integer header field, both as section 4.5 of the spec lists them.

`MCPathScheme` walks a variable `h` in increasing order over windows of ±1000 heights, with the
real bucket sizes. The windows are centred on 1001, 1000000, the three precompile transitions
and 45000000, which gives 12006 states. At each `h` the node's JSON is derived from `h`:
* Every value is `hex(h)`.
* Of the nine optional header keys, those of the set bits of `h` are present, so each window
  meets all 512 patterns of absent keys.
* The one transaction and its receipt have the declared type `h % 7`: absent, 0x0 to 0x4, or
  0x7e.
* `yParity`, `v` (a legacy sign value 27 or 28) and the receipt's `status` are each present or
  not, by further digits of `h`.

The run takes about a minute. The walk ends, so that config sets
`CHECK_DEADLOCK FALSE`.

### RpcFetcher / MCRpcFetcher

State:

* **`files`**, per height:
  * absent;
  * partial: opened `"wb"` but not yet closed;
  * a complete `Entry(b, r)`: the block of height `b` and the receipts of height `r`, where 0
    means the `[]` written when no receipts came back. `rpc_to_nanoreth` is abstracted to this
    pair.
* **`dirs`**: the directories that exist.
* **The locals of `main`**: `start`, `end`, `missing`, `i`, `delay`, `ok`, `written`, `errors`.
* **The state of `rpc_call`**: `attempt`.
* **The state of `fetch_and_write_batch`**: `resp` (`by_id`, as id → ok/none) and `j`.

Actions:

* `Invoke`: the default start via `FindCacheLatest`.
* `RpcReturns`, `RpcRetry`, `RpcGiveUp`: the retry loop. A give-up in `get_chain_tip` exits
  the script. A give-up in the batch loop runs the `except` clause at fetch:492-497.
* `Scan`: fetch:444-470.
* `NextBatch`.
* `SkipHeight`, `OpenFile` (makedirs + open, either may fail), `WriteFile`.
* `BatchDone`, which includes the relaxation.
* `Exit`.

The environment adds `ChainGrows`, `Crash` (a kill: the disk stays, the locals go) and further
invocations. Sleeps are left out. Delays are integer milliseconds, and ×0.8 is `(d*4) \div 5`.

**Fairness.** `WF_vars(RunStep)`. A running script keeps executing: every network call has a
30 s timeout, and every other step is local. Kills, invocations and chain growth are not fair.

**Bounds.** See `MCRpcFetcher.cfg`:

* Bucket sizes are 10/100, so the names 9 and 10 share a directory, as 9999999 and 10000000 do
  at full size.
* Heights 1..8 are cached and the tip grows from 11 to 12.
* Batches of 2, with `MaxRetries = 2` (one retry and then a give-up).
* 2 invocations.
* `--start` is the default or 9, `--end` is the default or 12, and `--dry-run` is on or off.
* The 100 s baseline under the 120 s cap and a success streak of 1 let one run double the delay
  to the cap and relax it back to the floor.

There are 272,900 states.

### OverlappingFetchers / MCOverlappingFetchers

The script takes no lock, so a second invocation can start while the first still runs: a manual
resume, or a cron job. `OverlappingFetchers` composes two copies of `RpcFetcher` by
`INSTANCE ... WITH`, as `P1` and `P2`:

* `tip`, `files`, `dirs` and `runs` are shared.
* Each copy has its own fourteen locals of `main`, `rpc_call` and `fetch_and_write_batch`.
* `Next` is a step of either copy, with the other copy's locals unchanged.
* Each copy's `RunStep` is weakly fair.

`MCOverlappingFetchers.cfg` starts both over a cache of 1..8 with the tip at 10 and
`--start 9 --end 10`. Each copy may be invoked once, and there is one attempt per `rpc_call`.

### FetchAndCheck / MCFetchAndCheck

The fetcher and `check --fix` are used on the same `--blocks-dir`, and neither takes a lock.
`FetchAndCheck` composes one `RpcFetcher` (`Fetch`) and one `CompletenessCheck` (`Check`) by
`INSTANCE ... WITH`:

* `files` and `dirs` are shared. A file has the same record in both models: absent, partial,
  or complete with its block and receipts.
* The locals that both modules name are renamed: `runs`, `pc` and `start` become `fruns`,
  `fpc`, `fstart` and `cruns`, `cpc`, `cstart`. The argument sets and invocation bounds are
  separate constants.
* `CheckDirs`: `download_one` runs `mkdir(parents=True)` before `write_bytes`, so every file the
  checker creates adds its `block_path` directory. The fetcher reads those directories back in
  `find_cache_latest`.
* `Next` is a step of either script, with the other one's locals unchanged. Each `RunStep` is
  weakly fair, for the same reason as in the separate modules.

`MCFetchAndCheck.cfg` uses the following bounds:

* a cache of 1..8 without 4, with the tip at 10;
* one fetcher invocation, with `--start 9 --end 10`, batches of 2 and one attempt;
* a checker with 1 thread, `--fix`, `--end 0` (auto-detect) and 2 invocations.


### DownloadPool

This is the pool shared, nearly line for line, by check's `download_blocks` and boundary's
`main`. State:

* `queue`: the executor's FIFO work queue.
* `worker[w]`: the height thread `w` is writing, or 0.
* `results`: finished futures not yet yielded.
* `downloaded`, `failed`: the coordinator's counters.

Actions:

* `Download(w)`: a free thread takes the head of the queue. `get_object`, `mkdir` or the open
  inside `write_bytes` may fail, which finishes the future with `False`. Otherwise the file now
  exists, partial.
* `WriteBytes(w)`: the write completes (`True`), or it fails and leaves the file partial
  (`False`). A complete object holds the height's block and its own receipts, as the bulk
  archive stores them. This is the fetcher's record shape, so the two models compose.
* `Collect`: `as_completed` yields any finished future, whatever the completion order, and one
  counter is incremented.

### CompletenessCheck / MCCompletenessCheck

This module EXTENDS `DownloadPool`, so the pool's variables are the script's. `Invoke` models
check:150-158:

* the default start `s3_start`;
* `latest` from `--end` or from `FindLatestLocalBlock`;
* `chunks`, the `(millions_base, thousands_base)` pairs the nested loop visits (`ShardLoop`,
  check:160-174, with `ThousandsStart` the `t_start` of line 171).

The other actions:

* `ScanChunk` handles one shard: `blocks_in_chunk` and `check_chunk`, plus the running totals.
* `ScanDone` applies the `s3_start` filter and decides whether the pool runs.
* `Fixing` is a pool step.
* `PoolDone` fires when `as_completed` is exhausted.
* `Exit` returns `1 if total_missing > 0`.
* `Crash` is a kill.

**Refinement.** `SequentialFix` is the spec's repair without threads (spec 4.3 and 5):

* submitted heights are handled one at a time, each once;
* a height counts as downloaded exactly when its entry is then complete, and as failed
  otherwise;
* a kill abandons what is left, and leaves the heights being worked on absent, partial or
  complete.

`CompletenessCheck` instantiates it with this mapping:

* in-flight heights, taken by a thread or finished but not yet yielded, appear absent;
* the to-do set is the queue plus those in-flight heights.

The property `SequentialFixRefined` checks it. `BoundaryDownload` has the same mapping and
the same property.

**Fairness.** `WF_vars(RunStep)`. The executor's threads and the coordinator are scheduled as
long as the process lives. Nothing else is assumed.

**Bounds** (`MCCompletenessCheck.cfg`):

* Bucket sizes are 5/10 and `MaxHeight` is 12, so the loop crosses two millions directories.
* `--start 10` sits on a directory boundary, as 18000000 does.
* 3 worker threads and 2 invocations.
* The cache lacks 4, 5, 10 and 11. Four heights for three threads means one waits in the queue,
  and the futures can finish in any order.

There are 41,989 states, in about 2 minutes. No symmetry reduction is used, because
`RunTerminates` is a liveness property.

### BoundaryDownload / MCBoundaryDownload

This module also EXTENDS `DownloadPool`. It models `find_missing_blocks`, with
`range(start, end + 1, 1000)` as `RangeStep`, and `main`:

* the chain defaults;
* the early return on `--dry-run` or when nothing is missing;
* the pool;
* kills and re-invocations.

The bounds are those of the check, with `DefaultStart = 5` and two initial caches, each missing
a boundary block. There are 472 states.

## 3. Runs

| Run | Expect | Shows |
|---|---|---|
| pure_operators | pass | `ScriptsAgree`: all path formulas agree for h ≥ 1. `ShardsPartitionHeights`: every height is in the spec's shard, and `blocks_in_chunk` of its directory is `T+1..h`. `PrecompileInForce`: the precompile address changes exactly at each threshold. `RawBytesExact`: `hex_to_raw` keeps the value and the byte count, for odd digit counts and leading zeros too. `HeaderBitExact`: whatever optional keys are absent, every integer header field has the spec's width and value, and the absent hashes and nonce are the mandated zero bytes. `VariantTagsRoundTrip`: the transaction's variant is that of its declared type, the receipt's tag equals the transaction's for every type, and the recovery indicator is `yParity`, else `v`, else 0. |
| rpc_fetch | pass | `TotalsMatchDisk`: the totals equal the handled heights with and without a complete entry. `EntryHoldsOwnData`: demultiplexing by id puts each height's own block and receipts (or `[]`) in its entry. `CompleteEntryStable`: one invocation never reopens a complete entry (the stale scan list against another writer is `overlap_fetch`). `DelayWithinBounds`: the delay stays within baseline..cap. `RunTerminates`. |
| rpc_default_start | violation | A failed batch followed by a successful one, then a run without `--start`, leaves the gap below the new start. |
| rpc_cache_latest | violation | `find_cache_latest` returns the name that sorts last as a string (8 when 1..8 and 10 exist), or 0 when the newest directory is empty. |
| rpc_delay_cap | violation | With `--delay` above 120 s, a failure drops the delay below the baseline. |
| check_scan | pass | `ScanFindsEveryGap`: the shard loop misses no absent height of `[start, latest]`. `DownloadsAccounted`: the pool's counters add up, and `downloaded` = the submitted heights now complete, in any completion order. `RunTerminates`. `SequentialFixRefined`: the threaded repair implements the sequential one. |
| check_below_start | violation | The first shard is scanned from its base. On testnet, 17999001..17999999 are reported missing, cannot be fixed, and make a complete cache exit 1. |
| check_exit_status | violation | A run that repairs every gap still returns 1. |
| fetch_check_partial | violation | `CleanScanMeansComplete`: a kill between creating a block file and finishing its write leaves a partial file. A later check run counts it as present, or auto-detects it as the latest block, and exits 0 with nothing missing. The model reaches this both through the checker's kill inside `write_bytes` (check:110), which is the counterexample TLC reports, and through the fetcher's kill between `open(path, "wb")` and the write (fetch:350). |
| boundary_fetch | pass | `EveryBoundaryListed`: with a start on a multiple of 1000, every absent boundary block is listed. `DownloadsAccounted`, `RunTerminates`. `SequentialFixRefined`: its pool, too, implements the sequential repair. |
| overlap_fetch | violation | Two overlapping invocations list the same absent height; the later one reopens with `"wb"` the entry the other has finished. A failed write or a kill then leaves a partial file that counts as present. |
| boundary_mainnet | violation | With the mainnet default start 1, the range visits 1, 1001, … and never a boundary block. |

Each passing property has a mutant in `PROJECT.json`, a plausible bug that TLC catches:

* bucketing without −1;
* `range(T, T+1000)`;
* a precompile transition taken with `>`;
* right-padding of odd hex;
* a nonce defaulting to `"0x0"`, one byte;
* a receipt type map without 0x1;
* the retry limit off by one;
* a skipped height not counted;
* response ids counted from 1;
* the spec's fast mode that assumes every height is missing;
* a failed batch re-queued;
* no floor on the relaxation;
* a shard loop without −1;
* a shard count that forgets `expected`;
* a failed write reported as a download;
* a task that hangs and never completes its future;
* a yielded future left in the completion set (`DownloadsAccounted` and the refinement both catch it);
* `range(start, end, 1000)`;
* a boundary listing without the `exists()` test (`DownloadsAccounted` and the refinement both catch it).

Further behaviours are shown by the models but have no run of their own:

* `block_path(0)` is `(-1000000, -1000)`, not the spec's `(0, 0)`. Only `--start 0` reaches it.
* A lost receipts answer writes an entry with `[]` receipts, which the spec allows.
  `EntryHoldsOwnData` admits exactly that.
* `rpc_call` raises `RequestException` for a single error object inside its own `try`
  (fetch:259). The `except` at fetch:264 catches it and retries like a transport error, where
  spec 4.4 says such an error is not retried. `RpcRetry` models this. The retried call only
  reads, so no property is violated by it.
* A transaction of a type other than 0x1 and 0x2 (0x3, 0x4, …) is encoded as `Legacy`, with the
  legacy field set. The spec names only the three variants. `VariantTagsRoundTrip` checks the
  spec's three types and the agreement between transaction and receipt tags for all types.

## 4. Not modelled

* **The boundary script overlapping the other two.** It runs the same pool as `check --fix`,
  over a set of heights that `FetchAndCheck` already covers. `FetchAndCheck` checks only the one
  violated property, `CleanScanMeansComplete`. A pass property of the composed system would need
  a run of its own.
* **The rest of the record.** This covers the transaction fields besides the tag and signature,
  the logs, `cumulative_gas_used`, msgpack and lz4. They are data that no property tells apart.
  msgpack and lz4 are opaque codecs in the spec.
* **Argument parsing, logging, progress output and the chain-profile tables.** Their values
  enter the models as constants and nondeterministic arguments.
* **Chain contents.** Blocks are identified only by their height.

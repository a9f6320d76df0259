# Formal models of the deoxys state-commitment layer

TLA+ models of the parts of this repository that keep and commit chain
state. TLC checks them on small instances. TLAPS proves them for every
value of the constants. Paths below are relative to the repository root.

## 1. Inventory

### Components and how they interact

| Component | Source | State | Operations |
|---|---|---|---|
| Keyed Store (RocksDB, external crate) | none under `src/` | values per `<<column, key>>`; a sequence number; per key the sequence number of its last write; write batches; snapshots | `get_cf`, `put_cf`, `delete_cf`, `write`, `iterator_cf`, `snapshot`, `transaction_opt`, `Transaction::commit` |
| Trie Database Adapter | `src/crates/client/db/src/bonsai_db.rs` | `BonsaiDb`: the DB handle, the column mapping, `snapshots: BTreeMap<BasicId, Snapshot>`. `BonsaiTransaction`: an optimistic RocksDB transaction and its write batch | `create_batch`, `get`, `get_by_prefix`, `contains`, `insert`, `remove`, `remove_by_prefix`, `write_batch`, `snapshot`, `transaction`, `merge` |
| Storage Handler (`mc_db::storage`) | none under `src/` | one handler per trie (contracts, per-contract storage, classes) over a transaction of the adapter | `contract_mut`, `contract_storage_mut`, `class_mut`, `init`, `insert`, `update`, `commit`, `apply_changes`, `root` |
| Commitment Engine | `src/crates/client/sync/src/commitments/lib.rs` | none of its own: it drives three handlers | `update_state_root`, `contract_trie_root`, `class_trie_root`, `contract_state_leaf_hash`, `class_hash`, `calculate_state_root`, `build_commitment_state_diff`, `calculate_commitments` |
| Mapping sync worker | `src/crates/client/mapping-sync/src/lib.rs` | the persisted syncing tips (a stack); the block-to-mapping table | `sync_blocks`, `sync_one_block`, `fetch_header`, `sync_block`, `sync_genesis_block` |
| Gateway block fetcher | `src/crates/client/deoxys/src/lib.rs` | the next block number `i`; the shared `BlockQueue` | `fetch_block`, `call_rpc`, `create_block_queue`; the wire conversions |
| Conversions, RPC fee estimate, runtime types | `utils/convert.rs`, `to_starknet_core_transaction.rs`, `estimate_message_fee.rs`, `runtime/src/opaque.rs` | none | field-by-field conversion |

The components interact as follows:

- `update_state_root` calls `rayon::join` on two branches. One branch computes the contracts-trie root, the other the classes-trie root. The state root is computed from the two results.
- The contract branch opens two write handlers, one on the contracts trie and one on the storage tries. It inserts every storage update and commits the storage trie at `block_number + 1`. It then calls `apply_changes`, so a handler change becomes an adapter `merge`.
- Next it reads every updated contract's storage root in parallel (`par_bridge`) and hashes the leaves. It updates the contracts trie, commits it and applies it.
- The class branch hashes each declared class, updates the classes trie, commits it and applies it.
- The handlers reach RocksDB only through the adapter. The adapter maps each trie key to a column and uses optimistic transactions created from its snapshot table.
- Independently of the commitment path, the mapping sync worker walks the Substrate block tree from its leaves towards the genesis and records a mapping for each block it syncs, while the client imports new blocks.
- The gateway fetcher is a task that pulls block after block from the feeder gateway into a queue shared with the node and asks the node, over RPC, to build a block.

### What is hard here

- **Concurrency.** The two `rayon::join` branches run at once. Each one merges its own optimistic transaction into the shared database, while direct writes and prefix removals also run against that database. A merge is correct only if RocksDB's per-key sequence check catches every write that happened after the transaction began.
- **Isolation.** `transaction(id)` is supposed to give a view pinned to the snapshot stored at `id`. The pinned `ReadOptions` is built and then dropped (`bonsai_db.rs:260-263`).
- **Partial failure.** Both `remove_by_prefix` implementations and both `get_by_prefix` implementations end their scan silently on an iterator `Err` and return `Ok`.
- **Batch semantics.** A transaction's `create_batch` copies the transaction's write batch (`bonsai_db.rs:150`). `write_batch` then replays that copy.
- **Protocol sequence.** The commitment engine only produces leaves for contracts that have storage updates (`lib.rs:226-236`). It panics (`unreachable!`) when the class hash is unknown and no block hash is given (`lib.rs:288`).
- **Stale input.** A contract's leaf takes its nonce from this block's diff only, and falls back to `Nonce::default()` (`lib.rs:264`).
- **Sync loop.** `sync_blocks` short-circuits after the first success (`mapping-sync/lib.rs:211`). `sync_block` writes no mapping, so non-genesis blocks are walked again. Under the Parachain strategy a tip above the best block stays on top of the stack and holds back all the others (`mapping-sync/lib.rs:183`).
- **Retry.** The fetcher pushes a block before the RPC call and pushes it again when the call fails (`deoxys/src/lib.rs:340`). It unwraps the gateway's answer, which is empty at the chain head (`deoxys/src/lib.rs:326`).

### What makes each component correct

- **Adapter.** It implements an optimistic key-value store:
  - writes outside a transaction are atomic;
  - a transaction commits all of its writes, or none of them, and only if nobody wrote one of its keys after it began;
  - a transaction reads its snapshot;
  - prefix operations are exact or report an error;
  - a batch applies exactly what was put into it.
- **Commitment engine.**
  - The state root is a fixed function of the committed tries and the diff, whatever the interleaving of the branches and the `par_bridge` order.
  - Every contract the diff touches gets a leaf that commits to its current class, storage root and nonce.
  - A failed update leaves no partial state.
- **Mapping sync.**
  - The stack of tips never holds a block twice.
  - Every block at or above `sync_from` is eventually walked, and eventually marked synced.
- **Gateway fetcher.** Blocks reach the queue in chain order with none skipped, and every block the gateway has eventually reaches it.

## 2. Plan

Done:

1. **`BonsaiDb`**, with the refinement of the abstract store **`OptimisticKV`**, and **`BonsaiDb_proofs`**: type correctness, the inductive invariant `IInv`, and `Spec => KVSpec`.
2. **`CommitmentEngine`**: the two `rayon::join` branches as two program counters, each handler call a step, each `par_bridge` task an action; blocks one after another over persistent tries. The Storage Handler is modelled from the spec inside it.
3. **`MappingSync`**: every return path of `sync_one_block` and the loop of `sync_blocks`, racing block import, with liveness under the fairness of the worker.
4. **`GatewayFetcher`**: the loop of `fetch_block` with its retries, with liveness under the fairness of the task.
5. The reads of the adapter (`get`, `contains`, `get_by_prefix`, for the live store and for a transaction) and the properties about the two error-swallowing scans.
6. Proofs for every value of the constants: `GatewayFetcher_proofs` (`TypeOK`, `QueueInOrder`), `MappingSync_proofs` (`TypeOK`, `TipsDistinct`), `CommitmentEngine_proofs` (`TypeOK`, `StateRootIsSequential`) and `BonsaiDbScan_proofs` (`PrefixScanExact`).

Next:

- Compose `CommitmentEngine` with `BonsaiDb`: each handler an adapter transaction (`init` takes `transaction(block)`, `apply_changes` is `merge`), to check that no merge inside one block conflicts.
- `build_commitment_state_diff`, including the special case of the system contract at address 1.
- Proofs: action properties of the merge and of the tip stack.

## 3. Modules

### `OptimisticKV` (abstract)

This is what the adapter promises, without sequence numbers.

- **State.**
  - `store`;
  - the set of `open` transactions;
  - each transaction's staged `wset`;
  - `missed[t]`: the keys written by others since `t` began.
- **Actions.**
  - `Write(w)`: an atomic write outside any transaction;
  - `Begin(t)`, `Stage(t, w)` and `Abort(t)`;
  - `Commit(t)`: allowed only if `missed[t]` and the keys `t` writes are disjoint.

### `BonsaiDb` (detailed; `bonsai_db.rs`)

- **State.**

  | Variable | Code |
  |---|---|
  | `db` | RocksDB contents |
  | `seq`, `lastMod` | RocksDB sequence numbers, which optimistic validation reads |
  | `batch` | the `BonsaiDb` batch the caller holds |
  | `snapshots` | `BonsaiDb.snapshots` |
  | `txnOpen` | a live `BonsaiTransaction` |
  | `txnBase` | the transaction's own snapshot, from `set_snapshot(true)` |
  | `txnPinned` | the snapshot put in the `ReadOptions` at `:260-261` |
  | `txnWrites` | the transaction's write batch |
  | `txnBatch` | the caller's batch, as the entries copied by `get_writebatch` followed by the caller's own |

- **Keys.** A `DatabaseKey` variant and its bytes map to `<<ColumnMapping[kind], bytes>>` (`PhysKey`, `:21-28`).
- **Actions.** There is one action per method and per batch/no-batch branch:
  - `Insert` / `InsertBatch`, `Remove` / `RemoveBatch`, `CreateBatch`, `WriteBatch`, `RemoveByPrefix`;
  - `Snapshot`, `Transaction`, `Merge` (`MergeCommit` or `MergeConflict`), `TxnDrop`;
  - the `Txn*` actions for `BonsaiTransaction`.
- **Scans.** `Scanned` translates `iterator_cf(From(prefix, Forward))` followed by `map_while` / `break` on the first key that does not start with the prefix. `Collected` adds the outcomes in which the iterator yields `Err` at some entry. Those outcomes are possible only when `IterErrors` is TRUE.
- **Reads.** `get`, `contains` and `get_by_prefix` change nothing, so they are view operators rather than actions. `TxnView` is what `txn.get_cf` reads with default options: the live store with the transaction's own writes on top.
- **Left out.**
  - I/O errors of writes (they are propagated, as the spec requires);
  - RocksDB's `Busy` result when memtable history is too short;
  - the returned old values of `insert` and `remove`.

### `CommitmentEngine` (`commitments/lib.rs`)

- **Data.** A trie is its contents (a function from keys to values, `Zero` for an absent key). Its root is `Zero` when every entry is `Zero` and the contents otherwise, which is a collision-free root. Pedersen and Poseidon are uninterpreted tuples, so two hashes are equal exactly when their inputs are. A `CommitmentStateDiff` is a record of four maps with `None` for an absent key.
- **State.**

  | Variable | Code |
  |---|---|
  | `storageTrie`, `contractTrie`, `classTrie` | the three committed tries (the Storage Handler, modelled from the spec) |
  | `storageWork`, `staged` | the write handler of the storage tries before and after `commit` |
  | `leafUpdates`, `classUpdates` | the `Vec`s the two `par_bridge` fan-outs collect into, in completion order |
  | `cpc`, `kpc` | where each `rayon::join` branch is |
  | `cRoot`, `kRoot`, `stateRoot` | the branch results and `calculate_state_root` |
  | `block`, `diff`, `hasHash`, `outcome` | the block being committed, its diff, whether a block hash is given, and whether `update_state_root` returned or panicked |
  | `classOf`, `nonceOf` | the chain state after the previous block |

- **Actions.**
  - Contract branch: `COpen` (open the handlers), `CStage(a)` (insert one contract's storage updates), `CCommitStorage` (commit at `block_number + 1` and `apply_changes`), `CLeaf(a)` (one `par_bridge` task: read the storage root, compute the leaf hash, push it), `CLeafPanic(a)` (the `unreachable!` of `class_hash`), `CUpdate` (update, commit and apply the contracts trie, then read its root).
  - Class branch: `KHash(c)` (one `par_bridge` task) and `KCommit`.
  - `Join` and `JoinPanic` (`rayon::join` resumes a panic of either branch). `NextBlock` chooses the next diff. `Finished` stutters after the last block.
- **Left out.** The two conversions into `CommitmentStateDiff` and `calculate_commitments` (see section 6).

### `MappingSync` (`mapping-sync/src/lib.rs`)

- **Block tree.** `Blocks`, `Genesis`, `Parent` and `Number` are constants. The Substrate client imports a block once its parent is in (`Import(b)`), and the block may become the best block.
- **State.**

  | Variable | Code |
  |---|---|
  | `imported`, `best` | the backend's blocks and `info().best_hash` |
  | `synced` | the blocks `is_synced` reports |
  | `tips` | `current_syncing_tips` as persisted, with the top of the stack last |
  | `active`, `iter`, `syncedAny` | a running `sync_blocks` call, its loop index and `synced_any` |
  | `operating` | the last operating header `sync_one_block` worked on |
  | `strategy` | the `SyncStrategy`, fixed when the worker is built |

- **Actions.** `StartSync` and `EndSync` frame a `sync_blocks` call. `ShortCircuit` is an iteration that `||` skips. Each return path of `sync_one_block` is an action on a candidate stack `s` (the persisted tips, or `leaves()` in some order when none are persisted):
  - `SyncNone(s)`: no tip yields a header; the empty stack is written;
  - `SyncGenesis(s)` and `SyncGenesisTipsErr(s)`: the genesis is synced, and the stack write succeeds or fails;
  - `SyncParachainWait(s)`: a header above the best block under Parachain; nothing is written;
  - `SyncBlock(s)`: any other header; the parent is pushed;
  - `SyncErr`: a failing read before the first write.
  
  The pop loop is `StopAt`, the topmost tip whose `fetch_header` is not `None`. `Fetch` follows `fetch_header` (`lib.rs:217`) in the code's order: `is_synced` first (`None`), then the header lookup (`Err` when missing), then the comparison with `sync_from`.
- **Assumptions.** `BlockTreeAssumption`: the block tree is finite, rooted at `Genesis`, and `Number` is the height (`Number[b] = Number[Parent[b]] + 1`). The client holds finitely many headers, so the leaf set is finite and `leaves()` returns a finite list.
- **Fairness.** `WF(StartSync) /\ WF(EndSync) /\ SF(SyncOk)`. The worker is polled on every import notification and on a timer, so a call always comes and runs to its end. A read error is transient, so an iteration that can succeed repeatedly eventually does (strong fairness, because the failures keep disabling it).

### `GatewayFetcher` (`deoxys/src/lib.rs`)

- **State.** `head` is the gateway's chain length (it grows by `Produce`), `i` the next block number, `queue` the `BlockQueue` contents in push order (a block is its number), and `pc` is one of `fetch`, `rpc`, `sleep` and `panicked`.
- **Actions.** There is one action per arm of the loop:
  - `FetchOk` pushes block `i` and calls the RPC;
  - `FetchMissing` is the `unwrap` panic when the gateway has no block `i`;
  - `FetchErr` and `Wake` are the error print and the two-second sleep;
  - `RpcSuccess` increments `i`;
  - `RpcFailed` goes round with the same `i`;
  - `Ended` stutters once the task has ended.
- **Bound.** `MaxQueue` is a model bound, not the code's: `fetch_block` retries a failed RPC call without limit, and `RpcFailed` is enabled only while the queue is shorter than `MaxQueue` so that TLC's state space is finite. No property and no theorem depends on it: `TypeOK` says nothing of the queue's length, and both theorems hold for every `MaxQueue`.
- **Fairness.** WF on `FetchMissing` and `Wake`, SF on `FetchOk` and `RpcSuccess`: the task is always polled again, and the gateway and the node answer at last when they can.
- **Left out.** The node side of the queue is not in the repository. The feeder client's own retries are inside one fetch. The file does not compile as written (`get_txs`); the model follows the control flow the loop is written with.

## 4. Runs

Each module has one MC module (`MC_BonsaiDb`, `MC_CommitmentEngine`, `MC_MappingSync`, `MC_GatewayFetcher`) and one cfg per run. Values, columns, addresses, hashes and sentinels are model values.

| Run | Expect | Properties | Instance | What it shows |
|---|---|---|---|---|
| `bonsai_txn` | pass | `TypeOK`, `KVSpec` | 1 key, 1 value, 2 transactions (symmetric), 1 id, `MaxSeq = 2`, iterator errors on; 108k states | The seq-number check implements first-committer-wins. Every merge that succeeds is an abstract `Commit`; every write stamps what open transactions must have missed. |
| `bonsai_scan` | pass | `PrefixScanExact` | 1 column, keys `<0>`, `<0,1>`, `<0,2>`, `<1>`, prefixes `<0>` and `<0,1>`, no transactions, `MaxSeq = 3`; 1.5M states | In every reachable store, the forward scan with early stop collects exactly the keys with the prefix, including keys that share only part of it. |
| `bonsai_snapiso` | violation | `TxnReadsItsSnapshot` | 1 key, 1 transaction | In 4 steps (`snapshot(0)`, live insert, `transaction(0)`, read), the transaction sees the insert. |
| `bonsai_prefix` | violation | `PrefixErrorsReported` | the scan keys, 1 transaction, `MaxSeq = 2`, iterator errors on | After one insert, `get_by_prefix` may return `Ok` with the entry missing. The same property covers both `remove_by_prefix` implementations, which leave keys behind on an iterator error. |
| `bonsai_replay` | violation | `TxnWriteBatchAppliesOnlyItsOps` | 1 key, 1 transaction | The steps are `TxnInsert`, `TxnCreateBatch`, `TxnRemove`, `TxnWriteBatch`. The replayed copy brings back the value that was removed. |
| `ce_engine` | pass | `TypeOK`, `StateRootIsSequential` | 2 addresses (symmetric), 1 storage key, value, class, compiled hash and nonce, 2 blocks; 755k states | Whatever the interleaving of the two branches and the order the `par_bridge` tasks finish in, the committed tries and the state root are those of applying the diff sequentially, and the second block builds on the first. |
| `ce_leaf` | violation | `ContractLeafIsCurrent` | 1 address, 2 blocks | A contract deployed with no storage update gets no leaf (`lib.rs:230`). The property also covers the nonce fallback at `lib.rs:264`: when a contract's storage changes but its nonce does not, its leaf is hashed with `Nonce::default()` rather than the current nonce. The trace shows the leaf-set divergence first. |
| `ce_partial` | violation | `NoPartialCommit` | 1 address, 2 blocks | `storage_write.apply_changes` runs before the leaf hashes, so a `class_hash` panic (`lib.rs:288`) aborts `update_state_root` with the storage tries already applied. |
| `ms_walk` | pass | `TypeOK`, `TipsDistinct`, `BlocksWalked` | tree `g <- b1 <- b2`, `b1 <- b3`, `g <- c1`, `SyncFrom = 0`, `Limit = 2`, both strategies; 6,142 states | Under every order of imports and worker steps, and any read failures, the stack never holds a tip twice, and every imported block is walked (under Parachain, once the best block stays highest). |
| `ms_synced` | violation | `EverySyncedEventually` | as `ms_walk`, Normal only | A block other than the genesis is never marked synced: the body of `sync_block` is commented out. |
| `gf_fetch` | pass | `TypeOK`, `QueueInOrder` | `MaxBlock = 3`, `MaxQueue = 4`; 174 states | Whatever the gateway errors and RPC failures, the queue is the chain in order: each entry is the previous one or its successor, so no block is skipped or reordered. |
| `gf_tip` | violation | `EveryBlockQueued` | as `gf_fetch` | Reaching the gateway's head panics the task (`unwrap` on the empty answer), and blocks produced later are never queued. |

**Bounds.**

- One key is enough for the transaction run. Every conflict is about one key, and each way of writing it (direct, batch, prefix removal, another transaction's merge) is present. Two keys exceed the time budget (more than 500k states a minute).
- `MaxSeq = 2` allows a write, a conflicting write and a merge within one transaction's lifetime.
- The scan instance contains, around the prefix `<0>`, a key below it (none), the prefix itself, two extensions, and a key above it. Around the prefix `<0,1>`, it contains a shorter key below it, `<0>`, and a sibling above it, `<0,2>`.
- Two addresses give two `par_bridge` tasks in each fan-out, so both completion orders occur. Two blocks make the second block start from committed tries. Every diff of the instance is enumerated, including empty ones and ones that only deploy, only change a nonce or only declare a class.
- The block tree has two branches off the genesis and a fork at `b1`, so the leaves change while tips are persisted. `Limit = 2` lets the short circuit happen.
- `MaxBlock = 3` lets the fetcher reach the head and lets the chain grow after it. `MaxQueue = 4` allows a repeated push after a failed RPC.

**Fairness.** The passing runs of `BonsaiDb` and `CommitmentEngine` check only safety, and their specifications assume no fairness. `MappingSync` and `GatewayFetcher` assume the fairness given in section 3. The liveness runs check only properties that follow from it.

## 5. Proofs

`BonsaiDb_proofs.tla` holds the following results.

- Lemmas on the helpers: `Overlay`, `Put`, `Deletes` and `Replay` stay within the write sets, and `Apply` keeps the store and the stamps typed (`ApplyType`).
- **`TypeCorrect`**: `Spec => []TypeOK`, for every value of the constants.
  - The assumptions used are `SentinelAssumption` and `MaxSeqAssumption`.
  - `TypeOK` is inductive as it stands.
  - `NextTypeOK` has one step per action of `Next`.
  - `TypeOK` includes "a live transaction was opened on a stored snapshot", which rests on the guard of `transaction(id)`.

- **`Refinement`**: `Spec => KVSpec`, i.e. `BonsaiDb` implements `OptimisticKV` under the mapping `KV`, for every value of the constants.
  - The strengthening is `IInv == TypeOK /\ SeqBounds`. `SeqBounds` says that `seq` bounds every stamp `lastMod[k]` and every base `txnBase[t]`. TLC checks it on the `bonsai_txn` instance. `THEOREM IInvariant` proves `Spec => []IInv`.
  - The invariant is needed because the mapping sets `missed[t]` to the keys stamped above `txnBase[t]`. Two facts then follow:
    - a new transaction has missed nothing, because nothing is stamped above `seq`;
    - a write stamps `seq + 1`, which lies above every open base, so every open transaction adds exactly the written keys to what it missed (`ApplyMissed`).
  - One lemma maps each concrete step to its abstract counterpart:
    - `ApplyRefines`: a live write is a `Write`;
    - `TransactionRefines`: `transaction(id)` is a `Begin`;
    - `MergeCommitRefines`: a successful merge is a `Commit`, because RocksDB's validation is the abstract `missed[t] \cap Touched(wset[t]) = {}`;
    - `CloseRefines`: a failed merge or a drop is an `Abort`;
    - `StageRefines`: a transaction's own write is a `Stage`.
  - Every other step leaves the mapped state alone (`Stutter`). `NextRefines` combines the lemmas, and the theorem follows by PTL.

`GatewayFetcher_proofs.tla` proves the following, for every `MaxBlock` and `MaxQueue` (assumption `BoundsAssumption`).

- **`TypeCorrect`** (`Spec => []TypeOK`) and **`QueueOrdered`** (`Spec => []QueueInOrder`). Both follow from **`Invariant`**, `Spec => []IInv`.
- `TypeOK` is not inductive on its own: `RpcSuccess` moves `i` to `i + 1`, which stays within `0..MaxBlock` only because a call is pending just for a block the gateway has (`i < head`). `QueueInOrder` is not inductive either, because it says nothing about the next push. `IInv` adds:
  - the last block pushed is `i` while an RPC is pending, and `i` or `i - 1` otherwise;
  - `i <= head`, and `i < head` while a call is pending;
  - the queue is a gap-free run `0..Last(queue)`.
  
  Nothing in it depends on the number of failed calls, so the theorems hold for a fetcher that retries without limit.
- `PushInOrder` is the lemma that pushing block `i` keeps the run gap-free. TLC checked `IInv` on `MaxBlock = 4`, `MaxQueue = 5`.

`MappingSync_proofs.tla` proves the following, for every finite block tree, `SyncFrom`, `Limit` and set of strategies.

- **`TipsNeverRepeat`** (`Spec => []TipsDistinct`) and **`TypeCorrect`**, from **`Invariant`**, `Spec => []IInv`.
- `IInv == TypeOK /\ ImportedClosed /\ Ordered(tips)`.
  - `Ordered(s)`: no tip is an ancestor-or-self of a tip above it.
  - Ancestry is stated without recursion: `AncestorOrSelf(a, b)` holds when some parent chain (`IsChain`, a sequence whose every element is followed by its parent) leads from `b` to `a`.
  - `ImportedClosed`: every parent chain that starts at an imported block stays in `imported`. This holds because `Import(b)` requires the parent to be imported (`ImportKeepsClosed`). It lets the proof conclude, without induction, that the leaves form an antichain (`LeavesAntichain`).
- Why the invariant holds:
  - A stack that is pushed fresh is a list of distinct leaves, so it is ordered (`CandidatesOrdered`).
  - `SyncBlock` replaces the popped header by its parent. A tip below that were an ancestor-or-self of the parent would also be an ancestor of the header, so the stack stays ordered (`OrderedPush`).
  - The other write paths keep a prefix of the stack (`OrderedPrefix`).
  - `StopAtStops` shows that the pop loop's `CHOOSE` finds the topmost stop. It uses `WFMin` over the naturals.
- An ordered stack holds no block twice (`OrderedDistinct`). TLC checked `IInv` on the `ms_walk` instance.

`CommitmentEngine_proofs.tla` proves the following, for every set of addresses, keys, values, classes and nonces and every `MaxBlock`.

- **`StateRootSequential`** (`Spec => []StateRootIsSequential`) and **`TypeCorrect`**, from **`Invariant`**.
- The inductive invariant is the conjunction of:
  - `StorageInv`: the storage tries are the block's starting ones until `CCommitStorage`, and the sequential ones after it. `storage_write`'s view holds the sequential storage of exactly the staged addresses.
  - `LeafInv` and the class part of `ClassInv`: every pair a `par_bridge` task pushed carries the value that the sequential pass gives its key (`GoodLeaf`, `GoodClass`). A leaf's address also has a class hash (no panic).
  - `ContractInv` and `ClassInv`: each committed trie is the starting one until its branch commits, and the sequential one after.
  - `JoinInv`: a returned root is `calculate_state_root` of the two branch roots.
- The order of the tasks does not matter because of the lemma `InsertedAgrees`. When every pair pushed for a key carries the same value, `update(s)` gives the same trie whatever the order of `s`. Its proof picks the last index of a key with `LastIndex`, again by `WFMin`.
- `FrozenBlock` records that, within a block, the diff, the runtime state and the starting tries are fixed, so the sequential pass is too. TLC checked the invariant on the `ce_engine` instance (755k states).

Three kinds of result stay with TLC:

- **Liveness**, and anything that uses `ENABLED`: `BlocksWalked` (run `ms_walk`), and the liveness claims that the violation runs refute (`EverySyncedEventually`, `EveryBlockQueued`).
- **What a recursive definition computes for every input**: the library's induction theorems take an operator parameter that the installed provers cannot instantiate.
- **Anything in a module that reaches a RECURSIVE operator.** No module of this project declares one.

`BonsaiDbScan_proofs.tla` proves **`ScanExact`**: for every set of byte strings, every view of the store, every kind and every prefix, `Scanned` is exactly the set of present keys that start with the prefix. **`PrefixScanAlways`** (`Spec => []PrefixScanExact`) follows, because the statement holds of every store. The argument uses the bytewise order, restated position by position (`IsPrefixAgree`, `KeyLessAgree`):

- a key that extends the prefix is not below it, so the scan from the prefix reaches it (`ExtensionNotBelow`);
- a key at or after the prefix that is below an extension of the prefix extends it too (`BetweenExtends`). The proof takes the first position where that key and the prefix differ (`FirstDifference`, by `WFMin`), so the early stop loses nothing.

## 6. Not modelled

- **Conversions** (`convert.rs`, `to_starknet_core_transaction.rs`, and the two functions of `commitments/lib.rs` that build a `CommitmentStateDiff` from a state diff): pure field mapping. `build_commitment_state_diff` has a special case for the system contract at address 1, which is not yet modelled.
- **`calculate_commitments`**: joins two hash functions that are not under `src/`.
- **`estimate_message_fee`**: returns zeros.
- **`opaque.rs`**: type re-exports only.
- **The node's side of the `BlockQueue`**: it is not in the repository.
- **A spec inconsistency, not a run.** Spec section 8 says that a diff declaring no class gives a state root equal to the contracts root. The code (`lib.rs:135`) does this when the class trie's root is zero, which is what section 4.4 implies once an earlier block has declared a class. The model follows the code.

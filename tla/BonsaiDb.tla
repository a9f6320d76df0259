------------------------------ MODULE BonsaiDb ------------------------------
(***************************************************************************)
(* The trie database adapter of crates/client/db/src/bonsai_db.rs: the    *)
(* live store BonsaiDb over a RocksDB optimistic-transaction database,    *)
(* its table of snapshots, and BonsaiTransaction, the optimistic          *)
(* transaction it hands out.                                              *)
(*                                                                         *)
(* A DatabaseKey (Trie, Flat or TrieLog variant with its bytes) is mapped *)
(* to a physical key <<column, bytes>> by the column mapping.  RocksDB is *)
(* modelled by what the adapter relies on: a value per physical key, a    *)
(* sequence number that each write advances, and per key the sequence    *)
(* number of its last write (what an optimistic commit validates).        *)
(***************************************************************************)
EXTENDS Naturals, Sequences, FiniteSets

CONSTANTS
    Kinds,          \* the DatabaseKey variants in use
    Columns,        \* RocksDB column families
    ColumnMapping,  \* DatabaseKeyMapping: variant -> column
    Bytes,          \* key byte strings (sequences of naturals)
    Prefixes,       \* byte strings given as a prefix to *_by_prefix
    Vals,           \* values
    Ids,            \* BasicId values given to snapshot / transaction
    Txns,           \* BonsaiTransaction slots
    NoValue,        \* absent key (get returns None)
    NoOp,           \* a write set / batch that leaves a key alone
    NoBatch,        \* no batch is held
    NoSnapshot,     \* no snapshot at an id
    MaxSeq,         \* bound on the RocksDB sequence number
    IterErrors      \* may a RocksDB iterator yield Err

ASSUME KindsAssumption == Kinds \subseteq {"Trie", "Flat", "TrieLog"}
ASSUME MappingAssumption == ColumnMapping \in [Kinds -> Columns]
ASSUME BytesAssumption == Bytes \subseteq Seq(Nat) /\ Prefixes \subseteq Seq(Nat)
ASSUME SentinelAssumption ==
    /\ NoValue \notin Vals /\ NoOp \notin Vals \cup {NoValue}
    /\ NoBatch # NoSnapshot
ASSUME MaxSeqAssumption == MaxSeq \in Nat
ASSUME IterErrorsAssumption == IterErrors \in BOOLEAN

\* DatabaseKeyMapping::map, then the physical key the RocksDB call uses.
PhysKey(kind, b) == <<ColumnMapping[kind], b>>

Keys == {PhysKey(kind, b) : kind \in Kinds, b \in Bytes}

Values == Vals \cup {NoValue}
WriteSets == [Keys -> Values \cup {NoOp}]
Stores == [Keys -> Values]
\* A WriteBatch a transaction hands out: the entries copied from the
\* transaction's write batch, followed by the entries the caller adds.
TxnBatches == [copy : WriteSets, ops : WriteSets]
EmptyWrites == [k \in Keys |-> NoOp]

Touched(w) == {k \in Keys : w[k] # NoOp}
Overlay(f, w) == [k \in Keys |-> IF w[k] = NoOp THEN f[k] ELSE w[k]]

(***************************************************************************)
(* Byte strings in RocksDB's default (bytewise) order.                     *)
(***************************************************************************)
IsPrefix(p, b) == Len(p) <= Len(b) /\ SubSeq(b, 1, Len(p)) = p
KeyLess(a, b) ==
    \/ IsPrefix(a, b) /\ a # b
    \/ \E i \in 1..Len(a) : /\ i <= Len(b)
                            /\ SubSeq(a, 1, i - 1) = SubSeq(b, 1, i - 1)
                            /\ a[i] < b[i]

\* Variant for mutation checks: the scan starts strictly after the prefix.
ScannedAfterPrefix(f, c, p) ==
    LET from == {b \in Bytes : <<c, b>> \in Keys /\ f[<<c, b>>] # NoValue
                               /\ KeyLess(p, b)}
    IN  {b \in from : /\ IsPrefix(p, b)
                      /\ \A j \in from : KeyLess(j, b) => IsPrefix(p, j)}

\* The keys remove_by_prefix / get_by_prefix collect from the view f of
\* column c: iterate forward from the prefix (IteratorMode::From) and stop
\* at the first key that does not start with it (map_while / break).
Scanned(f, c, p) ==
    LET from == {b \in Bytes : <<c, b>> \in Keys /\ f[<<c, b>>] # NoValue
                               /\ ~KeyLess(b, p)}
    IN  {b \in from : /\ IsPrefix(p, b)
                      /\ \A j \in from : KeyLess(j, b) => IsPrefix(p, j)}

\* The keys actually collected: all of Scanned, or, when the iterator yields
\* Err at entry e, those before e; the Err ends the loop and is dropped.
Collected(f, c, p) ==
    {Scanned(f, c, p)} \cup
    (IF IterErrors THEN {{b \in Scanned(f, c, p) : KeyLess(b, e)} : e \in Scanned(f, c, p)}
                   ELSE {})

VARIABLES
    db,           \* the live RocksDB contents
    seq,          \* the last sequence number used
    lastMod,      \* per key, the sequence number of its last write
    batch,        \* the BonsaiDb batch the caller holds (or NoBatch)
    snapshots,    \* BonsaiDb.snapshots: id -> store image (or NoSnapshot)
    txnOpen,      \* BonsaiTransaction slot is live
    txnBase,      \* sequence number of the transaction's own snapshot
    txnPinned,    \* the snapshot put into read_options at creation
    txnWrites,    \* the transaction's write batch
    txnBatch      \* the batch the caller holds for a transaction (or NoBatch)

vars == <<db, seq, lastMod, batch, snapshots,
          txnOpen, txnBase, txnPinned, txnWrites, txnBatch>>
txnVars == <<txnOpen, txnBase, txnPinned, txnWrites, txnBatch>>

\* Type correctness; and a live transaction was always created from a
\* snapshot stored at its id (transaction returns None otherwise).
TypeOK ==
    /\ db \in Stores
    /\ seq \in 0..MaxSeq
    /\ lastMod \in [Keys -> 0..MaxSeq]
    /\ batch \in WriteSets \cup {NoBatch}
    /\ snapshots \in [Ids -> Stores \cup {NoSnapshot}]
    /\ txnOpen \in [Txns -> BOOLEAN]
    /\ txnBase \in [Txns -> 0..MaxSeq]
    /\ txnPinned \in [Txns -> Stores \cup {NoSnapshot}]
    /\ txnWrites \in [Txns -> WriteSets]
    /\ txnBatch \in [Txns -> TxnBatches \cup {NoBatch}]
    /\ \A t \in Txns : txnOpen[t] => txnPinned[t] # NoSnapshot

Init ==
    /\ db = [k \in Keys |-> NoValue]
    /\ seq = 0
    /\ lastMod = [k \in Keys |-> 0]
    /\ batch = NoBatch
    /\ snapshots = [i \in Ids |-> NoSnapshot]
    /\ txnOpen = [t \in Txns |-> FALSE]
    /\ txnBase = [t \in Txns |-> 0]
    /\ txnPinned = [t \in Txns |-> NoSnapshot]
    /\ txnWrites = [t \in Txns |-> EmptyWrites]
    /\ txnBatch = [t \in Txns |-> NoBatch]

\* Variants for mutation checks: a write stamping keys with the sequence
\* number it started from; a write that replaces the store by the batch.
ApplyStampingOldSeq(w) ==
    IF Touched(w) = {}
    THEN UNCHANGED <<db, seq, lastMod>>
    ELSE /\ seq < MaxSeq
         /\ db' = Overlay(db, w)
         /\ seq' = seq + 1
         /\ lastMod' = [k \in Keys |-> IF w[k] # NoOp THEN seq ELSE lastMod[k]]

\* One atomic RocksDB write of the write set w: it takes the next sequence
\* number and stamps every key it touches (a delete is a write too).  An
\* empty write changes nothing.
Apply(w) ==
    IF Touched(w) = {}
    THEN UNCHANGED <<db, seq, lastMod>>
    ELSE /\ seq < MaxSeq
         /\ db' = Overlay(db, w)
         /\ seq' = seq + 1
         /\ lastMod' = [k \in Keys |-> IF w[k] # NoOp THEN seq + 1 ELSE lastMod[k]]

Put(k, v) == [EmptyWrites EXCEPT ![k] = v]

\* The write set deleting the bytes S of column c.
Deletes(c, S) == [k \in Keys |-> IF k[1] = c /\ k[2] \in S THEN NoValue ELSE NoOp]

-----------------------------------------------------------------------------
(***************************************************************************)
(* impl BonsaiDatabase for BonsaiDb: the live store.                       *)
(***************************************************************************)

\* create_batch: the caller takes a fresh, empty batch.
CreateBatch ==
    /\ batch' = EmptyWrites
    /\ UNCHANGED <<db, seq, lastMod, snapshots>> /\ UNCHANGED txnVars

\* insert(key, value, None): put_cf on the live database.
Insert(kind, b, v) ==
    /\ Apply(Put(PhysKey(kind, b), v))
    /\ UNCHANGED <<batch, snapshots>> /\ UNCHANGED txnVars

\* insert(key, value, Some(batch)): put_cf into the caller's batch.
InsertBatch(kind, b, v) ==
    /\ batch # NoBatch
    /\ batch' = [batch EXCEPT ![PhysKey(kind, b)] = v]
    /\ UNCHANGED <<db, seq, lastMod, snapshots>> /\ UNCHANGED txnVars

\* remove(key, None): delete_cf on the live database.
Remove(kind, b) ==
    /\ Apply(Put(PhysKey(kind, b), NoValue))
    /\ UNCHANGED <<batch, snapshots>> /\ UNCHANGED txnVars

\* remove(key, Some(batch)): delete_cf into the caller's batch.
RemoveBatch(kind, b) ==
    /\ batch # NoBatch
    /\ batch' = [batch EXCEPT ![PhysKey(kind, b)] = NoValue]
    /\ UNCHANGED <<db, seq, lastMod, snapshots>> /\ UNCHANGED txnVars

\* write_batch: db.write(batch), atomically; the batch is consumed.
WriteBatch ==
    /\ batch # NoBatch
    /\ Apply(batch)
    /\ batch' = NoBatch
    /\ UNCHANGED snapshots /\ UNCHANGED txnVars

\* remove_by_prefix: scan the live column from the prefix, collect deletes
\* into a batch of its own, write it, return Ok(()).
RemoveByPrefix(kind, p) ==
    /\ \E S \in Collected(db, ColumnMapping[kind], p) :
          Apply(Deletes(ColumnMapping[kind], S))
    /\ UNCHANGED <<batch, snapshots>> /\ UNCHANGED txnVars

-----------------------------------------------------------------------------
(***************************************************************************)
(* impl BonsaiPersistentDatabase<BasicId> for BonsaiDb.                    *)
(***************************************************************************)

\* snapshot(id): db.snapshot(), inserted into the table over any old one.
Snapshot(i) ==
    /\ snapshots' = [snapshots EXCEPT ![i] = db]
    /\ UNCHANGED <<db, seq, lastMod, batch>> /\ UNCHANGED txnVars

\* Variant for mutation checks: transaction(id) without the snapshot lookup.
TransactionUnchecked(t, i) ==
    /\ ~txnOpen[t]
    /\ txnOpen' = [txnOpen EXCEPT ![t] = TRUE]
    /\ txnBase' = [txnBase EXCEPT ![t] = seq]
    /\ txnPinned' = [txnPinned EXCEPT ![t] = snapshots[i]]
    /\ txnWrites' = [txnWrites EXCEPT ![t] = EmptyWrites]
    /\ txnBatch' = [txnBatch EXCEPT ![t] = NoBatch]
    /\ UNCHANGED <<db, seq, lastMod, batch, snapshots>>

\* transaction(id): only when a snapshot is stored at id.  The optimistic
\* transaction takes its own snapshot now (set_snapshot(true)); the stored
\* snapshot only goes into a ReadOptions that is then dropped.
Transaction(t, i) ==
    /\ ~txnOpen[t]
    /\ snapshots[i] # NoSnapshot
    /\ txnOpen' = [txnOpen EXCEPT ![t] = TRUE]
    /\ txnBase' = [txnBase EXCEPT ![t] = seq]
    /\ txnPinned' = [txnPinned EXCEPT ![t] = snapshots[i]]
    /\ txnWrites' = [txnWrites EXCEPT ![t] = EmptyWrites]
    /\ txnBatch' = [txnBatch EXCEPT ![t] = NoBatch]
    /\ UNCHANGED <<db, seq, lastMod, batch, snapshots>>

\* The transaction is gone, by merge or by drop.
Close(t) ==
    /\ txnOpen' = [txnOpen EXCEPT ![t] = FALSE]
    /\ txnBase' = [txnBase EXCEPT ![t] = 0]
    /\ txnPinned' = [txnPinned EXCEPT ![t] = NoSnapshot]
    /\ txnWrites' = [txnWrites EXCEPT ![t] = EmptyWrites]
    /\ txnBatch' = [txnBatch EXCEPT ![t] = NoBatch]

\* A key t writes was written by someone after t's own snapshot.
Conflict(t) == \E k \in Touched(txnWrites[t]) : lastMod[k] > txnBase[t]

\* merge(transaction): txn.commit().  RocksDB validates every key the
\* transaction wrote against its snapshot; on success the write batch is
\* applied atomically, on Busy the commit fails and the batch is lost.
MergeCommit(t) ==
    /\ txnOpen[t]
    /\ ~Conflict(t)
    /\ Apply(txnWrites[t])
    /\ Close(t)
    /\ UNCHANGED <<batch, snapshots>>

MergeConflict(t) ==
    /\ txnOpen[t]
    /\ Conflict(t)
    /\ Close(t)
    /\ UNCHANGED <<db, seq, lastMod, batch, snapshots>>

Merge(t) == MergeCommit(t) \/ MergeConflict(t)

\* The caller drops the transaction without merging it.
TxnDrop(t) ==
    /\ txnOpen[t]
    /\ Close(t)
    /\ UNCHANGED <<db, seq, lastMod, batch, snapshots>>

-----------------------------------------------------------------------------
(***************************************************************************)
(* impl BonsaiDatabase for BonsaiTransaction.                              *)
(***************************************************************************)

\* What txn.get_cf and txn.iterator_cf read: ReadOptions::default(), so the
\* latest committed data with the transaction's own writes on top.
TxnView(t) == Overlay(db, txnWrites[t])

TxnUnchangedExcept(t) ==
    UNCHANGED <<db, seq, lastMod, batch, snapshots, txnOpen, txnBase, txnPinned>>

\* create_batch: txn.get_writebatch(), a copy of the transaction's batch.
TxnCreateBatch(t) ==
    /\ txnOpen[t]
    /\ txnBatch' = [txnBatch EXCEPT ![t] = [copy |-> txnWrites[t], ops |-> EmptyWrites]]
    /\ TxnUnchangedExcept(t) /\ UNCHANGED txnWrites

TxnInsert(t, kind, b, v) ==
    /\ txnOpen[t]
    /\ txnWrites' = [txnWrites EXCEPT ![t][PhysKey(kind, b)] = v]
    /\ TxnUnchangedExcept(t) /\ UNCHANGED txnBatch

TxnInsertBatch(t, kind, b, v) ==
    /\ txnOpen[t] /\ txnBatch[t] # NoBatch
    /\ txnBatch' = [txnBatch EXCEPT ![t].ops[PhysKey(kind, b)] = v]
    /\ TxnUnchangedExcept(t) /\ UNCHANGED txnWrites

TxnRemove(t, kind, b) ==
    /\ txnOpen[t]
    /\ txnWrites' = [txnWrites EXCEPT ![t][PhysKey(kind, b)] = NoValue]
    /\ TxnUnchangedExcept(t) /\ UNCHANGED txnBatch

TxnRemoveBatch(t, kind, b) ==
    /\ txnOpen[t] /\ txnBatch[t] # NoBatch
    /\ txnBatch' = [txnBatch EXCEPT ![t].ops[PhysKey(kind, b)] = NoValue]
    /\ TxnUnchangedExcept(t) /\ UNCHANGED txnWrites

\* write_batch: txn.rebuild_from_writebatch(&batch) replays every entry of
\* the batch, copied ones first, into the transaction.
Replay(w, b) == Overlay(Overlay(w, b.copy), b.ops)

TxnWriteBatch(t) ==
    /\ txnOpen[t] /\ txnBatch[t] # NoBatch
    /\ txnWrites' = [txnWrites EXCEPT ![t] = Replay(txnWrites[t], txnBatch[t])]
    /\ txnBatch' = [txnBatch EXCEPT ![t] = NoBatch]
    /\ TxnUnchangedExcept(t)

\* remove_by_prefix: scan the transaction's view, collect deletes into a
\* batch made by create_batch (a copy of the write batch), replay it.
TxnRemoveByPrefix(t, kind, p) ==
    /\ txnOpen[t]
    /\ \E S \in Collected(TxnView(t), ColumnMapping[kind], p) :
          LET b == [copy |-> txnWrites[t], ops |-> Deletes(ColumnMapping[kind], S)]
          IN  txnWrites' = [txnWrites EXCEPT ![t] = Replay(txnWrites[t], b)]
    /\ TxnUnchangedExcept(t) /\ UNCHANGED txnBatch

-----------------------------------------------------------------------------
(***************************************************************************)
(* The reads of both impls: they change no state; these are the results   *)
(* they can return.                                                        *)
(***************************************************************************)

\* get / contains on the live store: get_cf.
Get(kind, b) == db[PhysKey(kind, b)]
Contains(kind, b) == db[PhysKey(kind, b)] # NoValue

\* get_by_prefix: the (key, value) pairs of what the scan collects, which
\* is Ok(...) also when an iterator Err cut it short.
GetByPrefix(kind, p) ==
    {{<<b, db[PhysKey(kind, b)]>> : b \in S} : S \in Collected(db, ColumnMapping[kind], p)}

\* The same three calls of BonsaiTransaction, on txn.get_cf / iterator_cf.
TxnGet(t, kind, b) == TxnView(t)[PhysKey(kind, b)]
TxnContains(t, kind, b) == TxnView(t)[PhysKey(kind, b)] # NoValue
TxnGetByPrefix(t, kind, p) ==
    {{<<b, TxnView(t)[PhysKey(kind, b)]>> : b \in S} :
        S \in Collected(TxnView(t), ColumnMapping[kind], p)}

-----------------------------------------------------------------------------
Next ==
    \/ CreateBatch \/ WriteBatch
    \/ \E kind \in Kinds, b \in Bytes, v \in Vals :
          Insert(kind, b, v) \/ InsertBatch(kind, b, v)
    \/ \E kind \in Kinds, b \in Bytes : Remove(kind, b) \/ RemoveBatch(kind, b)
    \/ \E kind \in Kinds, p \in Prefixes : RemoveByPrefix(kind, p)
    \/ \E i \in Ids : Snapshot(i)
    \/ \E t \in Txns :
          \/ \E i \in Ids : Transaction(t, i)
          \/ Merge(t) \/ TxnDrop(t) \/ TxnCreateBatch(t) \/ TxnWriteBatch(t)
          \/ \E kind \in Kinds, b \in Bytes, v \in Vals :
                TxnInsert(t, kind, b, v) \/ TxnInsertBatch(t, kind, b, v)
          \/ \E kind \in Kinds, b \in Bytes :
                TxnRemove(t, kind, b) \/ TxnRemoveBatch(t, kind, b)
          \/ \E kind \in Kinds, p \in Prefixes : TxnRemoveByPrefix(t, kind, p)

Spec == Init /\ [][Next]_vars

-----------------------------------------------------------------------------
(***************************************************************************)
(* Properties.                                                             *)
(***************************************************************************)

\* The refinement: the live store and its transactions implement
\* OptimisticKV, the keys a transaction has missed being those whose last
\* write is newer than the transaction's own snapshot.
KV == INSTANCE OptimisticKV WITH
        store <- db,
        open <- {t \in Txns : txnOpen[t]},
        wset <- txnWrites,
        missed <- [t \in Txns |-> IF txnOpen[t]
                                  THEN {k \in Keys : lastMod[k] > txnBase[t]}
                                  ELSE {}]

\* Snapshot isolation as spec.md states it: a transaction opened on the
\* snapshot at id reads, for every key it has not written itself, what the
\* snapshot holds, whatever the live store has received since.
TxnReadsItsSnapshot ==
    \A t \in Txns : txnOpen[t] =>
        \A k \in Keys : txnWrites[t][k] = NoOp => TxnView(t)[k] = txnPinned[t][k]

\* The forward scan of get_by_prefix / remove_by_prefix, which starts at
\* the prefix and stops at the first key not starting with it, collects
\* exactly the present keys of the column that start with the prefix: in
\* bytewise order those keys form one run beginning at the prefix.
PrefixScanExact ==
    \A kind \in Kinds, p \in Prefixes :
        LET c == ColumnMapping[kind]
        IN  Scanned(db, c, p) = {b \in Bytes : db[PhysKey(kind, b)] # NoValue /\ IsPrefix(p, b)}

\* A transaction's write_batch applies the entries the caller put in the
\* batch and changes no other key of the transaction's writes.
TxnWriteBatchAppliesOnlyItsOps ==
    [][\A t \in Txns :
         TxnWriteBatch(t) =>
            \A k \in Keys : txnBatch[t].ops[k] = NoOp => txnWrites'[t][k] = txnWrites[t][k]]_vars

\* The entries of view f in the column of kind whose key starts with p.
PrefixEntries(f, kind, p) ==
    {<<b, f[PhysKey(kind, b)]>> : b \in {x \in Bytes : f[PhysKey(kind, x)] # NoValue /\ IsPrefix(p, x)}}

\* get_by_prefix, on the live store and in every open transaction, returns
\* Ok only with every entry whose key starts with the prefix: an iterator
\* error is reported, never turned into a shorter list (spec 4.1).
GetByPrefixComplete ==
    \A kind \in Kinds, p \in Prefixes :
        /\ GetByPrefix(kind, p) = {PrefixEntries(db, kind, p)}
        /\ \A t \in Txns : txnOpen[t] =>
              TxnGetByPrefix(t, kind, p) = {PrefixEntries(TxnView(t), kind, p)}

\* remove_by_prefix returns Ok only when every key of the column that starts
\* with the prefix is gone from the store.
RemovalComplete ==
    \A kind \in Kinds, p \in Prefixes :
        RemoveByPrefix(kind, p) =>
            \A b \in Bytes : IsPrefix(p, b) => db'[PhysKey(kind, b)] = NoValue

\* A transaction's remove_by_prefix returns Ok only when no key starting
\* with the prefix is left in the transaction's view.
TxnRemovalComplete ==
    \A t \in Txns, kind \in Kinds, p \in Prefixes :
        TxnRemoveByPrefix(t, kind, p) =>
            \A b \in Bytes : IsPrefix(p, b) =>
                Overlay(db', txnWrites'[t])[PhysKey(kind, b)] = NoValue

\* The prefix operations of BonsaiDb never turn an iterator error into a
\* partial result returned as Ok: after every step get_by_prefix, live and
\* in every open transaction, can only return every entry with the prefix,
\* and a remove_by_prefix, live or in a transaction, that returned Ok left
\* no key with the prefix behind (spec 4.1).
PrefixErrorsReported ==
    [][GetByPrefixComplete' /\ RemovalComplete /\ TxnRemovalComplete]_vars

\* The store implements the optimistic key-value specification.
KVSpec == KV!Spec
=============================================================================

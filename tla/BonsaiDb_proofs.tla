--------------------------- MODULE BonsaiDb_proofs ---------------------------
(***************************************************************************)
(* Proofs about BonsaiDb, for every value of its constants.               *)
(***************************************************************************)
EXTENDS BonsaiDb, TLAPS

USE SentinelAssumption, MaxSeqAssumption

-----------------------------------------------------------------------------
(* Lemmas about the write-set helpers.                                     *)

LEMMA OverlayType ==
    ASSUME NEW S, NEW f \in [Keys -> S], NEW w \in WriteSets,
           \A k \in Keys : w[k] # NoOp => w[k] \in S
    PROVE  Overlay(f, w) \in [Keys -> S]
BY DEF Overlay, WriteSets

LEMMA OverlayWriteSet ==
    ASSUME NEW f \in WriteSets, NEW w \in WriteSets
    PROVE  Overlay(f, w) \in WriteSets
BY DEF Overlay, WriteSets, Values

LEMMA OverlayStore ==
    ASSUME NEW f \in Stores, NEW w \in WriteSets
    PROVE  Overlay(f, w) \in Stores
BY DEF Overlay, WriteSets, Stores, Values

LEMMA PutType ==
    ASSUME NEW k \in Keys, NEW v \in Values
    PROVE  Put(k, v) \in WriteSets
BY DEF Put, EmptyWrites, WriteSets, Values

LEMMA DeletesType ==
    ASSUME NEW c, NEW S
    PROVE  Deletes(c, S) \in WriteSets
BY DEF Deletes, WriteSets, Values

LEMMA ReplayType ==
    ASSUME NEW w \in WriteSets, NEW b \in TxnBatches
    PROVE  Replay(w, b) \in WriteSets
BY OverlayWriteSet DEF Replay, TxnBatches

LEMMA PhysKeyType ==
    ASSUME NEW kind \in Kinds, NEW b \in Bytes
    PROVE  PhysKey(kind, b) \in Keys
BY DEF Keys

\* An atomic write keeps the store, the sequence number and the per-key
\* stamps in their types.
LEMMA ApplyType ==
    ASSUME TypeOK, NEW w \in WriteSets, Apply(w)
    PROVE  /\ db' \in Stores
           /\ seq' \in 0..MaxSeq
           /\ lastMod' \in [Keys -> 0..MaxSeq]
<1>1. CASE Touched(w) = {}
  BY <1>1 DEF Apply, TypeOK
<1>2. CASE Touched(w) # {}
  <2>1. /\ seq < MaxSeq
        /\ db' = Overlay(db, w)
        /\ seq' = seq + 1
        /\ lastMod' = [k \in Keys |-> IF w[k] # NoOp THEN seq + 1 ELSE lastMod[k]]
    BY <1>2 DEF Apply
  <2>2. db' \in Stores
    BY <2>1, OverlayStore DEF TypeOK
  <2>3. seq' \in 0..MaxSeq /\ lastMod' \in [Keys -> 0..MaxSeq]
    BY <2>1, MaxSeqAssumption DEF TypeOK
  <2>4. QED BY <2>2, <2>3
<1>3. QED BY <1>1, <1>2

-----------------------------------------------------------------------------
(* Type correctness.                                                       *)

LEMMA InitTypeOK == Init => TypeOK
BY SentinelAssumption
   DEF Init, TypeOK, Stores, Values, WriteSets, EmptyWrites

\* Each step keeps TypeOK: one step per action of Next.
LEMMA NextTypeOK == TypeOK /\ [Next]_vars => TypeOK'
<1> SUFFICES ASSUME TypeOK, [Next]_vars PROVE TypeOK'
  OBVIOUS
<1> USE DEF TypeOK
<1>1. CASE CreateBatch
  BY <1>1 DEF CreateBatch, txnVars, EmptyWrites, WriteSets
<1>2. CASE WriteBatch
  BY <1>2, ApplyType DEF WriteBatch, txnVars
<1>3. ASSUME NEW kind \in Kinds, NEW b \in Bytes, NEW v \in Vals,
             Insert(kind, b, v)
      PROVE  TypeOK'
  <2>1. Put(PhysKey(kind, b), v) \in WriteSets
    BY PutType, PhysKeyType DEF Values
  <2>2. QED BY <1>3, <2>1, ApplyType DEF Insert, txnVars
<1>4. ASSUME NEW kind \in Kinds, NEW b \in Bytes, NEW v \in Vals,
             InsertBatch(kind, b, v)
      PROVE  TypeOK'
  BY <1>4, PhysKeyType DEF InsertBatch, txnVars, WriteSets, Values
<1>5. ASSUME NEW kind \in Kinds, NEW b \in Bytes, Remove(kind, b)
      PROVE  TypeOK'
  <2>1. Put(PhysKey(kind, b), NoValue) \in WriteSets
    BY PutType, PhysKeyType DEF Values
  <2>2. QED BY <1>5, <2>1, ApplyType DEF Remove, txnVars
<1>6. ASSUME NEW kind \in Kinds, NEW b \in Bytes, RemoveBatch(kind, b)
      PROVE  TypeOK'
  BY <1>6, PhysKeyType DEF RemoveBatch, txnVars, WriteSets, Values
<1>7. ASSUME NEW kind \in Kinds, NEW p \in Prefixes, RemoveByPrefix(kind, p)
      PROVE  TypeOK'
  <2>1. PICK S \in Collected(db, ColumnMapping[kind], p) :
               Apply(Deletes(ColumnMapping[kind], S))
    BY <1>7 DEF RemoveByPrefix
  <2>2. QED BY <1>7, <2>1, DeletesType, ApplyType DEF RemoveByPrefix, txnVars
<1>8. ASSUME NEW i \in Ids, Snapshot(i)
      PROVE  TypeOK'
  BY <1>8 DEF Snapshot, txnVars
<1>9. ASSUME NEW t \in Txns, NEW i \in Ids, Transaction(t, i)
      PROVE  TypeOK'
  BY <1>9 DEF Transaction, EmptyWrites, WriteSets
<1>10. ASSUME NEW t \in Txns, MergeCommit(t)
       PROVE  TypeOK'
  <2>0. txnWrites[t] \in WriteSets
    OBVIOUS
  <2>1. /\ db' \in Stores
        /\ seq' \in 0..MaxSeq
        /\ lastMod' \in [Keys -> 0..MaxSeq]
    BY <1>10, <2>0, ApplyType DEF MergeCommit
  <2>2. QED BY <1>10, <2>1 DEF MergeCommit, Close, EmptyWrites, WriteSets
<1>11. ASSUME NEW t \in Txns, MergeConflict(t)
       PROVE  TypeOK'
  BY <1>11 DEF MergeConflict, Close, EmptyWrites, WriteSets
<1>12. ASSUME NEW t \in Txns, TxnDrop(t)
       PROVE  TypeOK'
  BY <1>12 DEF TxnDrop, Close, EmptyWrites, WriteSets
<1>13. ASSUME NEW t \in Txns, TxnCreateBatch(t)
       PROVE  TypeOK'
  BY <1>13 DEF TxnCreateBatch, TxnUnchangedExcept, TxnBatches, EmptyWrites, WriteSets
<1>14. ASSUME NEW t \in Txns, TxnWriteBatch(t)
       PROVE  TypeOK'
  BY <1>14, ReplayType DEF TxnWriteBatch, TxnUnchangedExcept
<1>15. ASSUME NEW t \in Txns, NEW kind \in Kinds, NEW b \in Bytes, NEW v \in Vals,
              TxnInsert(t, kind, b, v)
       PROVE  TypeOK'
  BY <1>15, PhysKeyType DEF TxnInsert, TxnUnchangedExcept, WriteSets, Values
<1>16. ASSUME NEW t \in Txns, NEW kind \in Kinds, NEW b \in Bytes, NEW v \in Vals,
              TxnInsertBatch(t, kind, b, v)
       PROVE  TypeOK'
  BY <1>16, PhysKeyType DEF TxnInsertBatch, TxnUnchangedExcept, TxnBatches, WriteSets, Values
<1>17. ASSUME NEW t \in Txns, NEW kind \in Kinds, NEW b \in Bytes,
              TxnRemove(t, kind, b)
       PROVE  TypeOK'
  BY <1>17, PhysKeyType DEF TxnRemove, TxnUnchangedExcept, WriteSets, Values
<1>18. ASSUME NEW t \in Txns, NEW kind \in Kinds, NEW b \in Bytes,
              TxnRemoveBatch(t, kind, b)
       PROVE  TypeOK'
  BY <1>18, PhysKeyType DEF TxnRemoveBatch, TxnUnchangedExcept, TxnBatches, WriteSets, Values
<1>19. ASSUME NEW t \in Txns, NEW kind \in Kinds, NEW p \in Prefixes,
              TxnRemoveByPrefix(t, kind, p)
       PROVE  TypeOK'
  <2>1. PICK S \in Collected(TxnView(t), ColumnMapping[kind], p) :
               txnWrites' = [txnWrites EXCEPT ![t] =
                   Replay(txnWrites[t], [copy |-> txnWrites[t],
                                         ops |-> Deletes(ColumnMapping[kind], S)])]
    BY <1>19 DEF TxnRemoveByPrefix
  <2>2. [copy |-> txnWrites[t], ops |-> Deletes(ColumnMapping[kind], S)] \in TxnBatches
    BY DeletesType DEF TxnBatches
  <2>3. QED BY <1>19, <2>1, <2>2, ReplayType DEF TxnRemoveByPrefix, TxnUnchangedExcept
<1>20. CASE UNCHANGED vars
  BY <1>20 DEF vars
<1>21. QED
  BY <1>1, <1>2, <1>3, <1>4, <1>5, <1>6, <1>7, <1>8, <1>9, <1>10, <1>11,
     <1>12, <1>13, <1>14, <1>15, <1>16, <1>17, <1>18, <1>19, <1>20
  DEF Next, Merge

\* Every reachable state of the adapter is well typed, and every live
\* transaction was opened on a stored snapshot.
THEOREM TypeCorrect == Spec => []TypeOK
BY InitTypeOK, NextTypeOK, PTL DEF Spec

-----------------------------------------------------------------------------
(* The refinement of OptimisticKV.  It rests on the sequence number being *)
(* an upper bound of every per-key stamp and of every transaction's base: *)
(* a write then stamps its keys above every open transaction's snapshot.  *)

SeqBounds ==
    /\ \A k \in Keys : lastMod[k] <= seq
    /\ \A t \in Txns : txnBase[t] <= seq

IInv == TypeOK /\ SeqBounds

\* An atomic write never lowers the sequence number and stamps no key
\* above it.
LEMMA ApplySeq ==
    ASSUME TypeOK, SeqBounds, NEW w \in WriteSets, Apply(w)
    PROVE  /\ seq <= seq'
           /\ \A k \in Keys : lastMod'[k] <= seq'
<1>1. CASE Touched(w) = {}
  BY <1>1 DEF Apply, SeqBounds, TypeOK
<1>2. CASE Touched(w) # {}
  BY <1>2 DEF Apply, SeqBounds, TypeOK
<1>3. QED BY <1>1, <1>2

LEMMA InitIInv == Init => IInv
<1> SUFFICES ASSUME Init PROVE IInv
  OBVIOUS
<1>1. TypeOK BY InitTypeOK
<1>2. SeqBounds BY DEF Init, SeqBounds
<1>3. QED BY <1>1, <1>2 DEF IInv

\* The steps that leave seq, lastMod and txnBase alone keep SeqBounds.
LEMMA SeqBoundsUnchanged ==
    ASSUME SeqBounds, UNCHANGED <<seq, lastMod, txnBase>>
    PROVE  SeqBounds'
BY DEF SeqBounds

\* The live-store writes: one Apply, transactions untouched.
LEMMA SeqBoundsApply ==
    ASSUME TypeOK, SeqBounds, NEW w \in WriteSets, Apply(w),
           UNCHANGED txnBase
    PROVE  SeqBounds'
<1>1. seq <= seq' /\ \A k \in Keys : lastMod'[k] <= seq'
  BY ApplySeq
<1>2. seq' \in 0..MaxSeq
  BY ApplyType
<1>3. QED BY <1>1, <1>2 DEF SeqBounds, TypeOK

LEMMA NextIInv == IInv /\ [Next]_vars => IInv'
<1> SUFFICES ASSUME TypeOK, SeqBounds, [Next]_vars PROVE SeqBounds'
  BY NextTypeOK DEF IInv
<1>1. CASE WriteBatch
  BY <1>1, SeqBoundsApply DEF WriteBatch, txnVars, TypeOK
<1>2. ASSUME NEW kind \in Kinds, NEW b \in Bytes, NEW v \in Vals, Insert(kind, b, v)
      PROVE  SeqBounds'
  BY <1>2, SeqBoundsApply, PutType, PhysKeyType DEF Insert, txnVars, Values
<1>3. ASSUME NEW kind \in Kinds, NEW b \in Bytes, Remove(kind, b)
      PROVE  SeqBounds'
  BY <1>3, SeqBoundsApply, PutType, PhysKeyType DEF Remove, txnVars, Values
<1>4. ASSUME NEW kind \in Kinds, NEW p \in Prefixes, RemoveByPrefix(kind, p)
      PROVE  SeqBounds'
  <2>1. PICK S \in Collected(db, ColumnMapping[kind], p) :
               Apply(Deletes(ColumnMapping[kind], S))
    BY <1>4 DEF RemoveByPrefix
  <2>2. QED BY <1>4, <2>1, SeqBoundsApply, DeletesType DEF RemoveByPrefix, txnVars
<1>5. ASSUME NEW t \in Txns, NEW i \in Ids, Transaction(t, i)
      PROVE  SeqBounds'
  BY <1>5 DEF Transaction, SeqBounds, TypeOK
<1>6. ASSUME NEW t \in Txns, MergeCommit(t)
      PROVE  SeqBounds'
  <2>1. seq <= seq' /\ \A k \in Keys : lastMod'[k] <= seq'
    BY <1>6, ApplySeq DEF MergeCommit, TypeOK
  <2>2. seq' \in 0..MaxSeq
    BY <1>6, ApplyType DEF MergeCommit, TypeOK
  <2>3. QED BY <1>6, <2>1, <2>2 DEF MergeCommit, Close, SeqBounds, TypeOK
<1>7. ASSUME NEW t \in Txns, MergeConflict(t) \/ TxnDrop(t)
      PROVE  SeqBounds'
  BY <1>7 DEF MergeConflict, TxnDrop, Close, SeqBounds, TypeOK
<1>8. CASE CreateBatch \/ \E i \in Ids : Snapshot(i)
  <2>1. UNCHANGED <<seq, lastMod, txnBase>>
    BY <1>8 DEF CreateBatch, Snapshot, txnVars
  <2>2. QED BY <2>1, SeqBoundsUnchanged
<1>9. ASSUME NEW kind \in Kinds, NEW b \in Bytes,
             (\E v \in Vals : InsertBatch(kind, b, v)) \/ RemoveBatch(kind, b)
      PROVE  SeqBounds'
  <2>1. UNCHANGED <<seq, lastMod, txnBase>>
    BY <1>9 DEF InsertBatch, RemoveBatch, txnVars
  <2>2. QED BY <2>1, SeqBoundsUnchanged
<1>10. ASSUME NEW t \in Txns,
              \/ TxnCreateBatch(t) \/ TxnWriteBatch(t)
              \/ \E kind \in Kinds, b \in Bytes, v \in Vals :
                    TxnInsert(t, kind, b, v) \/ TxnInsertBatch(t, kind, b, v)
              \/ \E kind \in Kinds, b \in Bytes :
                    TxnRemove(t, kind, b) \/ TxnRemoveBatch(t, kind, b)
              \/ \E kind \in Kinds, p \in Prefixes : TxnRemoveByPrefix(t, kind, p)
       PROVE  SeqBounds'
  <2>1. UNCHANGED <<seq, lastMod, txnBase>>
    BY <1>10 DEF TxnCreateBatch, TxnWriteBatch, TxnInsert, TxnInsertBatch,
                 TxnRemove, TxnRemoveBatch, TxnRemoveByPrefix, TxnUnchangedExcept
  <2>2. QED BY <2>1, SeqBoundsUnchanged
<1>11. CASE UNCHANGED vars
  BY <1>11, SeqBoundsUnchanged DEF vars
<1>12. QED
  BY <1>1, <1>2, <1>3, <1>4, <1>5, <1>6, <1>7, <1>8, <1>9, <1>10, <1>11
  DEF Next, Merge

\* The strengthened invariant holds in every reachable state.
THEOREM IInvariant == Spec => []IInv
BY InitIInv, NextIInv, PTL DEF Spec

\* The abstract state the refinement mapping KV assigns.
OpenSet == {t \in Txns : txnOpen[t]}
Missed == [t \in Txns |-> IF txnOpen[t] THEN {k \in Keys : lastMod[k] > txnBase[t]}
                                        ELSE {}]

LEMMA WriteSetsEq == KV!WriteSets = WriteSets
BY DEF KV!WriteSets, WriteSets, Values

\* A write stamps above every open snapshot: each open transaction has now
\* missed exactly the keys it missed before and the keys the write touches.
LEMMA ApplyMissed ==
    ASSUME IInv, NEW w \in WriteSets, Apply(w), NEW u \in Txns
    PROVE  {k \in Keys : lastMod'[k] > txnBase[u]}
             = {k \in Keys : lastMod[k] > txnBase[u]} \cup Touched(w)
<1>1. CASE Touched(w) = {}
  BY <1>1 DEF Apply
<1>2. CASE Touched(w) # {}
  BY <1>2 DEF Apply, IInv, SeqBounds, TypeOK, Touched
<1>3. QED BY <1>1, <1>2

\* An empty write set leaves a store as it is.
LEMMA OverlayEmpty ==
    ASSUME NEW f, NEW w \in WriteSets, Touched(w) = {}
    PROVE  Overlay(f, w) = [k \in Keys |-> f[k]]
BY DEF Overlay, Touched

\* Whether it writes or not, an Apply leaves the store overlaid by w.
LEMMA ApplyStore ==
    ASSUME IInv, NEW w \in WriteSets, Apply(w)
    PROVE  db' = Overlay(db, w)
<1>1. CASE Touched(w) = {}
  BY <1>1, OverlayEmpty DEF Apply, IInv, TypeOK, Stores
<1>2. CASE Touched(w) # {}
  BY <1>2 DEF Apply
<1>3. QED BY <1>1, <1>2

\* An atomic write outside the transactions is an abstract Write.
LEMMA ApplyRefines ==
    ASSUME IInv, NEW w \in WriteSets, Apply(w), UNCHANGED txnVars
    PROVE  KV!Write(w)
<1>1. db' = Overlay(db, w)
  BY ApplyStore
<1>2. Missed' = [t \in Txns |-> IF t \in OpenSet THEN Missed[t] \cup Touched(w)
                                                ELSE Missed[t]]
  <2>1. \A u \in Txns : {k \in Keys : lastMod'[k] > txnBase[u]}
                         = {k \in Keys : lastMod[k] > txnBase[u]} \cup Touched(w)
    BY ApplyMissed
  <2>2. txnOpen' = txnOpen /\ txnBase' = txnBase
    BY DEF txnVars
  <2>3. QED BY <2>1, <2>2 DEF Missed, OpenSet
<1>3. txnOpen' = txnOpen /\ txnWrites' = txnWrites
  BY DEF txnVars
<1>4. QED BY <1>1, <1>2, <1>3 DEF KV!Write, KV!Overlay, KV!Touched, Overlay, Touched,
                                   Missed, OpenSet

\* transaction(id) is an abstract Begin: nothing is stamped above seq, so
\* the new transaction has missed nothing.
LEMMA TransactionRefines ==
    ASSUME IInv, NEW t \in Txns, NEW i \in Ids, Transaction(t, i)
    PROVE  KV!Begin(t)
<1>1. {k \in Keys : lastMod[k] > seq} = {}
  BY DEF IInv, SeqBounds, TypeOK
<1>2. Missed' = [Missed EXCEPT ![t] = {}]
  BY <1>1 DEF Transaction, Missed, IInv, TypeOK
<1>3. OpenSet' = OpenSet \cup {t} /\ t \notin OpenSet
  BY DEF Transaction, OpenSet, IInv, TypeOK
<1>4. txnWrites' = [txnWrites EXCEPT ![t] = KV!EmptyWrites] /\ db' = db
  BY DEF Transaction, KV!EmptyWrites, EmptyWrites
<1>5. QED BY <1>2, <1>3, <1>4 DEF KV!Begin, OpenSet, Missed

\* A failed merge and a dropped transaction are an abstract Abort.
LEMMA CloseRefines ==
    ASSUME IInv, NEW t \in Txns, MergeConflict(t) \/ TxnDrop(t)
    PROVE  KV!Abort(t)
<1>1. /\ txnOpen[t] /\ Close(t)
      /\ UNCHANGED <<db, seq, lastMod, batch, snapshots>>
  BY DEF MergeConflict, TxnDrop
<1>2. Missed' = [Missed EXCEPT ![t] = {}]
  BY <1>1 DEF Close, Missed, IInv, TypeOK
<1>3. OpenSet' = OpenSet \ {t} /\ t \in OpenSet
  BY <1>1 DEF Close, OpenSet, IInv, TypeOK
<1>4. txnWrites' = [txnWrites EXCEPT ![t] = KV!EmptyWrites] /\ db' = db
  BY <1>1 DEF Close, KV!EmptyWrites, EmptyWrites
<1>5. QED BY <1>2, <1>3, <1>4 DEF KV!Abort, OpenSet, Missed

\* A successful merge is an abstract Commit: RocksDB's check that no key t
\* wrote carries a stamp above t's snapshot is exactly first-committer-wins,
\* and the commit's own write is then missed by every other open transaction.
LEMMA MergeCommitRefines ==
    ASSUME IInv, NEW t \in Txns, MergeCommit(t)
    PROVE  KV!Commit(t)
<1> DEFINE w == txnWrites[t]
<1>1. w \in WriteSets /\ txnOpen[t] /\ ~Conflict(t) /\ Apply(w) /\ Close(t)
  BY DEF MergeCommit, IInv, TypeOK
<1>2. Missed[t] \cap Touched(w) = {}
  BY <1>1 DEF Conflict, Missed
<1>3. db' = Overlay(db, w)
  BY <1>1, ApplyStore
<1>4. OpenSet' = OpenSet \ {t} /\ t \in OpenSet
  BY <1>1 DEF Close, OpenSet, IInv, TypeOK
<1>5. Missed' = [u \in Txns |-> IF u \in OpenSet' THEN Missed[u] \cup Touched(w)
                                ELSE IF u = t THEN {} ELSE Missed[u]]
  <2>1. \A u \in Txns : {k \in Keys : lastMod'[k] > txnBase[u]}
                         = {k \in Keys : lastMod[k] > txnBase[u]} \cup Touched(w)
    BY <1>1, ApplyMissed
  <2>2. /\ txnOpen' = [txnOpen EXCEPT ![t] = FALSE]
        /\ txnBase' = [txnBase EXCEPT ![t] = 0]
    BY <1>1 DEF Close
  <2>3. QED BY <2>1, <2>2 DEF Missed, OpenSet, IInv, TypeOK
<1>6. txnWrites' = [txnWrites EXCEPT ![t] = KV!EmptyWrites]
  BY <1>1 DEF Close, KV!EmptyWrites, EmptyWrites
<1>7. QED BY <1>2, <1>3, <1>4, <1>5, <1>6
          DEF KV!Commit, KV!Overlay, KV!Touched, Overlay, Touched, OpenSet, Missed

\* A step of a transaction's own writes is an abstract Stage of its new
\* write set.
LEMMA StageRefines ==
    ASSUME NEW t \in Txns, txnOpen[t], txnWrites' \in [Txns -> WriteSets],
           txnWrites' = [txnWrites EXCEPT ![t] = txnWrites'[t]],
           TxnUnchangedExcept(t)
    PROVE  KV!Stage(t, txnWrites'[t])
BY DEF KV!Stage, TxnUnchangedExcept

\* A step that changes none of what the mapping reads is an abstract stutter.
LEMMA Stutter ==
    ASSUME UNCHANGED <<db, lastMod, txnOpen, txnBase, txnWrites>>
    PROVE  [KV!Next]_KV!vars
BY DEF KV!vars

\* Each of the abstract actions, taken with a witness, is a step of KV!Next.
LEMMA AbstractSteps ==
    /\ \A w \in WriteSets : KV!Write(w) => [KV!Next]_KV!vars
    /\ \A t \in Txns : KV!Begin(t) \/ KV!Commit(t) \/ KV!Abort(t) => [KV!Next]_KV!vars
    /\ \A t \in Txns, w \in WriteSets : KV!Stage(t, w) => [KV!Next]_KV!vars
BY WriteSetsEq DEF KV!Next

\* The live-store writes: one Apply of a typed write set.
LEMMA LiveWrites ==
    ASSUME IInv,
           \/ WriteBatch
           \/ \E kind \in Kinds, b \in Bytes, v \in Vals : Insert(kind, b, v)
           \/ \E kind \in Kinds, b \in Bytes : Remove(kind, b)
           \/ \E kind \in Kinds, p \in Prefixes : RemoveByPrefix(kind, p)
    PROVE  \E w \in WriteSets : Apply(w) /\ UNCHANGED txnVars
<1>1. CASE WriteBatch
  BY <1>1 DEF WriteBatch, IInv, TypeOK
<1>2. CASE \E kind \in Kinds, b \in Bytes, v \in Vals : Insert(kind, b, v)
  BY <1>2, PutType, PhysKeyType DEF Insert, Values
<1>3. CASE \E kind \in Kinds, b \in Bytes : Remove(kind, b)
  BY <1>3, PutType, PhysKeyType DEF Remove, Values
<1>4. CASE \E kind \in Kinds, p \in Prefixes : RemoveByPrefix(kind, p)
  BY <1>4, DeletesType DEF RemoveByPrefix
<1>5. QED BY <1>1, <1>2, <1>3, <1>4

\* The steps of a transaction that change its own write set.
LEMMA TxnWrites ==
    ASSUME IInv, TypeOK', NEW t \in Txns,
           \/ TxnWriteBatch(t)
           \/ \E kind \in Kinds, b \in Bytes, v \in Vals : TxnInsert(t, kind, b, v)
           \/ \E kind \in Kinds, b \in Bytes : TxnRemove(t, kind, b)
           \/ \E kind \in Kinds, p \in Prefixes : TxnRemoveByPrefix(t, kind, p)
    PROVE  /\ txnOpen[t]
           /\ txnWrites' = [txnWrites EXCEPT ![t] = txnWrites'[t]]
           /\ TxnUnchangedExcept(t)
BY DEF TxnWriteBatch, TxnInsert, TxnRemove, TxnRemoveByPrefix, IInv, TypeOK

LEMMA NextRefines == IInv /\ [Next]_vars => [KV!Next]_KV!vars
<1> SUFFICES ASSUME IInv, [Next]_vars PROVE [KV!Next]_KV!vars
  OBVIOUS
<1>1. TypeOK'
  BY NextTypeOK DEF IInv
<1>2. CASE \/ WriteBatch
           \/ \E kind \in Kinds, b \in Bytes, v \in Vals : Insert(kind, b, v)
           \/ \E kind \in Kinds, b \in Bytes : Remove(kind, b)
           \/ \E kind \in Kinds, p \in Prefixes : RemoveByPrefix(kind, p)
  BY <1>2, LiveWrites, ApplyRefines, AbstractSteps
<1>3. ASSUME NEW t \in Txns, NEW i \in Ids, Transaction(t, i)
      PROVE  [KV!Next]_KV!vars
  BY <1>3, TransactionRefines, AbstractSteps
<1>4. ASSUME NEW t \in Txns, MergeCommit(t)
      PROVE  [KV!Next]_KV!vars
  BY <1>4, MergeCommitRefines, AbstractSteps
<1>5. ASSUME NEW t \in Txns, MergeConflict(t) \/ TxnDrop(t)
      PROVE  [KV!Next]_KV!vars
  BY <1>5, CloseRefines, AbstractSteps
<1>6. ASSUME NEW t \in Txns,
             \/ TxnWriteBatch(t)
             \/ \E kind \in Kinds, b \in Bytes, v \in Vals : TxnInsert(t, kind, b, v)
             \/ \E kind \in Kinds, b \in Bytes : TxnRemove(t, kind, b)
             \/ \E kind \in Kinds, p \in Prefixes : TxnRemoveByPrefix(t, kind, p)
      PROVE  [KV!Next]_KV!vars
  <2>1. /\ txnOpen[t]
        /\ txnWrites' = [txnWrites EXCEPT ![t] = txnWrites'[t]]
        /\ TxnUnchangedExcept(t)
    BY <1>1, <1>6, TxnWrites
  <2>2. KV!Stage(t, txnWrites'[t])
    BY <1>1, <2>1, StageRefines DEF TypeOK
  <2>3. txnWrites'[t] \in WriteSets
    BY <1>1 DEF TypeOK
  <2>4. QED BY <2>2, <2>3, AbstractSteps
<1>7. CASE \/ CreateBatch \/ \E i \in Ids : Snapshot(i)
           \/ \E kind \in Kinds, b \in Bytes :
                 (\E v \in Vals : InsertBatch(kind, b, v)) \/ RemoveBatch(kind, b)
           \/ \E t \in Txns :
                 \/ TxnCreateBatch(t)
                 \/ \E kind \in Kinds, b \in Bytes :
                       (\E v \in Vals : TxnInsertBatch(t, kind, b, v)) \/ TxnRemoveBatch(t, kind, b)
           \/ UNCHANGED vars
  <2>1. UNCHANGED <<db, lastMod, txnOpen, txnBase, txnWrites>>
    BY <1>7 DEF CreateBatch, Snapshot, InsertBatch, RemoveBatch, TxnCreateBatch,
                TxnInsertBatch, TxnRemoveBatch, TxnUnchangedExcept, txnVars, vars
  <2>2. QED BY <2>1, Stutter
<1>8. QED
  BY <1>2, <1>3, <1>4, <1>5, <1>6, <1>7 DEF Next, Merge

\* The adapter implements OptimisticKV (KVSpec): the live store and its
\* optimistic transactions behave as atomic writes and first-committer-wins
\* transactions, for every value of the constants.
THEOREM Refinement == Spec => KVSpec
<1>1. Init => KV!Init
  BY DEF Init, KV!Init, KV!EmptyWrites, EmptyWrites
<1>2. QED BY <1>1, NextRefines, IInvariant, PTL DEF Spec, KVSpec, KV!Spec
=============================================================================

----------------------- MODULE CommitmentEngine_proofs -----------------------
(***************************************************************************)
(* Proofs about CommitmentEngine, for every set of addresses, keys, values *)
(* and classes and every number of blocks.                                *)
(***************************************************************************)
EXTENDS CommitmentEngine, SequenceTheorems, WellFoundedInduction, TLAPS

-----------------------------------------------------------------------------
(* Lemmas about the trie update and the Vec of pushed pairs.               *)

\* A nonempty set of indices has a largest element.
LEMMA LastIndex ==
    ASSUME NEW n \in Nat, NEW M \in SUBSET (1..n), M # {}
    PROVE  \E j \in M : \A i \in M : i <= j
<1> DEFINE T == {n + 1 - j : j \in M}
<1>0. \A j \in M : n + 1 - j \in Nat
  OBVIOUS
<1>1. T \subseteq Nat /\ T # {}
  BY <1>0, Zenon
<1>2. PICK x \in T : \A y \in T : ~(<<y, x>> \in OpToRel(<, Nat))
  BY <1>1, WFMin, NatLessThanWellFounded
<1>3. PICK j \in M : x = n + 1 - j
  OBVIOUS
<1>4. ASSUME NEW i \in M PROVE ~(n + 1 - i < x)
  <2>1. n + 1 - i \in T
    OBVIOUS
  <2>2. x \in Nat /\ n + 1 - i \in Nat
    BY <1>1, <2>1
  <2>3. QED
    BY <1>2, <2>1, <2>2 DEF OpToRel
<1>5. QED
  BY <1>3, <1>4

\* update(s) over a trie: when every pair pushed for a key carries the same
\* value g[key], the order in which the tasks pushed them does not matter.
LEMMA InsertedAgrees ==
    ASSUME NEW D, NEW f, DOMAIN f = D, NEW s, Len(s) \in Nat, NEW g,
           \A i \in 1..Len(s) : s[i][2] = g[s[i][1]]
    PROVE  Inserted(f, s) = [x \in D |-> IF x \in Pushed(s) THEN g[x] ELSE f[x]]
<1>0. ASSUME NEW x \in D
      PROVE  Inserted(f, s)[x] = IF x \in Pushed(s) THEN g[x] ELSE f[x]
<2>1. CASE \E i \in 1..Len(s) : s[i][1] = x
  <3> DEFINE M == {i \in 1..Len(s) : s[i][1] = x}
  <3>0. Len(s) \in Nat /\ M \in SUBSET (1..Len(s)) /\ M # {}
    BY <2>1, Zenon
  <3>1. PICK j \in M : \A i \in M : i <= j
    BY <3>0, LastIndex
  <3>2. s[j][1] = x /\ \A i \in (j + 1)..Len(s) : s[i][1] # x
    BY <3>1
  <3>3. \E i \in 1..Len(s) : s[i][1] = x /\ \A k \in (i + 1)..Len(s) : s[k][1] # x
    BY <3>1, <3>2
  <3> DEFINE c == CHOOSE i \in 1..Len(s) :
                     s[i][1] = x /\ \A k \in (i + 1)..Len(s) : s[k][1] # x
  <3>4. c \in 1..Len(s) /\ s[c][1] = x
    BY <3>3
  <3>5. Inserted(f, s)[x] = s[c][2]
    BY <2>1 DEF Inserted
  <3>6. x \in Pushed(s)
    BY <2>1 DEF Pushed
  <3>7. QED
    BY <3>4, <3>5, <3>6
<2>2. CASE ~\E i \in 1..Len(s) : s[i][1] = x
  BY <2>2 DEF Inserted, Pushed
<2>3. QED
  BY <2>1, <2>2
<1>1. Inserted(f, s) = [x \in D |-> Inserted(f, s)[x]]
  BY DEF Inserted
<1>2. QED
  BY <1>0, <1>1

\* A task's push adds its key to the keys pushed.
LEMMA PushedAppend ==
    ASSUME NEW T, NEW s \in Seq(T), NEW e \in T
    PROVE  Pushed(Append(s, e)) = Pushed(s) \cup {e[1]}
<1>1. /\ Len(Append(s, e)) = Len(s) + 1
      /\ \A i \in 1..Len(s) : Append(s, e)[i] = s[i]
      /\ Append(s, e)[Len(s) + 1] = e
  BY AppendProperties
<1>2. Len(s) \in Nat
  OBVIOUS
<1>3. QED
  BY <1>1, <1>2 DEF Pushed

-----------------------------------------------------------------------------
(***************************************************************************)
(* The inductive invariant.  Within a block, each committed trie is the    *)
(* one of the block's start until its branch commits, and the sequential   *)
(* pass's after; storage_write's view holds the sequential storage of the *)
(* addresses it staged; every pair a par_bridge task pushed carries the   *)
(* value the sequential pass gives its key.                                *)
(***************************************************************************)
StagedView == [a \in Addrs |-> IF a \in staged THEN SeqStorage[a] ELSE pre.storage[a]]

StorageInv ==
    /\ cpc \in {"open", "storage"} => storageTrie = pre.storage /\ leafUpdates = <<>>
    /\ cpc = "storage" => staged \subseteq StorageAddrs /\ storageWork = StagedView
    /\ cpc \in {"leaves", "done", "panic"} => storageTrie = SeqStorage

GoodLeaf(p) ==
    /\ p[1] \in StorageAddrs
    /\ ~ClassHashPanics(p[1])
    /\ p[2] = LeafHash(p[1], Root(SeqStorage[p[1]]))

\* The leaf the sequential pass gives each contract with storage updates.
SeqLeaf == [a \in Addrs |-> LeafHash(a, Root(SeqStorage[a]))]

LeafInv == \A i \in 1..Len(leafUpdates) : GoodLeaf(leafUpdates[i])

ContractInv ==
    /\ cpc # "done" => contractTrie = pre.contracts
    /\ cpc = "done" => contractTrie = SeqContracts /\ cRoot = Root(SeqContracts)

GoodClass(p) == p[1] \in DeclaredClasses /\ p[2] = ClassLeaf(diff.declared[p[1]])

\* The leaf the sequential pass gives each declared class.
SeqClassLeaf == [c \in ClassHashes |-> ClassLeaf(diff.declared[c])]

ClassInv ==
    /\ kpc = "hash" => classTrie = pre.classes
    /\ kpc = "done" => classTrie = SeqClasses /\ kRoot = Root(SeqClasses)
    /\ \A i \in 1..Len(classUpdates) : GoodClass(classUpdates[i])

JoinInv ==
    outcome = "returned" =>
        cpc = "done" /\ kpc = "done" /\ stateRoot = CalculateStateRoot(cRoot, kRoot)

IInv == TypeOK /\ StorageInv /\ LeafInv /\ ContractInv /\ ClassInv /\ JoinInv

-----------------------------------------------------------------------------
(* Lemmas about the types of roots and leaves.                             *)

LEMMA RootStorageTyped ==
    ASSUME NEW f \in [SKeys -> SVals \cup {Zero}]
    PROVE  Root(f) \in StorageRoots
BY DEF Root, StorageRoots

LEMMA LeafTyped ==
    ASSUME diff \in Diffs, classOf \in [Addrs -> ClassHashes \cup {None}],
           NEW a \in Addrs, ~ClassHashPanics(a), NEW r \in StorageRoots
    PROVE  LeafHash(a, r) \in Leaves
<1>1. ClassHashOf(a) \in ClassHashes
  BY DEF ClassHashPanics, ClassHashOf, Diffs
<1>2. NonceOf(a) \in NonceVals \cup {Zero}
  BY DEF NonceOf, Diffs
<1>3. QED
  BY <1>1, <1>2 DEF LeafHash, Leaves

\* Within a block the diff, the runtime state and the tries of its start
\* are fixed, so is the sequential pass.
LEMMA FrozenBlock ==
    UNCHANGED <<diff, hasHash, classOf, pre>> =>
        /\ SeqStorage' = SeqStorage /\ SeqContracts' = SeqContracts
        /\ SeqClasses' = SeqClasses
        /\ StorageAddrs' = StorageAddrs /\ DeclaredClasses' = DeclaredClasses
        /\ \A a \in Addrs : ClassHashPanics(a)' = ClassHashPanics(a)
        /\ \A a \in Addrs, r \in StorageRoots : LeafHash(a, r)' = LeafHash(a, r)
        /\ \A p : GoodLeaf(p)' = GoodLeaf(p)
        /\ \A p : GoodClass(p)' = GoodClass(p)
BY DEF GoodLeaf, GoodClass, SeqStorage, SeqContracts, SeqClasses, StorageAddrs,
       DeclaredClasses, ClassHashPanics, LeafHash, ClassHashOf, NonceOf

\* A step that leaves the Vec of leaf pairs and the block alone keeps LeafInv.
LEMMA LeafInvKept ==
    ASSUME LeafInv, leafUpdates' = leafUpdates, UNCHANGED <<diff, hasHash, classOf, pre>>
    PROVE  LeafInv'
<1> SUFFICES ASSUME NEW i \in 1..Len(leafUpdates') PROVE GoodLeaf(leafUpdates[i])'
  BY DEF LeafInv
<1>1. PICK p : p = leafUpdates'[i]
  OBVIOUS
<1>2. GoodLeaf(p)
  BY <1>1 DEF LeafInv
<1>3. GoodLeaf(p)'
  BY <1>2, FrozenBlock
<1>4. QED
  BY <1>1, <1>3 DEF GoodLeaf

\* The same for the Vec of class pairs.
LEMMA ClassPairsKept ==
    ASSUME \A i \in 1..Len(classUpdates) : GoodClass(classUpdates[i]),
           classUpdates' = classUpdates, UNCHANGED <<diff, hasHash, classOf, pre>>
    PROVE  \A i \in 1..Len(classUpdates') : GoodClass(classUpdates[i])'
<1> SUFFICES ASSUME NEW i \in 1..Len(classUpdates') PROVE GoodClass(classUpdates[i])'
  OBVIOUS
<1>1. PICK p : p = classUpdates'[i]
  OBVIOUS
<1>2. GoodClass(p)
  BY <1>1
<1>3. GoodClass(p)'
  BY <1>2, FrozenBlock
<1>4. QED
  BY <1>1, <1>3 DEF GoodClass

LEMMA SeqStorageTyped ==
    ASSUME TypeOK PROVE SeqStorage \in StorageTries
BY DEF TypeOK, SeqStorage, StorageTries, Diffs, StorageDiffs

LEMMA SeqClassesTyped ==
    ASSUME TypeOK PROVE SeqClasses \in ClassTries
BY DEF TypeOK, SeqClasses, ClassTries, ClassLeaves, Diffs

LEMMA SeqContractsTyped ==
    ASSUME TypeOK, \A a \in StorageAddrs : ~ClassHashPanics(a)
    PROVE  SeqContracts \in ContractTries
<1>1. \A a \in StorageAddrs : LeafHash(a, Root(SeqStorage[a])) \in Leaves
  <2> SUFFICES ASSUME NEW a \in StorageAddrs
               PROVE  LeafHash(a, Root(SeqStorage[a])) \in Leaves
    OBVIOUS
  <2>1. SeqStorage[a] \in [SKeys -> SVals \cup {Zero}]
    BY SeqStorageTyped DEF StorageTries, StorageAddrs
  <2>2. QED
    BY <2>1, RootStorageTyped, LeafTyped DEF TypeOK, StorageAddrs
<1>2. QED
  BY <1>1 DEF TypeOK, SeqContracts, ContractTries, StorageAddrs

-----------------------------------------------------------------------------
LEMMA InitIInv == Init => IInv
<1> SUFFICES ASSUME Init PROVE IInv
  OBVIOUS
<1>1. TypeOK
  BY MaxBlockAssumption DEF Init, BranchesStart, TypeOK, ZeroTrie, Tries,
     StorageTries, ContractTries, ClassTries
<1>2. StorageInv /\ LeafInv /\ ContractInv /\ ClassInv /\ JoinInv
  BY DEF Init, BranchesStart, Tries, StorageInv, LeafInv, ContractInv,
     ClassInv, JoinInv
<1>3. QED
  BY <1>1, <1>2 DEF IInv

-----------------------------------------------------------------------------
(* contract_trie_root keeps the invariant, one step at a time.             *)

LEMMA COpenIInv ==
    ASSUME IInv, COpen PROVE IInv'
<1>0. FrozenBlock!2
  BY FrozenBlock DEF BranchVars, COpen
<1>1. storageTrie = pre.storage /\ pre.storage \in StorageTries
  BY DEF COpen, IInv, StorageInv, TypeOK
<1>2. StagedView' = pre.storage
  BY <1>1 DEF COpen, StagedView, StorageTries, BranchVars
<1>3. TypeOK'
  BY <1>1 DEF COpen, IInv, TypeOK, BranchVars
<1>4. StorageInv'
  BY <1>1, <1>2 DEF COpen, IInv, StorageInv, BranchVars
<1>5. (LeafInv /\ ContractInv /\ ClassInv /\ JoinInv)'
  BY <1>0 DEF COpen, IInv, StorageInv, LeafInv, ContractInv, ClassInv, JoinInv,
     BranchVars
<1>6. QED
  BY <1>3, <1>4, <1>5 DEF IInv

LEMMA CStageIInv ==
    ASSUME IInv, NEW a \in Addrs, CStage(a) PROVE IInv'
<1>0. FrozenBlock!2
  BY FrozenBlock DEF BranchVars, CStage
<1>1. /\ staged \subseteq StorageAddrs /\ storageWork = StagedView
      /\ a \in StorageAddrs /\ a \notin staged
  BY DEF CStage, IInv, StorageInv
<1>2. StagedStorage(storageWork, a) = [StagedView EXCEPT ![a] = SeqStorage[a]]
  BY <1>1 DEF StagedStorage, StagedView, SeqStorage, StorageAddrs
<1>3. StagedView' = [StagedView EXCEPT ![a] = SeqStorage[a]]
  BY <1>0, <1>1 DEF CStage, StagedView, BranchVars
<1>4. storageWork' \in StorageTries
  BY <1>1, <1>2, SeqStorageTyped DEF CStage, IInv, TypeOK, StorageTries, StagedView
<1>5. TypeOK'
  BY <1>4 DEF CStage, IInv, TypeOK, BranchVars
<1>6. StorageInv'
  BY <1>0, <1>1, <1>2, <1>3 DEF CStage, IInv, StorageInv, BranchVars
<1>7. (LeafInv /\ ContractInv /\ ClassInv /\ JoinInv)'
  BY <1>0 DEF CStage, IInv, StorageInv, LeafInv, ContractInv, ClassInv, JoinInv,
     BranchVars
<1>8. QED
  BY <1>5, <1>6, <1>7 DEF IInv

LEMMA CCommitStorageIInv ==
    ASSUME IInv, CCommitStorage PROVE IInv'
<1>0. FrozenBlock!2
  BY FrozenBlock DEF BranchVars, CCommitStorage
<1>1. storageWork = StagedView /\ staged = StorageAddrs
  BY DEF CCommitStorage, IInv, StorageInv
<1>2. StagedView = SeqStorage
  BY <1>1 DEF StagedView, SeqStorage, StorageAddrs
<1>3. storageTrie' = SeqStorage
  BY <1>1, <1>2 DEF CCommitStorage
<1>4. TypeOK'
  BY <1>3, SeqStorageTyped DEF CCommitStorage, IInv, TypeOK, BranchVars
<1>5. StorageInv'
  BY <1>0, <1>3 DEF CCommitStorage, StorageInv
<1>6. (LeafInv /\ ContractInv /\ ClassInv /\ JoinInv)'
  BY <1>0 DEF CCommitStorage, IInv, StorageInv, LeafInv, ContractInv, ClassInv,
     JoinInv, BranchVars
<1>7. QED
  BY <1>4, <1>5, <1>6 DEF IInv

LEMMA CLeafIInv ==
    ASSUME IInv, NEW a \in Addrs, CLeaf(a) PROVE IInv'
<1> DEFINE e == <<a, LeafHash(a, Root(storageTrie[a]))>>
<1>0. FrozenBlock!2
  BY FrozenBlock DEF BranchVars, CLeaf
<1>1. /\ storageTrie = SeqStorage /\ a \in StorageAddrs /\ ~ClassHashPanics(a)
      /\ leafUpdates' = Append(leafUpdates, e)
  BY DEF CLeaf, IInv, StorageInv
<1>2. e \in Addrs \X Leaves
  <2>1. storageTrie[a] \in [SKeys -> SVals \cup {Zero}]
    BY DEF IInv, TypeOK, StorageTries
  <2>2. QED
    BY <1>1, <2>1, RootStorageTyped, LeafTyped DEF IInv, TypeOK
<1>3. /\ leafUpdates \in Seq(Addrs \X Leaves)
      /\ Len(leafUpdates') = Len(leafUpdates) + 1
      /\ \A i \in 1..Len(leafUpdates) : leafUpdates'[i] = leafUpdates[i]
      /\ leafUpdates'[Len(leafUpdates) + 1] = e
      /\ leafUpdates' \in Seq(Addrs \X Leaves)
  BY <1>1, <1>2, AppendProperties DEF IInv, TypeOK
<1>4. TypeOK'
  BY <1>3 DEF CLeaf, IInv, TypeOK, BranchVars
<1>5. LeafInv'
  <2> SUFFICES ASSUME NEW i \in 1..Len(leafUpdates')
               PROVE  GoodLeaf(leafUpdates[i])'
    BY DEF LeafInv
  <2>1. PICK p : p = leafUpdates'[i]
    OBVIOUS
  <2>2. GoodLeaf(p)
    <3>1. CASE i \in 1..Len(leafUpdates)
      BY <1>3, <2>1, <3>1 DEF IInv, LeafInv
    <3>2. CASE i = Len(leafUpdates) + 1
      BY <1>1, <1>3, <2>1, <3>2 DEF GoodLeaf
    <3>3. QED
      BY <1>3, <3>1, <3>2
  <2>3. GoodLeaf(p)'
    BY <1>0, <2>2
  <2>4. QED
    BY <2>1, <2>3 DEF GoodLeaf
<1>6. (StorageInv /\ ContractInv /\ ClassInv /\ JoinInv)'
  BY <1>0, <1>1 DEF CLeaf, IInv, StorageInv, ContractInv, ClassInv, JoinInv,
     BranchVars
<1>7. QED
  BY <1>4, <1>5, <1>6 DEF IInv

LEMMA CLeafPanicIInv ==
    ASSUME IInv, NEW a \in Addrs, CLeafPanic(a) PROVE IInv'
<1>0. FrozenBlock!2
  BY FrozenBlock DEF BranchVars, CLeafPanic
<1>1. TypeOK'
  BY DEF CLeafPanic, IInv, TypeOK, BranchVars
<1>2. (StorageInv /\ LeafInv /\ ContractInv /\ ClassInv /\ JoinInv)'
  BY <1>0 DEF CLeafPanic, IInv, StorageInv, LeafInv, ContractInv, ClassInv,
     JoinInv, BranchVars
<1>3. QED
  BY <1>1, <1>2 DEF IInv

LEMMA CUpdateIInv ==
    ASSUME IInv, CUpdate PROVE IInv'
<1>0. FrozenBlock!2
  BY FrozenBlock DEF BranchVars, CUpdate
<1>1. /\ contractTrie = pre.contracts /\ Pushed(leafUpdates) = StorageAddrs
      /\ leafUpdates \in Seq(Addrs \X Leaves)
      /\ DOMAIN pre.contracts = Addrs
  BY DEF CUpdate, IInv, ContractInv, TypeOK, ContractTries
<1>2. \A i \in 1..Len(leafUpdates) : leafUpdates[i][2] = SeqLeaf[leafUpdates[i][1]]
  BY DEF IInv, LeafInv, GoodLeaf, StorageAddrs, SeqLeaf
<1>3. Inserted(contractTrie, leafUpdates) = SeqContracts
  <2>0. Len(leafUpdates) \in Nat
    BY <1>1
  <2>1. Inserted(pre.contracts, leafUpdates)
          = [x \in Addrs |-> IF x \in Pushed(leafUpdates) THEN SeqLeaf[x]
                                                            ELSE pre.contracts[x]]
    BY <1>1, <1>2, <2>0, InsertedAgrees
  <2>2. QED
    BY <1>1, <2>1 DEF SeqContracts, StorageAddrs, SeqLeaf
<1>4. contractTrie' = SeqContracts /\ cRoot' = Root(SeqContracts)
  BY <1>3 DEF CUpdate
<1>5. \A a \in StorageAddrs : ~ClassHashPanics(a)
  <2> SUFFICES ASSUME NEW a \in StorageAddrs PROVE ~ClassHashPanics(a)
    OBVIOUS
  <2>1. PICK i \in 1..Len(leafUpdates) : leafUpdates[i][1] = a
    BY <1>1 DEF Pushed
  <2>2. QED
    BY <2>1 DEF IInv, LeafInv, GoodLeaf
<1>6. SeqContracts \in ContractTries
  BY <1>5, SeqContractsTyped DEF IInv
<1>7. TypeOK'
  BY <1>4, <1>6 DEF CUpdate, IInv, TypeOK, BranchVars, Root
<1>8. (StorageInv /\ LeafInv /\ ContractInv /\ ClassInv /\ JoinInv)'
  BY <1>0, <1>4 DEF CUpdate, IInv, StorageInv, LeafInv, ContractInv, ClassInv,
     JoinInv, BranchVars
<1>9. QED
  BY <1>7, <1>8 DEF IInv

-----------------------------------------------------------------------------
(* class_trie_root keeps the invariant.                                    *)

LEMMA KHashIInv ==
    ASSUME IInv, NEW c \in ClassHashes, KHash(c) PROVE IInv'
<1> DEFINE e == <<c, ClassLeaf(diff.declared[c])>>
<1>0. FrozenBlock!2
  BY FrozenBlock DEF BranchVars, KHash
<1>1. /\ c \in DeclaredClasses
      /\ classUpdates' = Append(classUpdates, e)
  BY DEF KHash
<1>2. e \in ClassHashes \X ClassLeaves
  BY <1>1 DEF IInv, TypeOK, DeclaredClasses, Diffs, ClassLeaves
<1>3. /\ classUpdates \in Seq(ClassHashes \X ClassLeaves)
      /\ Len(classUpdates') = Len(classUpdates) + 1
      /\ \A i \in 1..Len(classUpdates) : classUpdates'[i] = classUpdates[i]
      /\ classUpdates'[Len(classUpdates) + 1] = e
      /\ classUpdates' \in Seq(ClassHashes \X ClassLeaves)
  BY <1>1, <1>2, AppendProperties DEF IInv, TypeOK
<1>4. TypeOK'
  BY <1>3 DEF KHash, IInv, TypeOK, BranchVars
<1>5. \A i \in 1..Len(classUpdates') : GoodClass(classUpdates[i])'
  <2> SUFFICES ASSUME NEW i \in 1..Len(classUpdates')
               PROVE  GoodClass(classUpdates[i])'
    OBVIOUS
  <2>1. PICK p : p = classUpdates'[i]
    OBVIOUS
  <2>2. GoodClass(p)
    <3>1. CASE i \in 1..Len(classUpdates)
      BY <1>3, <2>1, <3>1 DEF IInv, ClassInv
    <3>2. CASE i = Len(classUpdates) + 1
      BY <1>1, <1>3, <2>1, <3>2 DEF GoodClass
    <3>3. QED
      BY <1>3, <3>1, <3>2
  <2>3. GoodClass(p)'
    BY <1>0, <2>2
  <2>4. QED
    BY <2>1, <2>3 DEF GoodClass
<1>6. ClassInv'
  BY <1>0, <1>5 DEF KHash, IInv, ClassInv, BranchVars
<1>7. (StorageInv /\ ContractInv /\ JoinInv)'
  BY <1>0 DEF KHash, IInv, StorageInv, ContractInv, JoinInv, BranchVars, StagedView
<1>9. LeafInv'
  BY LeafInvKept DEF KHash, IInv, BranchVars
<1>8. QED
  BY <1>4, <1>6, <1>7, <1>9 DEF IInv

LEMMA KCommitIInv ==
    ASSUME IInv, KCommit PROVE IInv'
<1>0. FrozenBlock!2
  BY FrozenBlock DEF BranchVars, KCommit
<1>1. /\ classTrie = pre.classes /\ Pushed(classUpdates) = DeclaredClasses
      /\ classUpdates \in Seq(ClassHashes \X ClassLeaves)
      /\ DOMAIN pre.classes = ClassHashes
  BY DEF KCommit, IInv, ClassInv, TypeOK, ClassTries
<1>2. \A i \in 1..Len(classUpdates) :
         classUpdates[i][2] = SeqClassLeaf[classUpdates[i][1]]
  BY DEF IInv, ClassInv, GoodClass, DeclaredClasses, SeqClassLeaf
<1>3. Inserted(classTrie, classUpdates) = SeqClasses
  <2>0. Len(classUpdates) \in Nat
    BY <1>1
  <2>1. Inserted(pre.classes, classUpdates)
          = [x \in ClassHashes |-> IF x \in Pushed(classUpdates) THEN SeqClassLeaf[x]
                                                                 ELSE pre.classes[x]]
    BY <1>1, <1>2, <2>0, InsertedAgrees
  <2>2. QED
    BY <1>1, <2>1 DEF SeqClasses, DeclaredClasses, SeqClassLeaf
<1>4. classTrie' = SeqClasses /\ kRoot' = Root(SeqClasses)
  BY <1>3 DEF KCommit
<1>5. SeqClasses \in ClassTries
  BY SeqClassesTyped DEF IInv
<1>6. TypeOK'
  BY <1>4, <1>5 DEF KCommit, IInv, TypeOK, BranchVars, Root
<1>7. (StorageInv /\ ContractInv /\ JoinInv)'
  BY <1>0, <1>4 DEF KCommit, IInv, StorageInv, ContractInv, JoinInv, BranchVars, StagedView
<1>9. LeafInv'
  BY LeafInvKept DEF KCommit, IInv, BranchVars
<1>10. (\A i \in 1..Len(classUpdates) : GoodClass(classUpdates[i]))'
  BY ClassPairsKept DEF KCommit, IInv, ClassInv, BranchVars
<1>11. ClassInv'
  BY <1>0, <1>4, <1>10 DEF KCommit, ClassInv
<1>8. QED
  BY <1>6, <1>7, <1>9, <1>11 DEF IInv

-----------------------------------------------------------------------------
(* The join and the next block.                                            *)

\* The steps of the join leave every trie and Vec alone.
LEMMA JoinSteps ==
    ASSUME IInv, Join \/ JoinPanic \/ UNCHANGED vars,
           outcome' = "returned" => stateRoot' = CalculateStateRoot(cRoot, kRoot)
    PROVE  IInv'
<1>1. UNCHANGED <<diff, hasHash, classOf, pre>> /\ UNCHANGED BranchState
  BY DEF Join, JoinPanic, vars, BranchState
<1>2. FrozenBlock!2
  BY <1>1, FrozenBlock
<1>3. TypeOK'
  BY <1>1 DEF Join, JoinPanic, vars, IInv, TypeOK, BranchState
<1>4. LeafInv'
  BY <1>1, LeafInvKept DEF IInv, BranchState
<1>5. (\A i \in 1..Len(classUpdates) : GoodClass(classUpdates[i]))'
  BY <1>1, ClassPairsKept DEF IInv, ClassInv, BranchState
<1>6. (StorageInv /\ ContractInv /\ ClassInv)'
  BY <1>1, <1>2, <1>5 DEF IInv, StorageInv, ContractInv, ClassInv, BranchState,
     StagedView
<1>7. JoinInv'
  BY <1>1 DEF Join, JoinPanic, vars, IInv, JoinInv, BranchState
<1>8. QED
  BY <1>3, <1>4, <1>6, <1>7 DEF IInv

LEMMA NextBlockIInv ==
    ASSUME IInv, NextBlock PROVE IInv'
<1>1. pre' = Tries /\ storageTrie' = storageTrie /\ contractTrie' = contractTrie
      /\ classTrie' = classTrie
  BY DEF NextBlock
<1>2. TypeOK'
  <2>1. block' \in 1..MaxBlock
    BY MaxBlockAssumption DEF NextBlock, IInv, TypeOK
  <2>2. /\ classOf' \in [Addrs -> ClassHashes \cup {None}]
        /\ nonceOf' \in [Addrs -> NonceVals \cup {Zero}]
    BY DEF NextBlock, IInv, TypeOK, Diffs
  <2>3. pre' \in [storage : StorageTries, contracts : ContractTries,
                  classes : ClassTries]
    BY <1>1 DEF IInv, TypeOK, Tries
  <2>4. /\ leafUpdates' \in Seq(Addrs \X Leaves)
        /\ classUpdates' \in Seq(ClassHashes \X ClassLeaves)
    BY EmptySeq DEF NextBlock
  <2>5. QED
    BY <1>1, <2>1, <2>2, <2>3, <2>4 DEF NextBlock, IInv, TypeOK
<1>3. Len(leafUpdates') = 0 /\ Len(classUpdates') = 0
  BY DEF NextBlock
<1>4. LeafInv'
  BY <1>3 DEF LeafInv
<1>5. (StorageInv /\ ContractInv /\ ClassInv /\ JoinInv)'
  BY <1>1, <1>3 DEF NextBlock, Tries, StorageInv, ContractInv, ClassInv, JoinInv
<1>6. QED
  BY <1>2, <1>4, <1>5 DEF IInv

LEMMA NextIInv == IInv /\ [Next]_vars => IInv'
<1> SUFFICES ASSUME IInv, [Next]_vars PROVE IInv'
  OBVIOUS
<1>1. CASE COpen
  BY <1>1, COpenIInv
<1>2. CASE CCommitStorage
  BY <1>2, CCommitStorageIInv
<1>3. CASE CUpdate
  BY <1>3, CUpdateIInv
<1>4. CASE KCommit
  BY <1>4, KCommitIInv
<1>5. ASSUME NEW a \in Addrs, CStage(a) \/ CLeaf(a) \/ CLeafPanic(a) PROVE IInv'
  BY <1>5, CStageIInv, CLeafIInv, CLeafPanicIInv
<1>6. ASSUME NEW c \in ClassHashes, KHash(c) PROVE IInv'
  BY <1>6, KHashIInv
<1>7. CASE Join
  BY <1>7, JoinSteps DEF Join
<1>8. CASE JoinPanic \/ Finished \/ UNCHANGED vars
  <2>1. JoinPanic \/ UNCHANGED vars
    BY <1>8 DEF Finished
  <2>2. outcome' = "returned" => stateRoot' = CalculateStateRoot(cRoot, kRoot)
    BY <2>1 DEF JoinPanic, vars, IInv, JoinInv
  <2>3. QED
    BY <2>1, <2>2, JoinSteps
<1>9. CASE NextBlock
  BY <1>9, NextBlockIInv
<1>10. QED
  BY <1>1, <1>2, <1>3, <1>4, <1>5, <1>6, <1>7, <1>8, <1>9 DEF Next

-----------------------------------------------------------------------------
\* update_state_root keeps every reachable state inductive-invariant, for
\* every set of addresses, keys, values and classes and every number of
\* blocks, whatever the interleaving of the two rayon::join branches and the
\* order in which the par_bridge tasks finish.
THEOREM Invariant == Spec => []IInv
BY InitIInv, NextIInv, PTL DEF Spec

\* The tries, the two Vecs and the roots stay in their types: every leaf the
\* leaf-hash tasks push is a Pedersen leaf, every class leaf a Poseidon one.
THEOREM TypeCorrect == Spec => []TypeOK
<1>1. IInv => TypeOK
  BY DEF IInv
<1>2. QED
  BY <1>1, Invariant, PTL

\* StateRootIsSequential for every instance: the root update_state_root
\* returns, and the storage tries it commits, are those of one sequential
\* pass over the block's diff, whatever order the parallel tasks run in.
THEOREM StateRootSequential == Spec => []StateRootIsSequential
<1>1. IInv => StateRootIsSequential
  <2> SUFFICES ASSUME IInv, outcome = "returned"
               PROVE  /\ storageTrie = SeqStorage
                      /\ stateRoot = CalculateStateRoot(Root(SeqContracts),
                                                        Root(SeqClasses))
    BY DEF StateRootIsSequential
  <2>1. cpc = "done" /\ kpc = "done" /\ stateRoot = CalculateStateRoot(cRoot, kRoot)
    BY DEF IInv, JoinInv
  <2>2. storageTrie = SeqStorage /\ cRoot = Root(SeqContracts)
        /\ kRoot = Root(SeqClasses)
    BY <2>1 DEF IInv, StorageInv, ContractInv, ClassInv
  <2>3. QED
    BY <2>1, <2>2
<1>2. QED
  BY <1>1, Invariant, PTL

====

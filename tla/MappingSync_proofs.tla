------------------------- MODULE MappingSync_proofs -------------------------
(***************************************************************************)
(* Proofs about MappingSync, for every block tree, sync_from and limit.    *)
(***************************************************************************)
EXTENDS MappingSync, SequenceTheorems, FiniteSetTheorems,
        WellFoundedInduction, TLAPS


(***************************************************************************)
(* Ancestry, without recursion: a parent chain walks header.parent_hash    *)
(* from its first block, never past the genesis.                           *)
(***************************************************************************)
IsChain(c) ==
    /\ c # <<>>
    /\ \A j \in 1..Len(c) - 1 : c[j] # Genesis /\ c[j + 1] = Parent[c[j]]

\* a is b or one of its ancestors.
AncestorOrSelf(a, b) ==
    \E c \in Seq(Blocks) : IsChain(c) /\ c[1] = b /\ c[Len(c)] = a

\* The backend imports a block only after its parent: every block on the
\* parent chain of an imported block is imported.
ImportedClosed ==
    \A c \in Seq(Blocks) : IsChain(c) /\ c[1] \in imported =>
        \A j \in 1..Len(c) : c[j] \in imported

\* No tip of a stack is an ancestor of, or the same block as, a tip above
\* it: a tip is replaced by its parent only once popped, so a parent is
\* only ever pushed above tips of other branches.
Ordered(s) ==
    \A j, k \in 1..Len(s) : j < k => ~AncestorOrSelf(s[j], s[k])

IInv == TypeOK /\ ImportedClosed /\ Ordered(tips)

-----------------------------------------------------------------------------
(* Lemmas about parent chains.                                             *)

LEMMA ChainSelf ==
    ASSUME NEW a \in Blocks
    PROVE  AncestorOrSelf(a, a)
<1>1. <<a>> \in Seq(Blocks) /\ IsChain(<<a>>)
  BY DEF IsChain
<1>2. QED
  BY <1>1 DEF AncestorOrSelf

\* The chain from a block's parent, preceded by the block, is a chain.
LEMMA ChainCons ==
    ASSUME NEW c \in Seq(Blocks), IsChain(c),
           NEW b \in Blocks \ {Genesis}, c[1] = Parent[b]
    PROVE  /\ <<b>> \o c \in Seq(Blocks)
           /\ IsChain(<<b>> \o c)
           /\ (<<b>> \o c)[1] = b
           /\ (<<b>> \o c)[Len(<<b>> \o c)] = c[Len(c)]
<1> DEFINE d == <<b>> \o c
<1>1. /\ d \in Seq(Blocks)
      /\ Len(d) = 1 + Len(c)
      /\ \A i \in 1..1 + Len(c) : d[i] = IF i <= 1 THEN b ELSE c[i - 1]
  BY ConcatProperties
<1>2. Len(c) \in Nat \ {0}
  BY EmptySeq DEF IsChain
<1>3. \A j \in 1..Len(d) - 1 : d[j] # Genesis /\ d[j + 1] = Parent[d[j]]
  <2> SUFFICES ASSUME NEW j \in 1..Len(d) - 1
               PROVE  d[j] # Genesis /\ d[j + 1] = Parent[d[j]]
    OBVIOUS
  <2>1. CASE j = 1
    BY <1>1, <1>2, <2>1
  <2>2. CASE j > 1
    <3>1. j - 1 \in 1..Len(c) - 1
      BY <1>1, <1>2, <2>2
    <3>2. c[j - 1] # Genesis /\ c[j] = Parent[c[j - 1]]
      BY <3>1 DEF IsChain
    <3>3. QED
      BY <1>1, <1>2, <2>2, <3>2
  <2>3. QED
    BY <2>1, <2>2
<1>4. QED
  BY <1>1, <1>2, <1>3 DEF IsChain

\* A chain without its first block is a chain from the first block's parent.
LEMMA ChainTail ==
    ASSUME NEW c \in Seq(Blocks), IsChain(c), Len(c) >= 2
    PROVE  /\ SubSeq(c, 2, Len(c)) \in Seq(Blocks)
           /\ IsChain(SubSeq(c, 2, Len(c)))
           /\ SubSeq(c, 2, Len(c))[1] = c[2]
           /\ Len(SubSeq(c, 2, Len(c))) = Len(c) - 1
           /\ \A i \in 1..Len(c) - 1 : SubSeq(c, 2, Len(c))[i] = c[i + 1]
<1> DEFINE d == SubSeq(c, 2, Len(c))
<1>1. \A i \in 2..Len(c) : c[i] \in Blocks
  BY ElementOfSeq
<1>2. /\ d \in Seq(Blocks)
      /\ Len(d) = Len(c) - 1
      /\ \A i \in 1..Len(c) - 1 : d[i] = c[i + 1]
  BY <1>1, SubSeqProperties
<1>3. \A j \in 1..Len(d) - 1 : d[j] # Genesis /\ d[j + 1] = Parent[d[j]]
  <2> SUFFICES ASSUME NEW j \in 1..Len(d) - 1
               PROVE  d[j] # Genesis /\ d[j + 1] = Parent[d[j]]
    OBVIOUS
  <2>1. j + 1 \in 1..Len(c) - 1
    BY <1>2
  <2>2. QED
    BY <1>2, <2>1 DEF IsChain
<1>4. d # <<>>
  <2>1. Len(d) # 0
    BY <1>2
  <2>2. QED
    BY <2>1
<1>5. QED
  BY <1>2, <1>3, <1>4 DEF IsChain

\* An ancestor of a block's parent is an ancestor of the block.
LEMMA AncestorOfParent ==
    ASSUME NEW a, NEW b \in Blocks \ {Genesis}, AncestorOrSelf(a, Parent[b])
    PROVE  AncestorOrSelf(a, b)
<1>1. PICK c \in Seq(Blocks) : IsChain(c) /\ c[1] = Parent[b] /\ c[Len(c)] = a
  BY DEF AncestorOrSelf
<1>2. QED
  BY <1>1, ChainCons DEF AncestorOrSelf

-----------------------------------------------------------------------------
(* Lemmas about the imported blocks, the leaves and the pop loop.          *)

\* Importing a block whose parent is imported keeps the parent chains of
\* imported blocks inside the imported set.
LEMMA ImportKeepsClosed ==
    ASSUME TypeOK, ImportedClosed, NEW b \in Blocks, Import(b)
    PROVE  ImportedClosed'
<1> SUFFICES ASSUME NEW c \in Seq(Blocks), IsChain(c), c[1] \in imported',
                    NEW j \in 1..Len(c)
             PROVE  c[j] \in imported'
  BY DEF ImportedClosed
<1>1. imported' = imported \cup {b} /\ b \notin imported /\ Parent[b] \in imported
  BY DEF Import
<1>2. CASE c[1] \in imported
  BY <1>1, <1>2 DEF ImportedClosed
<1>3. CASE c[1] = b /\ j = 1
  BY <1>1, <1>3
<1>4. CASE c[1] = b /\ j > 1
  <2>1. b # Genesis
    BY <1>1 DEF TypeOK
  <2>2. Len(c) >= 2 /\ c[2] = Parent[b]
    BY <1>4, <2>1 DEF IsChain
  <2> DEFINE d == SubSeq(c, 2, Len(c))
  <2>3. /\ d \in Seq(Blocks) /\ IsChain(d) /\ d[1] = c[2]
        /\ Len(d) = Len(c) - 1
        /\ \A i \in 1..Len(c) - 1 : d[i] = c[i + 1]
    BY <2>2, ChainTail
  <2>4. d[1] \in imported
    BY <1>1, <2>2, <2>3
  <2>5. \A i \in 1..Len(d) : d[i] \in imported
    BY <2>3, <2>4 DEF ImportedClosed
  <2>6. j - 1 \in 1..Len(d) /\ d[j - 1] = c[j]
    BY <1>4, <2>3
  <2>7. QED
    BY <1>1, <2>5, <2>6
<1>5. QED
  BY <1>1, <1>2, <1>3, <1>4

\* No leaf of the block tree is an ancestor of another leaf.
LEMMA LeavesAntichain ==
    ASSUME TypeOK, ImportedClosed,
           NEW l1 \in Leaves, NEW l2 \in Leaves, l1 # l2
    PROVE  ~AncestorOrSelf(l1, l2)
<1> SUFFICES ASSUME AncestorOrSelf(l1, l2) PROVE FALSE
  OBVIOUS
<1>1. PICK c \in Seq(Blocks) : IsChain(c) /\ c[1] = l2 /\ c[Len(c)] = l1
  BY DEF AncestorOrSelf
<1>2. Len(c) >= 2
  BY <1>1, EmptySeq DEF IsChain
<1>3. c[Len(c) - 1] \in imported
  BY <1>1, <1>2 DEF ImportedClosed, Leaves
<1>4. c[Len(c) - 1] # Genesis /\ c[Len(c)] = Parent[c[Len(c) - 1]]
  BY <1>1, <1>2 DEF IsChain
<1>5. QED
  BY <1>1, <1>3, <1>4 DEF Leaves

\* The stack sync_one_block pops from holds imported blocks, ordered.
LEMMA CandidatesOrdered ==
    ASSUME IInv, NEW s \in Candidates
    PROVE  s \in Seq(imported) /\ Ordered(s)
<1>1. CASE tips # <<>>
  BY <1>1 DEF Candidates, IInv, TypeOK
<1>2. CASE tips = <<>>
  <2> DEFINE n == Cardinality(Leaves)
  <2>1. Leaves \subseteq imported /\ imported \subseteq Blocks
    BY DEF Leaves, IInv, TypeOK
  <2>2. IsFiniteSet(Leaves) /\ n \in Nat
    BY <2>1, BlockTreeAssumption, FS_Subset, FS_CardinalityType
  <2>3. /\ s \in [1..n -> Leaves]
        /\ \A i, j \in 1..n : i # j => s[i] # s[j]
    BY <1>2 DEF Candidates, SetToSeqs
  <2>4. s \in Seq(imported) /\ Len(s) = n
    BY <2>1, <2>2, <2>3
  <2>5. Ordered(s)
    BY <2>3, <2>4, LeavesAntichain DEF Ordered, IInv
  <2>6. QED
    BY <2>4, <2>5
<1>3. QED
  BY <1>1, <1>2

\* The pop loop stops at a tip of the stack: the topmost one whose
\* fetch_header is not None exists once any does.
LEMMA StopAtStops ==
    ASSUME NEW s \in Seq(Blocks), Stops(s) # {}
    PROVE  StopAt(s) \in Stops(s)
<1> DEFINE T == {Len(s) + 1 - j : j \in Stops(s)}
<1>1. T \subseteq Nat /\ T # {}
  BY DEF Stops
<1>2. PICK x \in T : \A y \in T : ~(<<y, x>> \in OpToRel(<, Nat))
  BY <1>1, WFMin, NatLessThanWellFounded
<1>3. \E j \in Stops(s) : \A i \in Stops(s) : i <= j
  <2>1. PICK j \in Stops(s) : x = Len(s) + 1 - j
    OBVIOUS
  <2>2. ASSUME NEW i \in Stops(s) PROVE ~(Len(s) + 1 - i < x)
    <3>1. Len(s) + 1 - i \in T
      OBVIOUS
    <3>2. x \in Nat /\ Len(s) + 1 - i \in Nat
      BY <1>1, <3>1
    <3>3. QED
      BY <1>2, <3>1, <3>2 DEF OpToRel
  <2>3. QED
    BY <2>1, <2>2 DEF Stops
<1>4. QED
  BY <1>3 DEF StopAt

-----------------------------------------------------------------------------
(* Lemmas about the stack written back.                                    *)

\* The tips below the popped ones keep their order.
LEMMA OrderedPrefix ==
    ASSUME NEW S, NEW s \in Seq(S), Ordered(s), NEW n \in 0..Len(s)
    PROVE  SubSeq(s, 1, n) \in Seq(S) /\ Ordered(SubSeq(s, 1, n))
<1>1. \A i \in 1..n : s[i] \in S
  BY ElementOfSeq
<1>2. /\ SubSeq(s, 1, n) \in Seq(S)
      /\ Len(SubSeq(s, 1, n)) = n
      /\ \A i \in 1..n : SubSeq(s, 1, n)[i] = s[i]
  BY <1>1, SubSeqProperties
<1>3. QED
  BY <1>2 DEF Ordered

\* Replacing the popped header by its parent keeps the stack ordered: a
\* lower tip that were an ancestor of the parent would be one of the header.
LEMMA OrderedPush ==
    ASSUME NEW s \in Seq(Blocks), Ordered(s),
           NEW k \in 1..Len(s), s[k] # Genesis
    PROVE  Ordered(Append(SubSeq(s, 1, k - 1), Parent[s[k]]))
<1> DEFINE r == SubSeq(s, 1, k - 1)
           p == Parent[s[k]]
<1>1. s[k] \in Blocks \ {Genesis}
  BY ElementOfSeq
<1>2. /\ r \in Seq(Blocks) /\ Ordered(r)
      /\ Len(r) = k - 1
      /\ \A i \in 1..k - 1 : r[i] = s[i]
  <2>1. \A i \in 1..k - 1 : s[i] \in Blocks
    BY ElementOfSeq
  <2>2. QED
    BY <2>1, OrderedPrefix, SubSeqProperties
<1>3. p \in Blocks
  BY <1>1, BlockTreeAssumption
<1>4. /\ Len(Append(r, p)) = k
      /\ \A i \in 1..k - 1 : Append(r, p)[i] = s[i]
      /\ Append(r, p)[k] = p
  BY <1>2, <1>3, AppendProperties
<1>5. ASSUME NEW j \in 1..k - 1 PROVE ~AncestorOrSelf(s[j], p)
  <2>1. ~AncestorOrSelf(s[j], s[k])
    BY DEF Ordered
  <2>2. QED
    BY <1>1, <2>1, AncestorOfParent
<1>6. ASSUME NEW j \in 1..k, NEW m \in 1..k, j < m
      PROVE  ~AncestorOrSelf(Append(r, p)[j], Append(r, p)[m])
  <2>1. CASE m < k
    <3>1. Append(r, p)[j] = s[j] /\ Append(r, p)[m] = s[m]
      BY <1>4, <1>6, <2>1
    <3>2. QED
      BY <3>1, <1>6, <2>1 DEF Ordered
  <2>2. CASE m = k
    BY <1>4, <1>5, <1>6, <2>2
  <2>3. QED
    BY <1>6, <2>1, <2>2
<1>7. QED
  BY <1>4, <1>6 DEF Ordered

-----------------------------------------------------------------------------
(* The inductive invariant.                                                *)

LEMMA SeqMono ==
    ASSUME NEW S, NEW T, S \subseteq T, NEW s \in Seq(S)
    PROVE  s \in Seq(T)
<1>1. Len(s) \in Nat /\ s \in [1..Len(s) -> S]
  BY LenProperties
<1>2. QED
  BY <1>1

\* The parent of an imported block other than the genesis is imported.
LEMMA ParentImported ==
    ASSUME TypeOK, ImportedClosed, NEW h \in imported \ {Genesis}
    PROVE  Parent[h] \in imported
<1> DEFINE ch == <<h, Parent[h]>>
<1>1. h \in Blocks /\ Parent[h] \in Blocks
  BY BlockTreeAssumption DEF TypeOK
<1>2. ch \in Seq(Blocks) /\ IsChain(ch) /\ ch[1] = h /\ Len(ch) = 2 /\ ch[2] = Parent[h]
  BY <1>1 DEF IsChain
<1>3. \A j \in 1..Len(ch) : ch[j] \in imported
  BY <1>2 DEF ImportedClosed
<1>4. QED
  BY <1>2, <1>3

\* What sync_one_block finds when the pop loop stops at a header.
LEMMA HeaderFacts ==
    ASSUME IInv, NEW s \in Candidates, Found(s)
    PROVE  /\ s \in Seq(Blocks) /\ Ordered(s)
           /\ StopAt(s) \in 1..Len(s)
           /\ Header(s) = s[StopAt(s)]
           /\ Header(s) \in imported /\ Header(s) \notin synced
           /\ Rest(s) \in Seq(imported)
<1>1. s \in Seq(imported) /\ Ordered(s)
  BY CandidatesOrdered
<1>2. imported \subseteq Blocks
  BY DEF IInv, TypeOK
<1>3. s \in Seq(Blocks)
  BY <1>1, <1>2, SeqMono
<1>4. StopAt(s) \in Stops(s)
  BY <1>3, StopAtStops DEF Found
<1>5. StopAt(s) \in 1..Len(s) /\ Fetch(s[StopAt(s)]) = "some"
  BY <1>4 DEF Stops, Found
<1>6. s[StopAt(s)] \in imported /\ s[StopAt(s)] \notin synced
  BY <1>5 DEF Fetch
<1>7. Rest(s) \in Seq(imported)
  BY <1>1, <1>5, OrderedPrefix DEF Rest
<1>8. QED
  BY <1>1, <1>3, <1>5, <1>6, <1>7 DEF Header

LEMMA InitIInv == Init => IInv
<1> SUFFICES ASSUME Init PROVE IInv
  OBVIOUS
<1>1. TypeOK
  <2>1. <<>> \in Seq(imported)
    BY EmptySeq
  <2>2. imported = {Genesis} /\ Genesis \in Blocks
    BY BlockTreeAssumption DEF Init
  <2>3. iter \in 0..Limit
    BY SyncParamsAssumption DEF Init
  <2>7. active \in BOOLEAN /\ syncedAny \in BOOLEAN
    BY DEF Init
  <2>4. best \in imported /\ synced \subseteq imported /\ tips \in Seq(imported)
    BY <2>1 DEF Init
  <2>5. operating \in imported \cup {NoBlock} /\ strategy \in Strategies
    BY DEF Init
  <2>6. QED
    BY <2>2, <2>3, <2>4, <2>5, <2>7 DEF TypeOK
<1>2. ImportedClosed
  <2> SUFFICES ASSUME NEW c \in Seq(Blocks), IsChain(c), c[1] \in imported,
                      NEW j \in 1..Len(c)
               PROVE  c[j] \in imported
    BY DEF ImportedClosed
  <2>1. c[1] = Genesis
    BY DEF Init
  <2>2. Len(c) = 1
    <3>1. Len(c) \in Nat \ {0}
      BY EmptySeq DEF IsChain
    <3>2. ~(Len(c) >= 2)
      BY <2>1, <3>1 DEF IsChain
    <3>3. PICK n \in Nat \ {0} : n = Len(c) /\ ~(n >= 2)
      BY <3>1, <3>2
    <3>4. QED
      BY <3>3
  <2>3. QED
    BY <2>1, <2>2 DEF Init
<1>3. Ordered(tips)
  BY DEF Init, Ordered
<1>4. QED
  BY <1>1, <1>2, <1>3 DEF IInv

\* What a worker step writes: the client's blocks untouched, a stack of
\* imported blocks that is ordered, and well-typed loop state.
WorkerWrites ==
    /\ UNCHANGED <<imported, best, strategy>>
    /\ synced' \subseteq imported
    /\ tips' \in Seq(imported)
    /\ Ordered(tips')
    /\ operating' \in imported \cup {NoBlock}
    /\ iter' \in 0..Limit
    /\ active' \in BOOLEAN /\ syncedAny' \in BOOLEAN

\* A worker step that leaves the client's blocks alone keeps the invariant
\* when what it writes is well typed and the stack it writes is ordered.
LEMMA WorkerStep == IInv /\ WorkerWrites => IInv'
<1> SUFFICES ASSUME IInv, WorkerWrites PROVE IInv'
  OBVIOUS
<1>1. TypeOK'
  BY DEF IInv, TypeOK, WorkerWrites
<1>2. ImportedClosed'
  BY DEF IInv, ImportedClosed, WorkerWrites
<1>3. Ordered(tips)'
  BY DEF WorkerWrites, Ordered, AncestorOrSelf, IsChain
<1>4. QED
  BY <1>1, <1>2, <1>3 DEF IInv

LEMMA NextIInv == IInv /\ [Next]_vars => IInv'
<1> SUFFICES ASSUME IInv, [Next]_vars PROVE IInv'
  OBVIOUS
<1>0. /\ TypeOK /\ Ordered(tips)
      /\ tips \in Seq(imported) /\ synced \subseteq imported
      /\ operating \in imported \cup {NoBlock}
      /\ iter \in 0..Limit
  BY DEF IInv, TypeOK
<1>1. ASSUME NEW b \in Blocks, Import(b) PROVE IInv'
  <2>1. imported' = imported \cup {b} /\ best' \in {best, b}
        /\ UNCHANGED <<synced, tips, active, iter, syncedAny, operating, strategy>>
    BY <1>1 DEF Import
  <2>2. tips \in Seq(imported')
    BY <1>0, <2>1, SeqMono
  <2>3. TypeOK'
    BY <1>0, <2>1, <2>2 DEF TypeOK
  <2>4. ImportedClosed'
    BY <1>0, <1>1, ImportKeepsClosed DEF IInv
  <2>5. Ordered(tips)'
    <3>1. Ordered(tips')
      BY <1>0, <2>1
    <3>2. QED
      BY <3>1 DEF Ordered, AncestorOrSelf, IsChain
  <2>6. QED
    BY <2>3, <2>4, <2>5 DEF IInv
<1>2. CASE StartSync
  <2>1. tips' \in Seq(imported) /\ Ordered(tips')
    BY <1>0, <1>2 DEF StartSync
  <2>2. synced' \subseteq imported /\ operating' \in imported \cup {NoBlock}
    BY <1>0, <1>2 DEF StartSync
  <2>3. iter' \in 0..Limit
    BY <1>0, <1>2, SyncParamsAssumption DEF StartSync
  <2>4. UNCHANGED <<imported, best, strategy>> /\ active' \in BOOLEAN
        /\ syncedAny' \in BOOLEAN
    BY <1>2 DEF StartSync
  <2>5. WorkerWrites
    BY <2>1, <2>2, <2>3, <2>4, Zenon DEF WorkerWrites
  <2>6. QED
    BY <2>5, WorkerStep
<1>3. CASE EndSync
  <2>1. tips' \in Seq(imported) /\ Ordered(tips')
    BY <1>0, <1>3 DEF EndSync
  <2>2. synced' \subseteq imported /\ operating' \in imported \cup {NoBlock}
    BY <1>0, <1>3 DEF EndSync
  <2>3. iter' \in 0..Limit
    BY <1>0, <1>3, SyncParamsAssumption DEF EndSync
  <2>4. UNCHANGED <<imported, best, strategy>> /\ active' \in BOOLEAN
        /\ syncedAny' \in BOOLEAN
    BY <1>0, <1>3 DEF EndSync, TypeOK
  <2>5. WorkerWrites
    BY <2>1, <2>2, <2>3, <2>4, Zenon DEF WorkerWrites
  <2>6. QED
    BY <2>5, WorkerStep
<1>4. CASE SyncErr
  <2>1. tips' \in Seq(imported) /\ Ordered(tips')
    BY <1>0, <1>4 DEF SyncErr, Calls
  <2>2. synced' \subseteq imported /\ operating' \in imported \cup {NoBlock}
    BY <1>0, <1>4 DEF SyncErr, Calls
  <2>3. iter' \in 0..Limit
    BY <1>0, <1>4, SyncParamsAssumption DEF SyncErr, Calls
  <2>4. UNCHANGED <<imported, best, strategy>> /\ active' \in BOOLEAN
        /\ syncedAny' \in BOOLEAN
    BY <1>0, <1>4 DEF SyncErr, Calls, TypeOK
  <2>5. WorkerWrites
    BY <2>1, <2>2, <2>3, <2>4, Zenon DEF WorkerWrites
  <2>6. QED
    BY <2>5, WorkerStep
<1>5. CASE ShortCircuit
  <2>1. tips' \in Seq(imported) /\ Ordered(tips')
    BY <1>0, <1>5 DEF ShortCircuit
  <2>2. synced' \subseteq imported /\ operating' \in imported \cup {NoBlock}
    BY <1>0, <1>5 DEF ShortCircuit
  <2>3. iter' \in 0..Limit
    BY <1>0, <1>5, SyncParamsAssumption DEF ShortCircuit
  <2>4. UNCHANGED <<imported, best, strategy>> /\ active' \in BOOLEAN
        /\ syncedAny' \in BOOLEAN
    BY <1>5 DEF ShortCircuit
  <2>5. WorkerWrites
    BY <2>1, <2>2, <2>3, <2>4, Zenon DEF WorkerWrites
  <2>6. QED
    BY <2>5, WorkerStep
<1>6. ASSUME NEW s \in Candidates, SyncNone(s) PROVE IInv'
  <2>0. <<>> \in Seq(imported) /\ Ordered(<<>>)
    BY EmptySeq DEF Ordered
  <2>1. tips' \in Seq(imported) /\ Ordered(tips')
    BY <1>6, <2>0 DEF SyncNone
  <2>2. synced' \subseteq imported /\ operating' \in imported \cup {NoBlock}
    BY <1>0, <1>6 DEF SyncNone
  <2>3. iter' \in 0..Limit
    BY <1>0, <1>6, SyncParamsAssumption DEF SyncNone, Calls
  <2>4. UNCHANGED <<imported, best, strategy>> /\ active' \in BOOLEAN
        /\ syncedAny' \in BOOLEAN
    BY <1>6 DEF SyncNone, Calls
  <2>5. WorkerWrites
    BY <2>1, <2>2, <2>3, <2>4, Zenon DEF WorkerWrites
  <2>6. QED
    BY <2>5, WorkerStep
<1>7. ASSUME NEW s \in Candidates, SyncGenesis(s) PROVE IInv'
  <2>0. /\ s \in Seq(Blocks) /\ Ordered(s) /\ StopAt(s) \in 1..Len(s)
        /\ Header(s) \in imported /\ Rest(s) \in Seq(imported)
    BY <1>7, HeaderFacts DEF SyncGenesis
  <2>a. Ordered(Rest(s))
    BY <2>0, OrderedPrefix DEF Rest
  <2>1. tips' \in Seq(imported) /\ Ordered(tips')
    BY <1>7, <2>0, <2>a DEF SyncGenesis
  <2>2. synced' \subseteq imported /\ operating' \in imported \cup {NoBlock}
    BY <1>0, <1>7, <2>0 DEF SyncGenesis
  <2>3. iter' \in 0..Limit
    BY <1>0, <1>7, SyncParamsAssumption DEF SyncGenesis, Calls
  <2>4. UNCHANGED <<imported, best, strategy>> /\ active' \in BOOLEAN
        /\ syncedAny' \in BOOLEAN
    BY <1>7 DEF SyncGenesis, Calls
  <2>5. WorkerWrites
    BY <2>1, <2>2, <2>3, <2>4, Zenon DEF WorkerWrites
  <2>6. QED
    BY <2>5, WorkerStep
<1>8. ASSUME NEW s \in Candidates, SyncGenesisTipsErr(s) PROVE IInv'
  <2>0. Header(s) \in imported
    BY <1>8, HeaderFacts DEF SyncGenesisTipsErr
  <2>1. tips' \in Seq(imported) /\ Ordered(tips')
    BY <1>0, <1>8 DEF SyncGenesisTipsErr
  <2>2. synced' \subseteq imported /\ operating' \in imported \cup {NoBlock}
    BY <1>0, <1>8, <2>0 DEF SyncGenesisTipsErr
  <2>3. iter' \in 0..Limit
    BY <1>0, <1>8, SyncParamsAssumption DEF SyncGenesisTipsErr, Calls
  <2>4. UNCHANGED <<imported, best, strategy>> /\ active' \in BOOLEAN
        /\ syncedAny' \in BOOLEAN
    BY <1>0, <1>8 DEF SyncGenesisTipsErr, Calls, TypeOK
  <2>5. WorkerWrites
    BY <2>1, <2>2, <2>3, <2>4, Zenon DEF WorkerWrites
  <2>6. QED
    BY <2>5, WorkerStep
<1>9. ASSUME NEW s \in Candidates, SyncParachainWait(s) PROVE IInv'
  <2>1. tips' \in Seq(imported) /\ Ordered(tips')
    BY <1>0, <1>9 DEF SyncParachainWait
  <2>2. synced' \subseteq imported /\ operating' \in imported \cup {NoBlock}
    BY <1>0, <1>9 DEF SyncParachainWait
  <2>3. iter' \in 0..Limit
    BY <1>0, <1>9, SyncParamsAssumption DEF SyncParachainWait, Calls
  <2>4. UNCHANGED <<imported, best, strategy>> /\ active' \in BOOLEAN
        /\ syncedAny' \in BOOLEAN
    BY <1>9 DEF SyncParachainWait, Calls
  <2>5. WorkerWrites
    BY <2>1, <2>2, <2>3, <2>4, Zenon DEF WorkerWrites
  <2>6. QED
    BY <2>5, WorkerStep
<1>10. ASSUME NEW s \in Candidates, SyncBlock(s) PROVE IInv'
  <2> DEFINE k == StopAt(s)
             h == Header(s)
  <2>0. /\ s \in Seq(Blocks) /\ Ordered(s) /\ k \in 1..Len(s)
        /\ h = s[k] /\ h \in imported /\ Rest(s) \in Seq(imported)
    BY <1>10, HeaderFacts DEF SyncBlock
  <2>b. h # Genesis
    BY <1>10, BlockTreeAssumption DEF SyncBlock
  <2>c. Parent[h] \in imported
    BY <2>0, <2>b, ParentImported DEF IInv
  <2>d. tips' = Append(Rest(s), Parent[h]) /\ synced' = synced
    BY <1>10 DEF SyncBlock, SyncBlockWrites
  <2>e. tips' \in Seq(imported)
    BY <2>0, <2>c, <2>d, AppendProperties
  <2>f. Ordered(tips')
    BY <2>0, <2>b, <2>d, OrderedPush DEF Rest
  <2>1. tips' \in Seq(imported) /\ Ordered(tips')
    BY <2>e, <2>f
  <2>2. synced' \subseteq imported /\ operating' \in imported \cup {NoBlock}
    BY <1>0, <1>10, <2>0, <2>d DEF SyncBlock
  <2>3. iter' \in 0..Limit
    BY <1>0, <1>10, SyncParamsAssumption DEF SyncBlock, Calls
  <2>4. UNCHANGED <<imported, best, strategy>> /\ active' \in BOOLEAN
        /\ syncedAny' \in BOOLEAN
    BY <1>10 DEF SyncBlock, Calls
  <2>5. WorkerWrites
    BY <2>1, <2>2, <2>3, <2>4, Zenon DEF WorkerWrites
  <2>6. QED
    BY <2>5, WorkerStep
<1>11. CASE UNCHANGED vars
  <2>1. tips' \in Seq(imported) /\ Ordered(tips')
    BY <1>0, <1>11 DEF vars
  <2>2. synced' \subseteq imported /\ operating' \in imported \cup {NoBlock}
    BY <1>0, <1>11 DEF vars
  <2>3. iter' \in 0..Limit
    BY <1>0, <1>11 DEF vars
  <2>4. UNCHANGED <<imported, best, strategy>> /\ active' \in BOOLEAN
        /\ syncedAny' \in BOOLEAN
    BY <1>0, <1>11 DEF vars, TypeOK
  <2>5. WorkerWrites
    BY <2>1, <2>2, <2>3, <2>4, Zenon DEF WorkerWrites
  <2>6. QED
    BY <2>5, WorkerStep
<1>12. QED
  BY <1>1, <1>2, <1>3, <1>4, <1>5, <1>6, <1>7, <1>8, <1>9, <1>10, <1>11
     DEF Next, SyncOk

-----------------------------------------------------------------------------
\* The mapping-sync worker keeps every reachable state inductive-invariant,
\* for every block tree and every SyncFrom and limit: imported blocks have
\* imported ancestors, and the persisted tips are ordered.
THEOREM Invariant == Spec => []IInv
BY InitIInv, NextIInv, PTL DEF Spec

\* The worker's state stays in its types for every block tree: the stack
\* written by write_current_syncing_tips only holds imported blocks.
THEOREM TypeCorrect == Spec => []TypeOK
<1>1. IInv => TypeOK
  BY DEF IInv
<1>2. QED
  BY <1>1, Invariant, PTL

\* An ordered stack of blocks holds no block twice.
LEMMA OrderedDistinct ==
    ASSUME NEW s \in Seq(Blocks), Ordered(s)
    PROVE  \A i, j \in 1..Len(s) : i # j => s[i] # s[j]
<1> SUFFICES ASSUME NEW i \in 1..Len(s), NEW j \in 1..Len(s), i # j,
                    s[i] = s[j]
             PROVE  FALSE
  OBVIOUS
<1>1. AncestorOrSelf(s[j], s[j])
  BY ChainSelf
<1>2. CASE i < j
  BY <1>1, <1>2 DEF Ordered
<1>3. CASE j < i
  BY <1>1, <1>3 DEF Ordered
<1>4. QED
  BY <1>2, <1>3

\* TipsDistinct for every block tree: whatever the order of imports, read
\* errors and parachain waits, sync_one_block never persists a stack that
\* holds a tip twice, so no block is walked twice in one pass.
THEOREM TipsNeverRepeat == Spec => []TipsDistinct
<1>1. IInv => TipsDistinct
  <2> SUFFICES ASSUME IInv PROVE TipsDistinct
    OBVIOUS
  <2>1. tips \in Seq(Blocks) /\ Ordered(tips)
    BY SeqMono DEF IInv, TypeOK
  <2>2. QED
    BY <2>1, OrderedDistinct DEF TipsDistinct
<1>2. QED
  BY <1>1, Invariant, PTL

====

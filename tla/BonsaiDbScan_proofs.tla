------------------------- MODULE BonsaiDbScan_proofs -------------------------
(***************************************************************************)
(* The forward scan of get_by_prefix and remove_by_prefix, for every set  *)
(* of byte strings: in RocksDB's bytewise order the keys that start with  *)
(* a prefix form one run that begins at the prefix.                       *)
(***************************************************************************)
EXTENDS BonsaiDb, SequenceTheorems, WellFoundedInduction, TLAPS

\* a and b hold the same bytes at positions 1..n.
Agree(a, b, n) == \A k \in 1..n : a[k] = b[k]

-----------------------------------------------------------------------------
(* IsPrefix and KeyLess, position by position.                             *)

LEMMA SubSeqAgree ==
    ASSUME NEW a \in Seq(Nat), NEW b \in Seq(Nat), NEW n \in 0..Len(a),
           n <= Len(b)
    PROVE  SubSeq(a, 1, n) = SubSeq(b, 1, n) <=> Agree(a, b, n)
<1>1. /\ SubSeq(a, 1, n) \in Seq(Nat) /\ Len(SubSeq(a, 1, n)) = n
      /\ \A k \in 1..n : SubSeq(a, 1, n)[k] = a[k]
  <2>1. \A k \in 1..n : a[k] \in Nat
    BY ElementOfSeq
  <2>2. QED
    BY <2>1, SubSeqProperties
<1>2. /\ SubSeq(b, 1, n) \in Seq(Nat) /\ Len(SubSeq(b, 1, n)) = n
      /\ \A k \in 1..n : SubSeq(b, 1, n)[k] = b[k]
  <2>1. \A k \in 1..n : b[k] \in Nat
    BY ElementOfSeq
  <2>2. QED
    BY <2>1, SubSeqProperties
<1>3. Agree(a, b, n) => SubSeq(a, 1, n) = SubSeq(b, 1, n)
  BY <1>1, <1>2, SeqEqual DEF Agree
<1>4. QED
  BY <1>1, <1>2, <1>3 DEF Agree

LEMMA IsPrefixAgree ==
    ASSUME NEW p \in Seq(Nat), NEW b \in Seq(Nat)
    PROVE  IsPrefix(p, b) <=> Len(p) <= Len(b) /\ Agree(p, b, Len(p))
<1>1. Len(p) <= Len(b) => (SubSeq(b, 1, Len(p)) = p <=> Agree(p, b, Len(p)))
  <2> SUFFICES ASSUME Len(p) <= Len(b)
               PROVE  SubSeq(b, 1, Len(p)) = p <=> Agree(p, b, Len(p))
    OBVIOUS
  <2>1. SubSeq(p, 1, Len(p)) = p
    <3>1. /\ SubSeq(p, 1, Len(p)) \in Seq(Nat) /\ Len(SubSeq(p, 1, Len(p))) = Len(p)
          /\ \A k \in 1..Len(p) : SubSeq(p, 1, Len(p))[k] = p[k]
      <4>1. \A k \in 1..Len(p) : p[k] \in Nat
        BY ElementOfSeq
      <4>2. QED
        BY <4>1, SubSeqProperties
    <3>2. QED
      BY <3>1, SeqEqual
  <2>2. SubSeq(p, 1, Len(p)) = SubSeq(b, 1, Len(p)) <=> Agree(p, b, Len(p))
    BY SubSeqAgree
  <2>3. QED
    BY <2>1, <2>2
<1>2. QED
  BY <1>1 DEF IsPrefix

LEMMA KeyLessAgree ==
    ASSUME NEW a \in Seq(Nat), NEW b \in Seq(Nat)
    PROVE  KeyLess(a, b) <=>
              \/ Len(a) < Len(b) /\ Agree(a, b, Len(a))
              \/ \E i \in 1..Len(a) : /\ i <= Len(b)
                                      /\ Agree(a, b, i - 1)
                                      /\ a[i] < b[i]
<1>1. IsPrefix(a, b) /\ a # b <=> Len(a) < Len(b) /\ Agree(a, b, Len(a))
  <2>1. Len(a) = Len(b) /\ Agree(a, b, Len(a)) => a = b
    BY SeqEqual DEF Agree
  <2>2. QED
    BY <2>1, IsPrefixAgree
<1>2. ASSUME NEW i \in 1..Len(a), i <= Len(b)
      PROVE  SubSeq(a, 1, i - 1) = SubSeq(b, 1, i - 1) <=> Agree(a, b, i - 1)
  <2>1. i - 1 \in 0..Len(a) /\ i - 1 <= Len(b)
    BY <1>2
  <2>2. QED
    BY <2>1, SubSeqAgree
<1>3. QED
  BY <1>1, <1>2 DEF KeyLess

-----------------------------------------------------------------------------
(* The bytewise order around a prefix.                                     *)

\* Two strings that disagree somewhere in 1..m have a first difference.
LEMMA FirstDifference ==
    ASSUME NEW a \in Seq(Nat), NEW b \in Seq(Nat), NEW m \in Nat,
           m <= Len(a), m <= Len(b), ~Agree(a, b, m)
    PROVE  \E i \in 1..m : Agree(a, b, i - 1) /\ a[i] # b[i]
<1> DEFINE D == {k \in 1..m : a[k] # b[k]}
<1>0. \E k \in 1..m : a[k] # b[k]
  BY DEF Agree
<1>1. D \subseteq Nat /\ D # {}
  <2>1. D \subseteq Nat
    OBVIOUS
  <2>2. PICK k \in 1..m : a[k] # b[k]
    BY <1>0
  <2>3. k \in D
    BY <2>2
  <2>4. QED
    BY <2>1, <2>3
<1>2. PICK i \in D : \A y \in D : ~(<<y, i>> \in OpToRel(<, Nat))
  BY <1>1, WFMin, NatLessThanWellFounded
<1>3. ASSUME NEW k \in 1..(i - 1) PROVE a[k] = b[k]
  <2>1. k \in Nat /\ i \in Nat /\ k < i
    BY <1>1
  <2>2. ~(k \in D)
    BY <1>2, <2>1 DEF OpToRel
  <2>3. QED
    BY <2>2
<1>4. QED
  BY <1>3 DEF Agree

\* A key that starts with the prefix is not below it: the scan, which
\* starts at the prefix (IteratorMode::From), reaches every such key.
LEMMA ExtensionNotBelow ==
    ASSUME NEW p \in Seq(Nat), NEW b \in Seq(Nat), IsPrefix(p, b)
    PROVE  ~KeyLess(b, p)
<1>1. Len(p) <= Len(b) /\ Agree(p, b, Len(p))
  BY IsPrefixAgree
<1>2. ~(Len(b) < Len(p) /\ Agree(b, p, Len(b)))
  BY <1>1
<1>3. ~\E i \in 1..Len(b) : i <= Len(p) /\ Agree(b, p, i - 1) /\ b[i] < p[i]
  BY <1>1 DEF Agree
<1>4. QED
  BY <1>2, <1>3, KeyLessAgree

\* A key at or after the prefix and below a key that starts with the prefix
\* starts with it too: the keys with the prefix form one run, so stopping
\* at the first key without it loses none.
LEMMA BetweenExtends ==
    ASSUME NEW p \in Seq(Nat), NEW b \in Seq(Nat), NEW j \in Seq(Nat),
           IsPrefix(p, b), ~KeyLess(j, p), KeyLess(j, b)
    PROVE  IsPrefix(p, j)
<1>1. Len(p) <= Len(b) /\ Agree(p, b, Len(p))
  BY IsPrefixAgree
<1> SUFFICES ASSUME ~(Len(p) <= Len(j) /\ Agree(p, j, Len(p))) PROVE FALSE
  BY IsPrefixAgree
<1> DEFINE m == IF Len(p) <= Len(j) THEN Len(p) ELSE Len(j)
<1>2. m \in Nat /\ m <= Len(p) /\ m <= Len(j)
  OBVIOUS
<1>3. CASE Agree(p, j, m)
  <2>1. Len(j) < Len(p) /\ Agree(j, p, Len(j))
    BY <1>3 DEF Agree
  <2>2. KeyLess(j, p)
    BY <2>1, KeyLessAgree
  <2>3. QED
    BY <2>2
<1>4. CASE ~Agree(p, j, m)
  <2>1. PICK i \in 1..m : Agree(p, j, i - 1) /\ p[i] # j[i]
    BY <1>2, <1>4, FirstDifference
  <2>2. p[i] \in Nat /\ j[i] \in Nat /\ b[i] = p[i] /\ i <= Len(b)
    <3>1. i \in 1..Len(p) /\ i \in 1..Len(j)
      BY <1>2
    <3>2. p[i] \in Nat /\ j[i] \in Nat
      BY <3>1, ElementOfSeq
    <3>3. b[i] = p[i] /\ i <= Len(b)
      BY <1>1, <3>1 DEF Agree
    <3>4. QED
      BY <3>2, <3>3
  <2>3. ~(j[i] < p[i])
    <3>1. Agree(j, p, i - 1)
      BY <2>1 DEF Agree
    <3>2. QED
      BY <1>2, <3>1, KeyLessAgree
  <2>4. p[i] < j[i]
    <3>1. p[i] # j[i]
      BY <2>1
    <3>2. p[i] \in Nat /\ j[i] \in Nat
      BY <2>2
    <3>3. QED
      BY <3>1, <3>2, <2>3
  <2>5. Agree(j, b, i - 1)
    BY <1>1, <1>2, <2>1 DEF Agree
  <2>6. ~(Len(j) < Len(b) /\ Agree(j, b, Len(j)))
    <3>1. i \in 1..Len(j)
      BY <1>2
    <3>2. j[i] # b[i]
      BY <2>2, <2>4
    <3>3. ~Agree(j, b, Len(j))
      BY <3>1, <3>2 DEF Agree
    <3>4. QED
      BY <3>3
  <2>7. ~\E k \in 1..Len(j) : k <= Len(b) /\ Agree(j, b, k - 1) /\ j[k] < b[k]
    <3> SUFFICES ASSUME NEW k \in 1..Len(j), k <= Len(b), Agree(j, b, k - 1),
                        j[k] < b[k]
                 PROVE  FALSE
      OBVIOUS
    <3>1. CASE k < i
      BY <2>5, <3>1 DEF Agree
    <3>2. CASE k = i
      BY <2>2, <2>4, <3>2
    <3>3. CASE k > i
      <4>1. i \in 1..(k - 1)
        BY <3>3
      <4>2. j[i] = b[i]
        BY <4>1 DEF Agree
      <4>3. QED
        BY <4>2, <2>2, <2>4
    <3>4. QED
      BY <3>1, <3>2, <3>3
  <2>8. QED
    BY <2>6, <2>7, KeyLessAgree
<1>5. QED
  BY <1>3, <1>4

-----------------------------------------------------------------------------
\* The forward scan of get_by_prefix and remove_by_prefix from the prefix,
\* stopping at the first key without it, collects exactly the present keys
\* of the column that start with the prefix, in every view of the store and
\* for every set of byte strings.
THEOREM ScanExact ==
    ASSUME NEW f, NEW kind \in Kinds, NEW p \in Prefixes
    PROVE  Scanned(f, ColumnMapping[kind], p)
             = {b \in Bytes : f[PhysKey(kind, b)] # NoValue /\ IsPrefix(p, b)}
<1> DEFINE c == ColumnMapping[kind]
           from == {b \in Bytes : <<c, b>> \in Keys /\ f[<<c, b>>] # NoValue
                                  /\ ~KeyLess(b, p)}
<1>1. p \in Seq(Nat) /\ Bytes \subseteq Seq(Nat)
  BY BytesAssumption
<1>2. ASSUME NEW b \in Bytes, f[PhysKey(kind, b)] # NoValue, IsPrefix(p, b)
      PROVE  b \in Scanned(f, c, p)
  <2>1. b \in from
    BY <1>1, <1>2, ExtensionNotBelow DEF PhysKey, Keys
  <2>2. ASSUME NEW j \in from, KeyLess(j, b) PROVE IsPrefix(p, j)
    BY <1>1, <1>2, <2>2, BetweenExtends
  <2>3. QED
    BY <1>2, <2>1, <2>2 DEF Scanned
<1>3. ASSUME NEW b \in Scanned(f, c, p)
      PROVE  b \in Bytes /\ f[PhysKey(kind, b)] # NoValue /\ IsPrefix(p, b)
  BY <1>3 DEF Scanned, PhysKey
<1>4. QED
  BY <1>2, <1>3

\* PrefixScanExact holds in every reachable state, whatever the store holds.
THEOREM PrefixScanAlways == Spec => []PrefixScanExact
<1>1. PrefixScanExact
  BY ScanExact DEF PrefixScanExact
<1>2. QED
  BY <1>1, PTL

====

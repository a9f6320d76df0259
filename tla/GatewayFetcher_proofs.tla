------------------------ MODULE GatewayFetcher_proofs ------------------------
(***************************************************************************)
(* Proofs about GatewayFetcher, for every MaxBlock and MaxQueue.          *)
(***************************************************************************)
EXTENDS GatewayFetcher, SequenceTheorems, TLAPS

USE BoundsAssumption

(***************************************************************************)
(* The inductive invariant.  fetch_block pushes block i before call_rpc   *)
(* and moves on only after a success, so the last block pushed is i while *)
(* a call is pending and i or i - 1 otherwise.  Nothing here depends on   *)
(* how many failed calls there are.                                       *)
(***************************************************************************)
IInv ==
    /\ TypeOK
    /\ i <= head
    /\ pc = "rpc" => i < head
    /\ queue = <<>> => i = 0 /\ pc # "rpc"
    /\ queue # <<>> =>
          /\ queue[1] = 0
          /\ ToSet(queue) = 0..Last(queue)
          /\ Last(queue) \in {i - 1, i}
    /\ pc = "rpc" => queue # <<>> /\ Last(queue) = i
    /\ \A j \in 1..Len(queue) - 1 : queue[j + 1] \in {queue[j], queue[j] + 1}

-----------------------------------------------------------------------------
(* Pushing the next block keeps the queue a gap-free run from block 0.     *)
LEMMA PushInOrder ==
    ASSUME NEW q \in Seq(Nat), NEW n \in Nat,
           q = <<>> => n = 0,
           q # <<>> => /\ q[1] = 0
                       /\ ToSet(q) = 0..Last(q)
                       /\ Last(q) \in {n - 1, n},
           \A j \in 1..Len(q) - 1 : q[j + 1] \in {q[j], q[j] + 1}
    PROVE  /\ Append(q, n)[1] = 0
           /\ ToSet(Append(q, n)) = 0..n
           /\ Last(Append(q, n)) = n
           /\ \A j \in 1..Len(Append(q, n)) - 1 :
                 Append(q, n)[j + 1] \in {Append(q, n)[j], Append(q, n)[j] + 1}
<1>1. CASE q = <<>>
  BY <1>1 DEF ToSet, Last
<1>2. CASE q # <<>>
  <2>1. ToSet(Append(q, n)) = ToSet(q) \cup {n}
    <3>1. /\ DOMAIN Append(q, n) = 1..Len(q) + 1
          /\ \A k \in 1..Len(q) : Append(q, n)[k] = q[k]
          /\ Append(q, n)[Len(q) + 1] = n
      BY AppendProperties
    <3>2. DOMAIN q = 1..Len(q)
      OBVIOUS
    <3>3. ASSUME NEW x \in ToSet(Append(q, n)) PROVE x \in ToSet(q) \cup {n}
      <4>1. PICK k \in 1..Len(q) + 1 : x = Append(q, n)[k]
        BY <3>1 DEF ToSet
      <4>2. CASE k <= Len(q)
        <5>1. k \in DOMAIN q /\ Append(q, n)[k] = q[k]
          BY <3>1, <3>2, <4>2
        <5>2. QED
          BY <4>1, <5>1, Zenon DEF ToSet
      <4>3. CASE k = Len(q) + 1
        BY <3>1, <4>1, <4>3
      <4>4. QED
        BY <4>2, <4>3
    <3>4. ToSet(q) \subseteq ToSet(Append(q, n))
      <4>1. ASSUME NEW k \in 1..Len(q) PROVE q[k] \in ToSet(Append(q, n))
        <5>1. k \in DOMAIN Append(q, n) /\ Append(q, n)[k] = q[k]
          BY <3>1
        <5>2. QED
          BY <5>1, Zenon DEF ToSet
      <4>2. QED
        BY <3>2, <4>1 DEF ToSet
    <3>5. n \in ToSet(Append(q, n))
      <4>1. Len(q) + 1 \in DOMAIN Append(q, n)
        BY <3>1
      <4>2. QED
        BY <3>1, <4>1, Zenon DEF ToSet
    <3>6. QED
      BY <3>3, <3>4, <3>5
  <2>2. Len(q) >= 1 /\ Last(q) = q[Len(q)]
    BY <1>2 DEF Last
  <2>3. QED
    BY <1>2, <2>1, <2>2 DEF Last
<1>3. QED
  BY <1>1, <1>2

-----------------------------------------------------------------------------
LEMMA InitIInv == Init => IInv
BY DEF Init, IInv, TypeOK

LEMMA NextIInv == IInv /\ [Next]_vars => IInv'
<1> SUFFICES ASSUME IInv, [Next]_vars PROVE IInv'
  OBVIOUS
<1>1. CASE Produce
  BY <1>1 DEF Produce, IInv, TypeOK
<1>2. CASE FetchOk
  <2>1. queue \in Seq(Nat) /\ i \in Nat
    BY DEF IInv, TypeOK
  <2>2. /\ Append(queue, i)[1] = 0
        /\ ToSet(Append(queue, i)) = 0..i
        /\ Last(Append(queue, i)) = i
        /\ \A j \in 1..Len(Append(queue, i)) - 1 :
              Append(queue, i)[j + 1] \in {Append(queue, i)[j], Append(queue, i)[j] + 1}
    BY <2>1, PushInOrder DEF IInv
  <2>3. Append(queue, i) \in Seq(0..MaxBlock - 1)
    BY <1>2 DEF FetchOk, IInv, TypeOK
  <2>4. TypeOK'
    BY <1>2, <2>3 DEF FetchOk, IInv, TypeOK
  <2>5. /\ i' = i /\ head' = head /\ i < head /\ pc' = "rpc"
        /\ queue' = Append(queue, i)
    BY <1>2 DEF FetchOk
  <2>6. Append(queue, i) # <<>>
    <3>1. Len(Append(queue, i)) = Len(queue) + 1
      BY <2>1
    <3>2. QED
      BY <2>1, <3>1
  <2>7. QED
    BY <2>2, <2>4, <2>5, <2>6 DEF IInv
<1>3. CASE FetchMissing
  BY <1>3 DEF FetchMissing, IInv, TypeOK
<1>4. CASE FetchErr
  BY <1>4 DEF FetchErr, IInv, TypeOK
<1>5. CASE Wake
  BY <1>5 DEF Wake, IInv, TypeOK
<1>6. CASE RpcSuccess
  BY <1>6 DEF RpcSuccess, IInv, TypeOK
<1>7. CASE RpcFailed
  BY <1>7 DEF RpcFailed, IInv, TypeOK
<1>8. CASE Ended \/ UNCHANGED vars
  BY <1>8 DEF Ended, vars, IInv, TypeOK
<1>9. QED
  BY <1>1, <1>2, <1>3, <1>4, <1>5, <1>6, <1>7, <1>8 DEF Next

\* In every reachable state of fetch_block the queue is a gap-free run
\* from block 0 that ends at i - 1 or i, and ends at i while call_rpc is
\* pending.
THEOREM Invariant == Spec => []IInv
BY InitIInv, NextIInv, PTL DEF Spec

\* The fetcher's state stays in its types for every MaxBlock and MaxQueue:
\* fetch_block never moves i past the gateway's chain and queues only
\* block numbers the gateway can have.
THEOREM TypeCorrect == Spec => []TypeOK
<1>1. IInv => TypeOK
  BY DEF IInv
<1>2. QED
  BY <1>1, Invariant, PTL

\* QueueInOrder for every MaxBlock and MaxQueue: whatever the gateway
\* errors and RPC failures, fetch_block pushes the chain in order, from
\* block 0, with no block skipped.
THEOREM QueueOrdered == Spec => []QueueInOrder
<1>1. IInv => QueueInOrder
  <2> SUFFICES ASSUME IInv PROVE QueueInOrder
    OBVIOUS
  <2>1. CASE queue = <<>>
    BY <2>1 DEF IInv, QueueInOrder, ToSet
  <2>2. CASE queue # <<>>
    BY <2>2 DEF IInv, QueueInOrder
  <2>3. QED
    BY <2>1, <2>2
<1>2. QED
  BY <1>1, Invariant, PTL

====

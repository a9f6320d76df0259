---------------------------- MODULE OptimisticKV ----------------------------
(***************************************************************************)
(* What the keyed store under the trie database adapter promises, stated  *)
(* without sequence numbers: a store of keys, atomic multi-key writes made *)
(* outside any transaction, and optimistic transactions that buffer their *)
(* writes and commit them atomically unless a key they wrote was written  *)
(* by someone else after they began ("first committer wins").             *)
(*                                                                         *)
(* missed[t] is the set of keys written by others since t began; it is    *)
(* the information an optimistic commit needs and nothing more.           *)
(***************************************************************************)
EXTENDS FiniteSets

CONSTANTS
    Keys,       \* physical keys: <<column, bytes>>
    Vals,       \* values stored
    NoValue,    \* a key that holds nothing (absent, or deleted)
    NoOp,       \* a write set that leaves a key alone
    Txns        \* transaction slots

VARIABLES store, open, wset, missed

WriteSets == [Keys -> Vals \cup {NoValue, NoOp}]

\* The keys a write set touches.
Touched(w) == {k \in Keys : w[k] # NoOp}

\* The store after the write set w is applied on top of it.
Overlay(f, w) == [k \in Keys |-> IF w[k] = NoOp THEN f[k] ELSE w[k]]

EmptyWrites == [k \in Keys |-> NoOp]

Init ==
    /\ store = [k \in Keys |-> NoValue]
    /\ open = {}
    /\ wset = [t \in Txns |-> EmptyWrites]
    /\ missed = [t \in Txns |-> {}]

\* An atomic write outside every transaction; every open transaction has
\* now missed the keys it touches.
Write(w) ==
    /\ store' = Overlay(store, w)
    /\ missed' = [t \in Txns |-> IF t \in open THEN missed[t] \cup Touched(w)
                                                ELSE missed[t]]
    /\ UNCHANGED <<open, wset>>

Begin(t) ==
    /\ t \notin open
    /\ open' = open \cup {t}
    /\ wset' = [wset EXCEPT ![t] = EmptyWrites]
    /\ missed' = [missed EXCEPT ![t] = {}]
    /\ UNCHANGED store

\* A transaction stages writes; the store does not change.
Stage(t, w) ==
    /\ t \in open
    /\ wset' = [wset EXCEPT ![t] = w]
    /\ UNCHANGED <<store, open, missed>>

\* First committer wins: t commits only if nobody wrote what t writes.
Commit(t) ==
    /\ t \in open
    /\ missed[t] \cap Touched(wset[t]) = {}
    /\ store' = Overlay(store, wset[t])
    /\ open' = open \ {t}
    /\ missed' = [u \in Txns |-> IF u \in open' THEN missed[u] \cup Touched(wset[t])
                                                 ELSE IF u = t THEN {} ELSE missed[u]]
    /\ wset' = [wset EXCEPT ![t] = EmptyWrites]

\* A transaction that is given up (a failed commit, or dropped).
Abort(t) ==
    /\ t \in open
    /\ open' = open \ {t}
    /\ wset' = [wset EXCEPT ![t] = EmptyWrites]
    /\ missed' = [missed EXCEPT ![t] = {}]
    /\ UNCHANGED store

Next ==
    \/ \E w \in WriteSets : Write(w)
    \/ \E t \in Txns : Begin(t) \/ Commit(t) \/ Abort(t)
    \/ \E t \in Txns, w \in WriteSets : Stage(t, w)

vars == <<store, open, wset, missed>>

Spec == Init /\ [][Next]_vars
=============================================================================

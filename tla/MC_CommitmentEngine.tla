------------------------- MODULE MC_CommitmentEngine -------------------------
(* Small instances of CommitmentEngine for TLC.                            *)
EXTENDS CommitmentEngine, TLC

CONSTANTS a1, a2, k1, v1, c1, cc1, n1

\* Addresses are interchangeable: nothing in update_state_root depends on
\* which address is which.
AddrSymm == Permutations({a1, a2})
====

---------------------------- MODULE MC_BonsaiDb ----------------------------
(***************************************************************************)
(* Small instances of BonsaiDb for TLC.                                    *)
(***************************************************************************)
EXTENDS BonsaiDb, TLC

CONSTANTS v1, v2, t1, t2, colTrie, colFlat, colLog

\* Transactions: two DatabaseKey variants in two columns, one byte string.
TxnKinds == {"Trie"}
TxnMapping == [k \in TxnKinds |-> colTrie]
TxnBytes == {<<1>>}

\* Prefix scans: one column, keys with and without the prefix, among them
\* a key sharing only part of a longer prefix and the prefix itself.
ScanKinds == {"Flat"}
ScanMapping == [k \in ScanKinds |-> colFlat]
ScanBytes == {<<0>>, <<0, 1>>, <<0, 2>>, <<1>>}
ScanPrefixes == {<<0>>, <<0, 1>>}

Symm == Permutations({t1, t2})
=============================================================================

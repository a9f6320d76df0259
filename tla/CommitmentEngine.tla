--------------------------- MODULE CommitmentEngine ---------------------------
(***************************************************************************)
(* update_state_root of crates/client/sync/src/commitments/lib.rs, block  *)
(* after block.  rayon::join runs two branches: contract_trie_root (cpc)  *)
(* and class_trie_root (kpc); each drives Storage Handlers over the        *)
(* committed tries.  A trie is modelled by its contents, its root by a    *)
(* collision-free function of them, and the Pedersen and Poseidon hashes  *)
(* by uninterpreted terms, so two roots are equal iff what they commit to *)
(* is equal.  The two par_bridge fan-outs append their results to a Vec  *)
(* in whatever order the pool finishes them.                              *)
(*                                                                         *)
(* The Storage Handler (mc_db::storage) is not under src/: a write handler *)
(* is modelled from the spec as a working view of the committed trie that *)
(* commit + apply_changes installs.  The runtime state the class-hash     *)
(* fallback reads through the overrides (classOf), and the contracts'     *)
(* nonces (nonceOf), are the chain state after the previous block.        *)
(***************************************************************************)
EXTENDS Naturals, Sequences, FiniteSets

CONSTANTS
    Addrs,          \* contract addresses
    SKeys,          \* storage keys
    SVals,          \* storage values
    ClassHashes,    \* class hashes
    CompiledHashes, \* compiled class hashes
    NonceVals,      \* nonces other than the default
    None,           \* a key absent from an IndexMap / an Option that is None
    Zero,           \* the field element 0 (empty trie, default nonce)
    MaxBlock        \* number of blocks committed in a run

ASSUME NoneAssumption ==
    None \notin SVals \cup ClassHashes \cup CompiledHashes \cup NonceVals \cup {Zero}
ASSUME ZeroAssumption ==
    Zero \notin SVals \cup ClassHashes \cup CompiledHashes \cup NonceVals
ASSUME MaxBlockAssumption == MaxBlock \in Nat \ {0}

(***************************************************************************)
(* Hashes, roots and the commitment state diff.                            *)
(***************************************************************************)
Pedersen(x, y) == <<"pedersen", x, y>>
Poseidon(x, y) == <<"poseidon", x, y>>
\* H::compute_hash_on_elements over a sequence of elements.
PoseidonMany(s) == <<"poseidon_many", s>>

\* A trie's root: zero when every key holds zero, else its contents.
Root(f) == IF \A x \in DOMAIN f : f[x] = Zero THEN Zero ELSE f

\* A CommitmentStateDiff: four IndexMaps, None where a key is absent.
StorageDiffs == [SKeys -> SVals \cup {None}]
Diffs == [deployed : [Addrs -> ClassHashes \cup {None}],
          nonces   : [Addrs -> NonceVals \cup {None}],
          storage  : [Addrs -> StorageDiffs \cup {None}],
          declared : [ClassHashes -> CompiledHashes \cup {None}]]

\* The trie f after update(s): the pairs <<key, value>> of s inserted in
\* order, so the last pair of a key wins.
Inserted(f, s) ==
    [x \in DOMAIN f |->
        IF \E i \in 1..Len(s) : s[i][1] = x
        THEN s[CHOOSE i \in 1..Len(s) :
                   s[i][1] = x /\ \A j \in (i + 1)..Len(s) : s[j][1] # x][2]
        ELSE f[x]]

\* The keys whose pair some task of a par_bridge fan-out has pushed.
Pushed(s) == {s[i][1] : i \in 1..Len(s)}

\* calculate_state_root: a zero classes root degenerates to the contracts root.
CalculateStateRoot(c, k) ==
    IF k = Zero THEN c ELSE PoseidonMany(<<"STARKNET_STATE_V0", c, k>>)

ClassLeaf(cc) == Poseidon("CONTRACT_CLASS_LEAF_V0", cc)

VARIABLES
    block,        \* block_number
    diff,         \* the block's CommitmentStateDiff
    hasHash,      \* maybe_block_hash is Some
    outcome,      \* "running", "returned" or "panicked"
    storageTrie,  \* committed contract-storage tries: address -> key -> value
    contractTrie, \* committed contracts trie: address -> leaf hash
    classTrie,    \* committed classes trie: class hash -> leaf
    classOf,      \* runtime state: class hash of each deployed address
    nonceOf,      \* runtime state: nonce of each address
    cpc,          \* contract branch: "open", "storage", "leaves", "done", "panic"
    kpc,          \* class branch: "hash", "done"
    storageWork,  \* storage_write's working view
    staged,       \* addresses whose storage updates storage_write holds
    leafUpdates,  \* the Vec the leaf-hash par_bridge collects
    classUpdates, \* the Vec the class-hash par_bridge collects
    cRoot,        \* contract_trie_root's result
    kRoot,        \* class_trie_root's result
    stateRoot,    \* update_state_root's result
    pre           \* the committed tries when the block began

vars == <<block, diff, hasHash, outcome, storageTrie, contractTrie, classTrie,
          classOf, nonceOf, cpc, kpc, storageWork, staged, leafUpdates,
          classUpdates, cRoot, kRoot, stateRoot, pre>>

\* The addresses of csd.storage_updates, and the declared class hashes.
StorageAddrs == {a \in Addrs : diff.storage[a] # None}
DeclaredClasses == {c \in ClassHashes : diff.declared[c] # None}

\* class_hash: the diff's class hash, else the overrides' lookup at the
\* block hash.  A lookup finding nothing is unwrap()ed, a missing block
\* hash is unreachable!(): both panic.
ClassHashPanics(a) == diff.deployed[a] = None /\ (~hasHash \/ classOf[a] = None)
ClassHashOf(a) == IF diff.deployed[a] # None THEN diff.deployed[a] ELSE classOf[a]

\* contract_state_leaf_hash: the nonce is the diff's, else Nonce::default().
NonceOf(a) == IF diff.nonces[a] # None THEN diff.nonces[a] ELSE Zero
LeafHash(a, sroot) ==
    Pedersen(Pedersen(Pedersen(ClassHashOf(a), sroot), NonceOf(a)), Zero)

\* storage_write.insert of every (key, value) of one address's updates.
StagedStorage(w, a) ==
    [w EXCEPT ![a] = [k \in SKeys |-> IF diff.storage[a][k] # None
                                      THEN diff.storage[a][k] ELSE w[a][k]]]

ZeroTrie(D) == [x \in D |-> Zero]

\* The committed tries, as a record.
Tries == [storage |-> storageTrie, contracts |-> contractTrie, classes |-> classTrie]

\* The state of a branch pair at the start of update_state_root.
BranchesStart ==
    /\ outcome = "running"
    /\ cpc = "open" /\ kpc = "hash"
    /\ storageWork = storageTrie /\ staged = {}
    /\ leafUpdates = <<>> /\ classUpdates = <<>>
    /\ cRoot = Zero /\ kRoot = Zero /\ stateRoot = Zero

Init ==
    /\ block = 1
    /\ diff \in Diffs
    /\ hasHash \in BOOLEAN
    /\ storageTrie = [a \in Addrs |-> ZeroTrie(SKeys)]
    /\ contractTrie = ZeroTrie(Addrs)
    /\ classTrie = ZeroTrie(ClassHashes)
    /\ classOf = [a \in Addrs |-> None]
    /\ nonceOf = ZeroTrie(Addrs)
    /\ BranchesStart
    /\ pre = Tries

-----------------------------------------------------------------------------
(***************************************************************************)
(* contract_trie_root.                                                     *)
(***************************************************************************)
BranchVars == <<block, diff, hasHash, outcome, classOf, nonceOf, pre, stateRoot>>

\* contract_mut and contract_storage_mut open the two write handlers over
\* the committed tries; contract_write.init().
COpen ==
    /\ cpc = "open"
    /\ cpc' = "storage"
    /\ storageWork' = storageTrie
    /\ staged' = {}
    /\ UNCHANGED <<storageTrie, contractTrie, classTrie, kpc, leafUpdates,
                   classUpdates, cRoot, kRoot>> /\ UNCHANGED BranchVars

\* One iteration of the loop over csd.storage_updates: storage_write.init
\* and an insert of each (key, value) of the address.
CStage(a) ==
    /\ cpc = "storage"
    /\ a \in StorageAddrs \ staged
    /\ storageWork' = StagedStorage(storageWork, a)
    /\ staged' = staged \cup {a}
    /\ UNCHANGED <<storageTrie, contractTrie, classTrie, cpc, kpc, leafUpdates,
                   classUpdates, cRoot, kRoot>> /\ UNCHANGED BranchVars

\* storage_write.commit(block_number + 1) and apply_changes: the storage
\* tries of this block are now the committed ones.
CCommitStorage ==
    /\ cpc = "storage"
    /\ staged = StorageAddrs
    /\ storageTrie' = storageWork
    /\ cpc' = "leaves"
    /\ UNCHANGED <<contractTrie, classTrie, kpc, storageWork, staged, leafUpdates,
                   classUpdates, cRoot, kRoot>> /\ UNCHANGED BranchVars

\* Variant for mutation checks: a leaf-hash task that may run while the
\* storage updates are still being staged.
CLeafEarly(a) ==
    /\ cpc \in {"storage", "leaves"}
    /\ a \in StorageAddrs \ Pushed(leafUpdates)
    /\ ~ClassHashPanics(a)
    /\ leafUpdates' = Append(leafUpdates, <<a, LeafHash(a, Root(storageTrie[a]))>>)
    /\ UNCHANGED <<storageTrie, contractTrie, classTrie, cpc, kpc, storageWork,
                   staged, classUpdates, cRoot, kRoot>> /\ UNCHANGED BranchVars

\* One task of the leaf-hash par_bridge: storage_read.root(address) and
\* contract_state_leaf_hash, pushed into the collected Vec.
CLeaf(a) ==
    /\ cpc = "leaves"
    /\ a \in StorageAddrs \ Pushed(leafUpdates)
    /\ ~ClassHashPanics(a)
    /\ leafUpdates' = Append(leafUpdates, <<a, LeafHash(a, Root(storageTrie[a]))>>)
    /\ UNCHANGED <<storageTrie, contractTrie, classTrie, cpc, kpc, storageWork,
                   staged, classUpdates, cRoot, kRoot>> /\ UNCHANGED BranchVars

\* The same task when class_hash panics; the panic ends the branch.
CLeafPanic(a) ==
    /\ cpc = "leaves"
    /\ a \in StorageAddrs \ Pushed(leafUpdates)
    /\ ClassHashPanics(a)
    /\ cpc' = "panic"
    /\ UNCHANGED <<storageTrie, contractTrie, classTrie, kpc, storageWork, staged,
                   leafUpdates, classUpdates, cRoot, kRoot>> /\ UNCHANGED BranchVars

\* contract_write.update(updates), commit, apply_changes, then the root
\* read through a fresh read handler.
CUpdate ==
    /\ cpc = "leaves"
    /\ Pushed(leafUpdates) = StorageAddrs
    /\ contractTrie' = Inserted(contractTrie, leafUpdates)
    /\ cRoot' = Root(contractTrie')
    /\ cpc' = "done"
    /\ UNCHANGED <<storageTrie, classTrie, kpc, storageWork, staged, leafUpdates,
                   classUpdates, kRoot>> /\ UNCHANGED BranchVars

(***************************************************************************)
(* class_trie_root.                                                        *)
(***************************************************************************)

\* Variant for mutation checks: the compiled class hash pushed as the leaf,
\* without the Poseidon hash.
KHashUnhashed(c) ==
    /\ kpc = "hash"
    /\ c \in DeclaredClasses \ Pushed(classUpdates)
    /\ classUpdates' = Append(classUpdates, <<c, diff.declared[c]>>)
    /\ UNCHANGED <<storageTrie, contractTrie, classTrie, cpc, kpc, storageWork,
                   staged, leafUpdates, cRoot, kRoot>> /\ UNCHANGED BranchVars

\* One task of the class par_bridge: the Poseidon leaf of a declared class.
KHash(c) ==
    /\ kpc = "hash"
    /\ c \in DeclaredClasses \ Pushed(classUpdates)
    /\ classUpdates' = Append(classUpdates, <<c, ClassLeaf(diff.declared[c])>>)
    /\ UNCHANGED <<storageTrie, contractTrie, classTrie, cpc, kpc, storageWork,
                   staged, leafUpdates, cRoot, kRoot>> /\ UNCHANGED BranchVars

\* class_write.init, update(updates), commit, apply_changes; the root read.
KCommit ==
    /\ kpc = "hash"
    /\ Pushed(classUpdates) = DeclaredClasses
    /\ classTrie' = Inserted(classTrie, classUpdates)
    /\ kRoot' = Root(classTrie')
    /\ kpc' = "done"
    /\ UNCHANGED <<storageTrie, contractTrie, cpc, storageWork, staged, leafUpdates,
                   classUpdates, cRoot>> /\ UNCHANGED BranchVars

(***************************************************************************)
(* update_state_root: the join, and the blocks one after another.          *)
(***************************************************************************)
BranchState == <<storageTrie, contractTrie, classTrie, cpc, kpc, storageWork,
                 staged, leafUpdates, classUpdates, cRoot, kRoot>>

\* Both branches returned: calculate_state_root::<PoseidonHasher>.
Join ==
    /\ outcome = "running" /\ cpc = "done" /\ kpc = "done"
    /\ stateRoot' = CalculateStateRoot(cRoot, kRoot)
    /\ outcome' = "returned"
    /\ UNCHANGED BranchState
    /\ UNCHANGED <<block, diff, hasHash, classOf, nonceOf, pre>>

\* rayon::join waits for the class branch, then resumes the panic.
JoinPanic ==
    /\ outcome = "running" /\ cpc = "panic" /\ kpc = "done"
    /\ outcome' = "panicked"
    /\ UNCHANGED BranchState
    /\ UNCHANGED <<block, diff, hasHash, classOf, nonceOf, pre, stateRoot>>

\* The runtime has applied the block; update_state_root is called for the
\* next one with its own diff and block hash.
NextBlock ==
    /\ outcome = "returned" /\ block < MaxBlock
    /\ block' = block + 1
    /\ classOf' = [a \in Addrs |-> IF diff.deployed[a] # None THEN diff.deployed[a]
                                                             ELSE classOf[a]]
    /\ nonceOf' = [a \in Addrs |-> IF diff.nonces[a] # None THEN diff.nonces[a]
                                                           ELSE nonceOf[a]]
    /\ diff' \in Diffs
    /\ hasHash' \in BOOLEAN
    /\ UNCHANGED <<storageTrie, contractTrie, classTrie>>
    /\ outcome' = "running"
    /\ cpc' = "open" /\ kpc' = "hash"
    /\ storageWork' = storageTrie /\ staged' = {}
    /\ leafUpdates' = <<>> /\ classUpdates' = <<>>
    /\ cRoot' = Zero /\ kRoot' = Zero /\ stateRoot' = Zero
    /\ pre' = Tries

\* The node stops: after the last block, or after the panic.
Finished ==
    /\ outcome = "panicked" \/ (outcome = "returned" /\ block = MaxBlock)
    /\ UNCHANGED vars

Next ==
    \/ COpen \/ CCommitStorage \/ CUpdate \/ KCommit
    \/ \E a \in Addrs : CStage(a) \/ CLeaf(a) \/ CLeafPanic(a)
    \/ \E c \in ClassHashes : KHash(c)
    \/ Join \/ JoinPanic \/ NextBlock \/ Finished

Spec == Init /\ [][Next]_vars

-----------------------------------------------------------------------------
(***************************************************************************)
(* Properties.                                                             *)
(***************************************************************************)
StorageTries == [Addrs -> [SKeys -> SVals \cup {Zero}]]
StorageRoots == {Zero} \cup [SKeys -> SVals \cup {Zero}]
Leaves == {Pedersen(Pedersen(Pedersen(c, s), n), Zero) :
              c \in ClassHashes, s \in StorageRoots, n \in NonceVals \cup {Zero}}
ClassLeaves == {ClassLeaf(cc) : cc \in CompiledHashes}
ContractTries == [Addrs -> Leaves \cup {Zero}]
ClassTries == [ClassHashes -> ClassLeaves \cup {Zero}]

TypeOK ==
    /\ block \in 1..MaxBlock
    /\ diff \in Diffs
    /\ hasHash \in BOOLEAN
    /\ outcome \in {"running", "returned", "panicked"}
    /\ storageTrie \in StorageTries /\ storageWork \in StorageTries
    /\ contractTrie \in ContractTries
    /\ classTrie \in ClassTries
    /\ classOf \in [Addrs -> ClassHashes \cup {None}]
    /\ nonceOf \in [Addrs -> NonceVals \cup {Zero}]
    /\ cpc \in {"open", "storage", "leaves", "done", "panic"}
    /\ kpc \in {"hash", "done"}
    /\ staged \subseteq Addrs
    /\ leafUpdates \in Seq(Addrs \X Leaves)
    /\ classUpdates \in Seq(ClassHashes \X ClassLeaves)
    /\ cRoot \in {Zero} \cup ContractTries
    /\ kRoot \in {Zero} \cup ClassTries
    /\ pre \in [storage : StorageTries, contracts : ContractTries, classes : ClassTries]

\* The block's effect computed in one sequential pass, free of any order:
\* storage updates over the tries of the block's start, a leaf for each
\* address with storage updates, a leaf for each declared class.
SeqStorage ==
    [a \in Addrs |-> IF diff.storage[a] = None THEN pre.storage[a]
                     ELSE [k \in SKeys |-> IF diff.storage[a][k] # None
                                           THEN diff.storage[a][k]
                                           ELSE pre.storage[a][k]]]
SeqContracts ==
    [a \in Addrs |-> IF diff.storage[a] = None THEN pre.contracts[a]
                     ELSE LeafHash(a, Root(SeqStorage[a]))]
SeqClasses ==
    [c \in ClassHashes |-> IF diff.declared[c] = None THEN pre.classes[c]
                           ELSE ClassLeaf(diff.declared[c])]

\* Determinism (spec 8): whatever the interleaving of the rayon::join
\* branches and the order in which the par_bridge tasks finish, the root
\* update_state_root returns, and the storage tries it leaves, are those
\* of the sequential pass; in particular every leaf hash reads the storage
\* root this block committed.
StateRootIsSequential ==
    outcome = "returned" =>
        /\ storageTrie = SeqStorage
        /\ stateRoot = CalculateStateRoot(Root(SeqContracts), Root(SeqClasses))

\* The contract's state as of this block: the diff where it says something,
\* the chain state otherwise (an absent attribute is unchanged, spec 3).
CurClass(a) == IF diff.deployed[a] # None THEN diff.deployed[a] ELSE classOf[a]
CurNonce(a) == IF diff.nonces[a] # None THEN diff.nonces[a] ELSE nonceOf[a]
TouchedAddr(a) ==
    diff.deployed[a] # None \/ diff.nonces[a] # None \/ diff.storage[a] # None

\* Spec 4.4: after contract_trie_root, every contract the diff touches
\* (storage, deployment or nonce) has a leaf in the contracts trie, and that
\* leaf commits to the contract's class hash, its new storage root and its
\* nonce, an attribute absent from the diff being the contract's current one.
ContractLeafIsCurrent ==
    outcome = "returned" =>
        \A a \in Addrs : TouchedAddr(a) =>
            contractTrie[a] =
                Pedersen(Pedersen(Pedersen(CurClass(a), Root(storageTrie[a])),
                                  CurNonce(a)), Zero)

\* Spec 4.4 (cancellation): a commitment that does not run to completion
\* leaves no state of its block behind in the committed tries.
NoPartialCommit ==
    outcome = "panicked" => Tries = pre

====

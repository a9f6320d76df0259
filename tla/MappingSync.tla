---------------------------- MODULE MappingSync ----------------------------
(***************************************************************************)
(* The mapping sync worker of crates/client/mapping-sync/src/lib.rs.       *)
(*                                                                         *)
(* sync_blocks calls sync_one_block up to `limit` times.  sync_one_block   *)
(* works on the persisted stack of "syncing tips": when the stack is empty *)
(* it is refilled with the leaves of the Substrate block tree; tips are    *)
(* popped until fetch_header finds one that is not yet synced and not      *)
(* below sync_from; the genesis block is synced by sync_genesis_block,     *)
(* any other block by sync_block, whose tip is replaced by its parent.     *)
(* The stack is written back only on the paths that write it.              *)
(*                                                                         *)
(* The Substrate client imports blocks concurrently with the worker.  The  *)
(* mapping (is_synced, write_hashes, write_none) is abstracted to the set  *)
(* of synced blocks; every `?` that can fail before the first write is one *)
(* error outcome that ends the sync_blocks call.                           *)
(***************************************************************************)
EXTENDS Naturals, Sequences, FiniteSets, SequencesExt

CONSTANTS
    Blocks,     \* block hashes of the Substrate block tree
    Genesis,    \* the genesis block
    Parent,     \* header.parent_hash, for every block but the genesis
    Number,     \* header.number
    SyncFrom,   \* sync_from
    Limit,      \* the limit of sync_blocks
    Strategies, \* the SyncStrategy values the worker may be started with
    NoBlock     \* no operating header yet

ASSUME BlockTreeAssumption ==
    /\ IsFiniteSet(Blocks)
    /\ Genesis \in Blocks /\ NoBlock \notin Blocks
    /\ Parent \in [Blocks \ {Genesis} -> Blocks]
    /\ Number \in [Blocks -> Nat]
    /\ Number[Genesis] = 0
    /\ \A b \in Blocks \ {Genesis} : Number[b] = Number[Parent[b]] + 1
ASSUME SyncParamsAssumption ==
    /\ SyncFrom \in Nat /\ Limit \in Nat \ {0}
    /\ Strategies \subseteq {"Normal", "Parachain"} /\ Strategies # {}

VARIABLES
    imported,   \* blocks in the Substrate backend
    best,       \* client.info().best_hash
    synced,     \* blocks the mapping reports is_synced for
    tips,       \* meta().current_syncing_tips, top of the stack last
    active,     \* a sync_blocks call is running
    iter,       \* iterations of its loop done
    syncedAny,  \* its synced_any
    operating,  \* the last operating header sync_one_block worked on
    strategy    \* the SyncStrategy the worker was built with; never changes

vars == <<imported, best, synced, tips, active, iter, syncedAny, operating,
         strategy>>

\* substrate_backend.blockchain().leaves()
Leaves == {b \in imported : \A c \in imported \ {Genesis} : Parent[c] # b}

\* fetch_header(checking_tip): None when already synced or below
\* sync_from, Some(header) otherwise, Err when the header is not found.
Fetch(t) ==
    IF t \in synced THEN "none"
    ELSE IF t \notin imported THEN "err"
    ELSE IF Number[t] >= SyncFrom THEN "some"
    ELSE "none"

\* Variant for mutation checks: the leaves appended whatever the stack holds.
CandidatesAlwaysLeaves == {tips \o l : l \in SetToSeqs(Leaves)}

\* The stack sync_one_block works on: the persisted tips, or the leaves
\* in the order leaves() gives them when no tip is persisted.
Candidates == IF tips = <<>> THEN SetToSeqs(Leaves) ELSE {tips}

\* The pop loop stops at the topmost tip whose fetch is not None.
Stops(s) == {j \in 1..Len(s) : Fetch(s[j]) # "none"}
StopAt(s) == CHOOSE j \in Stops(s) : \A i \in Stops(s) : i <= j
Found(s) == Stops(s) # {} /\ Fetch(s[StopAt(s)]) = "some"
Header(s) == s[StopAt(s)]
Rest(s) == SubSeq(s, 1, StopAt(s) - 1)

\* sync_block: the mapping entries it writes for a header.  Its body
\* (write_hashes / write_none from the consensus digest) is commented
\* out; it returns Ok(()) having written nothing.
SyncBlockWrites(h) == {}

Init ==
    /\ imported = {Genesis}
    /\ best = Genesis
    /\ synced = {}
    /\ tips = <<>>
    /\ active = FALSE /\ iter = 0 /\ syncedAny = FALSE
    /\ operating = NoBlock
    /\ strategy \in Strategies

(***************************************************************************)
(* The Substrate client.                                                   *)
(***************************************************************************)

\* A block whose parent is known is imported; it may become the best block.
Import(b) ==
    /\ b \notin imported
    /\ Parent[b] \in imported
    /\ imported' = imported \cup {b}
    /\ best' \in {best, b}
    /\ UNCHANGED <<synced, tips, active, iter, syncedAny, operating, strategy>>

(***************************************************************************)
(* sync_blocks and sync_one_block.                                         *)
(***************************************************************************)

\* The worker calls sync_blocks: synced_any starts false.
StartSync ==
    /\ ~active
    /\ active' = TRUE /\ iter' = 0 /\ syncedAny' = FALSE
    /\ UNCHANGED <<imported, best, synced, tips, operating, strategy>>

\* Variant for mutation checks: a loop over 0..=limit.
ShortCircuitInclusive ==
    /\ active /\ iter <= Limit /\ syncedAny
    /\ iter' = iter + 1
    /\ UNCHANGED <<imported, best, synced, tips, active, syncedAny, operating, strategy>>

\* An iteration after synced_any became true: `||` skips the call.
ShortCircuit ==
    /\ active /\ iter < Limit /\ syncedAny
    /\ iter' = iter + 1
    /\ UNCHANGED <<imported, best, synced, tips, active, syncedAny, operating, strategy>>

\* The guard of an iteration that calls sync_one_block.
Calls == active /\ iter < Limit /\ ~syncedAny

\* No tip yields a header: the emptied stack is written, Ok(false).
SyncNone(s) ==
    /\ Calls
    /\ Stops(s) = {}
    /\ tips' = <<>>
    /\ iter' = iter + 1 /\ syncedAny' = FALSE
    /\ UNCHANGED <<imported, best, synced, active, operating, strategy>>

\* The genesis header: sync_genesis_block writes its mapping (hashes or
\* none), then the remaining stack is written, Ok(true).
SyncGenesis(s) ==
    /\ Calls
    /\ Found(s) /\ Number[Header(s)] = 0
    /\ synced' = synced \cup {Header(s)}
    /\ tips' = Rest(s)
    /\ operating' = Header(s)
    /\ iter' = iter + 1 /\ syncedAny' = TRUE
    /\ UNCHANGED <<imported, best, active, strategy>>

\* The same, when write_current_syncing_tips fails after the mapping was
\* written: the old stack stays persisted and sync_blocks returns Err.
SyncGenesisTipsErr(s) ==
    /\ Calls
    /\ Found(s) /\ Number[Header(s)] = 0
    /\ synced' = synced \cup {Header(s)}
    /\ operating' = Header(s)
    /\ active' = FALSE
    /\ UNCHANGED <<imported, best, tips, iter, syncedAny, strategy>>

\* Parachain strategy, header above the best block: Ok(false), nothing
\* written, so the popped tips stay persisted.
SyncParachainWait(s) ==
    /\ Calls
    /\ Found(s) /\ Number[Header(s)] # 0
    /\ strategy = "Parachain" /\ Number[Header(s)] > Number[best]
    /\ iter' = iter + 1 /\ syncedAny' = FALSE
    /\ UNCHANGED <<imported, best, synced, tips, active, operating, strategy>>

\* Variant for mutation checks: the parent is not pushed.
SyncBlockDroppingParent(s) ==
    /\ Calls
    /\ Found(s) /\ Number[Header(s)] # 0
    /\ ~(strategy = "Parachain" /\ Number[Header(s)] > Number[best])
    /\ tips' = Rest(s)
    /\ operating' = Header(s)
    /\ iter' = iter + 1 /\ syncedAny' = TRUE
    /\ UNCHANGED <<imported, best, synced, active, strategy>>

\* Any other header: sync_block, the parent pushed as a tip, the stack
\* written, Ok(true).
SyncBlock(s) ==
    /\ Calls
    /\ Found(s) /\ Number[Header(s)] # 0
    /\ ~(strategy = "Parachain" /\ Number[Header(s)] > Number[best])
    /\ synced' = synced \cup SyncBlockWrites(Header(s))
    /\ tips' = Append(Rest(s), Parent[Header(s)])
    /\ operating' = Header(s)
    /\ iter' = iter + 1 /\ syncedAny' = TRUE
    /\ UNCHANGED <<imported, best, active, strategy>>

\* A read before the first write fails (meta, leaves, is_synced, header,
\* the runtime API): the `?` returns Err from sync_blocks.
SyncErr ==
    /\ Calls
    /\ active' = FALSE
    /\ UNCHANGED <<imported, best, synced, tips, iter, syncedAny, operating, strategy>>

\* The loop is done: sync_blocks returns Ok(synced_any).
EndSync ==
    /\ active /\ iter = Limit
    /\ active' = FALSE
    /\ UNCHANGED <<imported, best, synced, tips, iter, syncedAny, operating, strategy>>

\* The outcomes of an iteration that does not fail.
SyncOk ==
    \/ ShortCircuit
    \/ \E s \in Candidates : SyncNone(s) \/ SyncGenesis(s)
                             \/ SyncParachainWait(s) \/ SyncBlock(s)

Next ==
    \/ \E b \in Blocks : Import(b)
    \/ StartSync \/ EndSync \/ SyncOk \/ SyncErr
    \/ \E s \in Candidates : SyncGenesisTipsErr(s)

\* The worker is polled on every import notification and on its timer, so
\* a sync_blocks call always comes and always runs to its end; a read
\* error is transient, so an iteration that can succeed does so at last.
Fairness == WF_vars(StartSync) /\ WF_vars(EndSync) /\ SF_vars(SyncOk)

Spec == Init /\ [][Next]_vars /\ Fairness

-----------------------------------------------------------------------------
(***************************************************************************)
(* Properties.                                                             *)
(***************************************************************************)
TypeOK ==
    /\ imported \subseteq Blocks /\ Genesis \in imported
    /\ best \in imported
    /\ synced \subseteq imported
    /\ tips \in Seq(imported)
    /\ active \in BOOLEAN /\ iter \in 0..Limit /\ syncedAny \in BOOLEAN
    /\ operating \in imported \cup {NoBlock}
    /\ strategy \in Strategies

\* The persisted stack never holds a tip twice: the leaves are pushed
\* only onto an empty stack, and a tip is replaced by its parent only
\* after it was popped, so two tips are never on one branch; no block is
\* walked twice in one pass over the tips.
TipsDistinct == \A i, j \in 1..Len(tips) : i # j => tips[i] # tips[j]

\* Every block the client imports at or above sync_from is, at last,
\* synced or the operating header of a sync_one_block call: no branch of
\* the tree is left unwalked, whatever imports race the worker and
\* however often a read fails.
EveryBlockWalked ==
    \A b \in Blocks : (b \in imported /\ Number[b] >= SyncFrom)
                        ~> (b \in synced \/ operating = b)

\* Under the Normal strategy every block is walked.  Under the Parachain
\* strategy a tip above the best block is left on top of the stack and
\* blocks every tip below it; once the best block stays the highest
\* imported one, every block is walked all the same: the wait of
\* sync_one_block is only ever a wait.
BestCatchesUp == <>[](\A b \in imported : Number[b] <= Number[best])
BlocksWalked == (strategy = "Normal" \/ BestCatchesUp) => EveryBlockWalked

\* Every block imported at or above sync_from is, at last, reported
\* synced by the mapping (what the body of sync_block, commented out,
\* wrote with write_hashes or write_none).
EverySyncedEventually ==
    \A b \in Blocks : (b \in imported /\ Number[b] >= SyncFrom) ~> b \in synced

====

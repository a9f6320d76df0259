--------------------------- MODULE GatewayFetcher ---------------------------
(***************************************************************************)
(* fetch_block of crates/client/deoxys/src/lib.rs: a task that fetches    *)
(* block i from the feeder gateway, pushes it on the shared BlockQueue    *)
(* under its mutex, then asks the node to build a block (call_rpc,        *)
(* engine_createBlock); only a success status moves it on to i + 1.  A    *)
(* gateway error sleeps two seconds and retries the same block.           *)
(*                                                                         *)
(* A block is its number.  The gateway's chain grows independently; the   *)
(* feeder client's own retries (RetryConfig) are inside one fetch.  The   *)
(* node side of the queue is not in the repository and is not modelled.   *)
(* The file does not compile as written (get_txs); this is the control    *)
(* flow the loop is written with.                                         *)
(***************************************************************************)
EXTENDS Naturals, Sequences, SequencesExt

CONSTANTS
    MaxBlock,   \* the gateway's chain has at most this many blocks
    MaxQueue    \* model bound: a failed RPC call is taken only while the
                \* queue is shorter (fetch_block itself has no limit)

ASSUME BoundsAssumption == MaxBlock \in Nat \ {0} /\ MaxQueue \in Nat \ {0}

VARIABLES
    head,       \* blocks 0 .. head - 1 exist on the gateway
    i,          \* the fetcher's next block number
    queue,      \* the BlockQueue contents, in push order
    pc          \* "fetch", "rpc", "sleep", or "panicked"

vars == <<head, i, queue, pc>>

\* create_block_queue: an empty VecDeque behind the mutex.
Init ==
    /\ head \in 1..MaxBlock
    /\ i = 0
    /\ queue = <<>>
    /\ pc = "fetch"

\* The gateway's chain grows.
Produce ==
    /\ head < MaxBlock
    /\ head' = head + 1
    /\ UNCHANGED <<i, queue, pc>>

\* Variant for mutation checks: a block the gateway does not have is
\* pushed as if it had been fetched.
FetchOkUnchecked ==
    /\ pc = "fetch"
    /\ queue' = Append(queue, i)
    /\ pc' = "rpc"
    /\ UNCHANGED <<head, i>>

\* starknet_client.block(i) is Ok with the block: converted, pushed under
\* the lock, the guard dropped, then call_rpc.
FetchOk ==
    /\ pc = "fetch" /\ i < head
    /\ queue' = Append(queue, i)
    /\ pc' = "rpc"
    /\ UNCHANGED <<head, i>>

\* Ok, but the gateway has no block i yet: block.unwrap() panics and the
\* task ends.
FetchMissing ==
    /\ pc = "fetch" /\ i >= head
    /\ pc' = "panicked"
    /\ UNCHANGED <<head, i, queue>>

\* Variant for mutation checks: the failed fetch counted as done.
FetchErrSkipping ==
    /\ pc = "fetch"
    /\ pc' = "sleep"
    /\ i' = i + 1
    /\ UNCHANGED <<head, queue>>

\* Err from the gateway: eprintln and sleep two seconds.
FetchErr ==
    /\ pc = "fetch"
    /\ pc' = "sleep"
    /\ UNCHANGED <<head, i, queue>>

Wake ==
    /\ pc = "sleep"
    /\ pc' = "fetch"
    /\ UNCHANGED <<head, i, queue>>

\* call_rpc returns Ok with a success status: i += 1.
RpcSuccess ==
    /\ pc = "rpc"
    /\ i' = i + 1
    /\ pc' = "fetch"
    /\ UNCHANGED <<head, queue>>

\* call_rpc returns Ok with a failure status, or Err: the loop goes round
\* with the same i, and block i is fetched and pushed again.  The code
\* retries without limit; the guard on MaxQueue only keeps the state
\* space finite, and no property or theorem rests on it.
RpcFailed ==
    /\ pc = "rpc" /\ Len(queue) < MaxQueue
    /\ pc' = "fetch"
    /\ UNCHANGED <<head, i, queue>>

\* The task has ended; the node runs on without it.
Ended ==
    /\ pc = "panicked"
    /\ UNCHANGED vars

Next ==
    \/ Produce \/ Ended
    \/ FetchOk \/ FetchMissing \/ FetchErr \/ Wake
    \/ RpcSuccess \/ RpcFailed

\* The loop runs in a tokio task that is always polled again; the gateway
\* and the node answer at last when they can (SF: their failures keep
\* re-enabling the step).
Fairness ==
    /\ WF_vars(FetchMissing) /\ WF_vars(Wake)
    /\ SF_vars(FetchOk) /\ SF_vars(RpcSuccess)

Spec == Init /\ [][Next]_vars /\ Fairness

-----------------------------------------------------------------------------
(***************************************************************************)
(* Properties.                                                             *)
(***************************************************************************)
TypeOK ==
    /\ head \in 1..MaxBlock
    /\ i \in 0..MaxBlock
    /\ queue \in Seq(0..MaxBlock - 1)
    /\ pc \in {"fetch", "rpc", "sleep", "panicked"}

\* The queue is the chain in order: it starts at block 0, each entry is
\* the one before it or its successor, and it holds exactly the blocks
\* below i, with i itself once it was pushed; whatever the gateway and
\* RPC failures, no block is skipped or reordered.
QueueInOrder ==
    /\ queue # <<>> => queue[1] = 0
    /\ \A j \in 1..Len(queue) - 1 : queue[j + 1] \in {queue[j], queue[j] + 1}
    /\ ToSet(queue) \in {0..(i - 1), 0..i}

\* Every block the gateway has is at last pushed on the queue: the task
\* keeps polling the gateway for the next block.
EveryBlockQueued ==
    \A n \in 0..MaxBlock - 1 : (head > n) ~> (\E j \in 1..Len(queue) : queue[j] = n)

====

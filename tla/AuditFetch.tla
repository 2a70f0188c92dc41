----------------------------- MODULE AuditFetch -----------------------------
(***************************************************************************)
(* read_tree_start of tree-status (tools/tree-status/src/main.rs): the    *)
(* concurrent fetch side shared by show-tree and check-tree-leafs.  One   *)
(* signature feed (find_signatures, of the txn_forwarder crate) yields    *)
(* the tree's signatures; Workers fetch-and-decode tasks each loop:      *)
(* take the feed's mutex, await the next item, take an id from sig_id,   *)
(* release the mutex, then fetch and decode the transaction (process_tx,  *)
(* parse_tx_sequence) and send (id, signature, events) on the unbounded   *)
(* result channel.  The tasks are joined by try_join_all, so the first    *)
(* error of any task drops every task and the consumer with it.           *)
(* A transaction is its position in the history; it carries the sequence  *)
(* numbers its change-log events applied, each to one leaf.               *)
(***************************************************************************)
EXTENDS TreeHistory

CONSTANTS
    Workers,      \* the fetch tasks (concurrency)
    MaxSeq,       \* sequence numbers applied to the tree
    MaxBatch,     \* most change-log events one transaction carries
    Height,       \* the tree's height: leaves 0..2^Height-1
    MaxFailures,  \* bound on feed, fetch and decode failures
    NULL

ASSUME /\ Workers # {} /\ MaxSeq \in Nat \ {0}
       /\ Height \in Nat /\ MaxFailures \in Nat

Leaves == 0..(2^Height - 1)

VARIABLES
    txs,          \* the tree's transaction history, oldest first
    leafOf,       \* the leaf each sequence number's event updated
    feedPos,      \* the next position the feed yields
    feedErr,      \* the feed yields an error item at this position (or NULL)
    sigId,        \* sig_id: the next id handed out
    wState,       \* per task: idle, processing [id, sig], or exited
    results,      \* the result channel: <<id, sig, events>> in send order
    fetchPhase,   \* "running", "joined" (every task returned Ok), "aborted"
    abortCause,   \* what aborted the join: "feed", "tx" or NULL
    failures

fetchVars == <<txs, leafOf, feedPos, feedErr, sigId, wState, results,
               fetchPhase, abortCause, failures>>

Sigs == DOMAIN txs

TaskIdle == [st |-> "idle", id |-> NULL, sig |-> NULL]
TaskExited == [st |-> "exited", id |-> NULL, sig |-> NULL]

-----------------------------------------------------------------------------
(* Decoding a transaction (parse_tx_sequence).                            *)

\* Mutant: the height is taken as the path's length, not its length - 1.
NodeIdxToLeafIdxPathLen(index, tree_height) == index - 2^(tree_height + 1)

\* node_idx_to_leaf_idx: a node index of the complete binary tree minus the
\* number of nodes above the leaf layer.
node_idx_to_leaf_idx(index, tree_height) == index - 2^tree_height

\* The change-log event of sequence number s as the noop program logs it:
\* the node index of the path's first (leaf) node, and the path's length.
Event(s) == [seq |-> s, index |-> 2^Height + leafOf[s], pathLen |-> Height + 1]

\* The (seq, leaf index) pairs parse_tx_sequence yields for this tree: none
\* for a failed transaction, one per change-log event otherwise.
ParseTx(t) ==
    IF ~txs[t].ok THEN {}
    ELSE { <<e.seq, node_idx_to_leaf_idx(e.index, e.pathLen - 1)>> :
              e \in { Event(s) : s \in txs[t].seqs } }

-----------------------------------------------------------------------------

\* Mutant: ids are handed out from one.
FetchInitIdFromOne ==
    /\ txs \in Histories(MaxSeq, MaxBatch)
    /\ leafOf \in [1..MaxSeq -> Leaves]
    /\ feedPos = 1
    /\ feedErr \in {NULL} \cup (IF MaxFailures > 0 THEN 1..Len(txs) + 1 ELSE {})
    /\ sigId = 1
    /\ wState = [w \in Workers |-> TaskIdle]
    /\ results = <<>>
    /\ fetchPhase = "running"
    /\ abortCause = NULL
    /\ failures = IF feedErr = NULL THEN 0 ELSE 1

FetchInit ==
    /\ txs \in Histories(MaxSeq, MaxBatch)
    /\ leafOf \in [1..MaxSeq -> Leaves]
    /\ feedPos = 1
    /\ feedErr \in {NULL} \cup (IF MaxFailures > 0 THEN 1..Len(txs) + 1 ELSE {})
    /\ sigId = 0
    /\ wState = [w \in Workers |-> TaskIdle]
    /\ results = <<>>
    /\ fetchPhase = "running"
    /\ abortCause = NULL
    /\ failures = IF feedErr = NULL THEN 0 ELSE 1

\* Mutant: a task keeps waiting on a closed feed instead of returning.
ClaimNoExit(w) ==
    /\ fetchPhase = "running"
    /\ wState[w].st = "idle"
    /\ feedPos <= Len(txs) \/ feedPos = feedErr
    /\ sigId' = sigId + 1
    /\ \/ /\ feedPos = feedErr
          /\ fetchPhase' = "aborted"
          /\ abortCause' = "feed"
          /\ UNCHANGED <<feedPos, wState>>
       \/ /\ feedPos # feedErr
          /\ feedPos' = feedPos + 1
          /\ wState' = [wState EXCEPT ![w] = [st |-> "busy", id |-> sigId, sig |-> feedPos]]
          /\ UNCHANGED <<fetchPhase, abortCause>>
    /\ UNCHANGED <<txs, leafOf, feedErr, results, failures>>

\* Under the feed's lock: receive the next item and fetch_add the id.  An
\* error item makes the task return Err (maybe_sig?), aborting the join;
\* a closed feed makes it return Ok.
Claim(w) ==
    /\ fetchPhase = "running"
    /\ wState[w].st = "idle"
    /\ sigId' = sigId + 1
    /\ \/ /\ feedPos = feedErr
          /\ fetchPhase' = "aborted"
          /\ abortCause' = "feed"
          /\ UNCHANGED <<feedPos, wState>>
       \/ /\ feedPos # feedErr
          /\ feedPos <= Len(txs)
          /\ feedPos' = feedPos + 1
          /\ wState' = [wState EXCEPT ![w] = [st |-> "busy", id |-> sigId, sig |-> feedPos]]
          /\ UNCHANGED <<fetchPhase, abortCause>>
       \/ /\ feedPos # feedErr
          /\ feedPos > Len(txs)
          /\ wState' = [wState EXCEPT ![w] = TaskExited]
          /\ UNCHANGED <<feedPos, fetchPhase, abortCause>>
    /\ UNCHANGED <<txs, leafOf, feedErr, results, failures>>

\* process_tx then tx.send: fetch with retries and decode; an exhausted
\* fetch or an undecodable transaction, message or instruction makes the
\* task return Err, aborting the join.
Finish(w) ==
    LET job == wState[w] IN
    /\ fetchPhase = "running"
    /\ job.st = "busy"
    /\ \/ /\ results' = Append(results, <<job.id, job.sig, ParseTx(job.sig)>>)
          /\ wState' = [wState EXCEPT ![w] = TaskIdle]
          /\ UNCHANGED <<fetchPhase, abortCause, failures>>
       \/ /\ failures < MaxFailures
          /\ fetchPhase' = "aborted"
          /\ abortCause' = "tx"
          /\ failures' = failures + 1
          /\ UNCHANGED <<results, wState>>
    /\ UNCHANGED <<txs, leafOf, feedPos, feedErr, sigId>>

\* Mutant: the join completes as soon as one task has returned.
JoinFirst ==
    /\ fetchPhase = "running"
    /\ \E w \in Workers : wState[w].st = "exited"
    /\ fetchPhase' = "joined"
    /\ UNCHANGED <<txs, leafOf, feedPos, feedErr, sigId, wState, results,
                   abortCause, failures>>

\* try_join_all completes once every task returned Ok; the tasks' senders
\* are dropped and the result channel is closed.
Join ==
    /\ fetchPhase = "running"
    /\ \A w \in Workers : wState[w].st = "exited"
    /\ fetchPhase' = "joined"
    /\ UNCHANGED <<txs, leafOf, feedPos, feedErr, sigId, wState, results,
                   abortCause, failures>>

FetchNext == Join \/ \E w \in Workers : Claim(w) \/ Finish(w)

\* Every task keeps being polled while it can make progress, and the
\* runtime completes try_join_all once every task has returned.
FetchFairness == /\ \A w \in Workers : WF_fetchVars(Claim(w) \/ Finish(w))
                 /\ WF_fetchVars(Join)

FetchTypeOK ==
    /\ feedPos \in 1..Len(txs) + 1
    /\ feedErr \in {NULL} \cup 1..Len(txs) + 1
    /\ sigId \in Nat
    /\ wState \in [Workers -> {TaskIdle, TaskExited} \cup [st : {"busy"}, id : Nat, sig : Sigs]]
    /\ results \in Seq(Nat \X Sigs \X SUBSET ((1..MaxSeq) \X Leaves))
    /\ fetchPhase \in {"running", "joined", "aborted"}
    /\ abortCause \in {NULL, "feed", "tx"}
    /\ failures \in 0..MaxFailures

\* Spec 7: a transaction whose fetch exhausts its retries (FetchError) or
\* that cannot be decoded (DecodeError) is dropped and logged, never fatal;
\* read_tree_start's tasks return Err from process_tx(..)? and try_join_all
\* then drops every task.
TxFailureNotFatal == abortCause # "tx"
=============================================================================

--------------------------- MODULE CheckTreeLeafs ---------------------------
(***************************************************************************)
(* check-tree-leafs: check_tree_leafs of tree-status                      *)
(* (tools/tree-status/src/main.rs) consumes the result channel of         *)
(* read_tree_start (AuditFetch), joined with the fetch tasks by try_join. *)
(* Each result's (seq, leaf) pairs update the map leaf -> (signature,     *)
(* seq) of the highest seq seen; once the channel closes, the per-leaf    *)
(* aggregate of the index (max asset.seq joined with cl_items) is read    *)
(* and cross-checked: every index row is removed from the map, reported   *)
(* as a seq mismatch or as not found on chain, and what is left in the    *)
(* map is reported as not found in the index, its signature written out   *)
(* for re-forwarding.  The index holds a set of the tree's sequence       *)
(* numbers; its row for a leaf carries the highest indexed seq that       *)
(* updated that leaf.                                                     *)
(***************************************************************************)
EXTENDS AuditFetch

VARIABLES
    indexed,      \* the sequence numbers the index holds for the tree
    recvPos,      \* the next result the consumer receives
    leafs,        \* leaf index -> <<signature, seq>> of the highest seq seen
    auditPhase,   \* "collecting", "reported" or "dberror"
    mismatched,   \* leaves reported "invalid seq"
    notOnChain,   \* leaves reported "not found in blockchain"
    notInDb,      \* leaves reported "not found in db"
    output        \* the signatures written to the output

leafVars == <<indexed, recvPos, leafs, auditPhase, mismatched, notOnChain,
              notInDb, output>>
vars == <<fetchVars, leafVars>>

EmptyMap == [l \in {} |-> NULL]

\* The highest member of a nonempty finite set of sequence numbers.
MaxOf(S) == CHOOSE s \in S : \A x \in S : x <= s

\* The index's per-leaf aggregate: one row per leaf some indexed sequence
\* number updated, carrying the highest such number.
LeafMaxSeqOf(seqs) ==
    [l \in { leafOf[s] : s \in seqs } |-> MaxOf({ s \in seqs : leafOf[s] = l })]

Init ==
    /\ FetchInit
    /\ indexed \in SUBSET (1..MaxSeq)
    /\ recvPos = 1
    /\ leafs = EmptyMap
    /\ auditPhase = "collecting"
    /\ mismatched = {}
    /\ notOnChain = {}
    /\ notInDb = {}
    /\ output = {}

\* Mutant: the entry keeps the first observation of the leaf (or_insert
\* without the seq comparison).
LeafUpdateFirstSeen(sig, ev, m) ==
    IF ev[2] \in DOMAIN m THEN m ELSE m @@ (ev[2] :> <<sig, ev[1]>>)

\* One (seq, leaf) pair of a result: entry(leaf).or_insert((sig, seq)), then
\* replaced when its seq is lower.
LeafUpdate(sig, ev, m) ==
    IF ev[2] \notin DOMAIN m THEN m @@ (ev[2] :> <<sig, ev[1]>>)
    ELSE IF m[ev[2]][2] < ev[1] THEN [m EXCEPT ![ev[2]] = <<sig, ev[1]>>]
    ELSE m

\* One iteration of the receive loop: fold the result's pairs into leafs.
Receive ==
    LET r == results[recvPos] IN
    /\ fetchPhase # "aborted"
    /\ auditPhase = "collecting"
    /\ recvPos <= Len(results)
    /\ recvPos' = recvPos + 1
    /\ leafs' = FoldSet(LAMBDA ev, m : LeafUpdate(r[2], ev, m), leafs, r[3])
    /\ UNCHANGED <<fetchVars, indexed, auditPhase, mismatched, notOnChain,
                   notInDb, output>>

\* After the channel closes: query the index (query_all(..)? fails the
\* audit) and cross-check it against leafs.
Report ==
    LET db == LeafMaxSeqOf(indexed) IN
    /\ fetchPhase = "joined"
    /\ auditPhase = "collecting"
    /\ recvPos > Len(results)
    /\ \/ /\ auditPhase' = "reported"
          /\ mismatched' = { l \in DOMAIN db \cap DOMAIN leafs : db[l] # leafs[l][2] }
          /\ notOnChain' = DOMAIN db \ DOMAIN leafs
          /\ notInDb' = DOMAIN leafs \ DOMAIN db
          /\ output' = { leafs[l][1] : l \in DOMAIN leafs \ DOMAIN db }
          /\ leafs' = [l \in DOMAIN leafs \ DOMAIN db |-> leafs[l]]
          /\ UNCHANGED failures
       \/ /\ failures < MaxFailures
          /\ auditPhase' = "dberror"
          /\ failures' = failures + 1
          /\ UNCHANGED <<mismatched, notOnChain, notInDb, output, leafs>>
    /\ UNCHANGED <<txs, leafOf, feedPos, feedErr, sigId, wState, results,
                   fetchPhase, abortCause, indexed, recvPos>>

Next ==
    \/ FetchNext /\ UNCHANGED leafVars
    \/ Receive
    \/ Report

Spec == Init /\ [][Next]_vars /\ FetchFairness /\ WF_vars(Receive) /\ WF_vars(Report)

-----------------------------------------------------------------------------

TypeOK ==
    /\ FetchTypeOK
    /\ indexed \subseteq 1..MaxSeq
    /\ recvPos \in 1..Len(results) + 1
    /\ DOMAIN leafs \subseteq Leaves
    /\ \A l \in DOMAIN leafs : leafs[l] \in Sigs \X (1..MaxSeq)
    /\ auditPhase \in {"collecting", "reported", "dberror"}
    /\ mismatched \cup notOnChain \cup notInDb \subseteq Leaves
    /\ output \subseteq Sigs

\* What the chain says of a leaf: the highest sequence number of a
\* successful transaction that updated it, and that transaction.
ChainLeaves == { leafOf[s] : s \in UNION { txs[t].seqs : t \in Sigs } }
ChainLatest(l) == MaxOf({ s \in 1..MaxSeq : leafOf[s] = l })
LatestTx(l) == CHOOSE t \in Sigs : ChainLatest(l) \in txs[t].seqs

\* A finished leaf audit is exact, whatever order the fetch tasks' results
\* arrived in: it reports as mismatched exactly the leaves whose latest
\* on-chain update the index holds a different seq for, as missing from
\* the index exactly the leaves the index has no row for, and writes out
\* exactly the transactions of those leaves' latest updates.
ReportsExact ==
    auditPhase = "reported" =>
        LET db == LeafMaxSeqOf(indexed) IN
        /\ mismatched = { l \in ChainLeaves \cap DOMAIN db : db[l] # ChainLatest(l) }
        /\ notInDb = ChainLeaves \ DOMAIN db
        /\ notOnChain = DOMAIN db \ ChainLeaves
        /\ output = { LatestTx(l) : l \in notInDb }
=============================================================================

------------------------------ MODULE ShowTree ------------------------------
(***************************************************************************)
(* show-tree: read_tree of tree-status (tools/tree-status/src/main.rs)    *)
(* consumes the result channel of read_tree_start (AuditFetch) while the  *)
(* fetch tasks run, joined with them by try_join.  Each received result   *)
(* is inserted in a map by id; if the entry for next_id is then present   *)
(* it is printed and next_id advances by one.  When the channel closes,   *)
(* the entries left in the map are printed sorted by id.  If the fetch    *)
(* side fails, try_join drops the consumer and printing stops.            *)
(***************************************************************************)
EXTENDS AuditFetch, FiniteSets

VARIABLES
    recvPos,    \* the next result the consumer receives
    buf,        \* the reorder map: id -> signature
    nextId,     \* next_id
    printed,    \* the printed entries <<id, signature>>, in print order
    showPhase   \* "collecting" or "done"

showVars == <<recvPos, buf, nextId, printed, showPhase>>
vars == <<fetchVars, showVars>>

Init ==
    /\ FetchInit
    /\ recvPos = 1
    /\ buf = [i \in {} |-> NULL]
    /\ nextId = 0
    /\ printed = <<>>
    /\ showPhase = "collecting"

\* One iteration of the receive loop: map.insert(id, ..), then at most one
\* map.remove(&next_id) printed.
Receive ==
    LET r == results[recvPos]
        m == [i \in DOMAIN buf \cup {r[1]} |-> IF i = r[1] THEN r[2] ELSE buf[i]]
    IN
    /\ fetchPhase # "aborted"
    /\ showPhase = "collecting"
    /\ recvPos <= Len(results)
    /\ recvPos' = recvPos + 1
    /\ \/ /\ nextId \in DOMAIN m
          /\ printed' = Append(printed, <<nextId, m[nextId]>>)
          /\ buf' = [i \in DOMAIN m \ {nextId} |-> m[i]]
          /\ nextId' = nextId + 1
       \/ /\ nextId \notin DOMAIN m
          /\ buf' = m
          /\ UNCHANGED <<printed, nextId>>
    /\ UNCHANGED <<showPhase, fetchVars>>

\* Mutant: the leftover entries are printed in descending id order.
SortedEntriesDesc(m) ==
    LET ids == AscendingSeq(DOMAIN m)
    IN  [k \in 1..Len(ids) |-> <<ids[Len(ids) + 1 - k], m[ids[Len(ids) + 1 - k]]>>]

\* The entries of a map as a list sorted by id.
SortedEntries(m) ==
    LET ids == AscendingSeq(DOMAIN m)
    IN  [k \in 1..Len(ids) |-> <<ids[k], m[ids[k]]>>]

\* After the channel closes: print what is left, sorted by id.
Flush ==
    /\ fetchPhase = "joined"
    /\ showPhase = "collecting"
    /\ recvPos > Len(results)
    /\ printed' = printed \o SortedEntries(buf)
    /\ buf' = [i \in {} |-> NULL]
    /\ showPhase' = "done"
    /\ UNCHANGED <<recvPos, nextId, fetchVars>>

Next ==
    \/ FetchNext /\ UNCHANGED showVars
    \/ Receive
    \/ Flush

Spec == Init /\ [][Next]_vars /\ FetchFairness /\ WF_vars(Receive) /\ WF_vars(Flush)

-----------------------------------------------------------------------------

TypeOK ==
    /\ FetchTypeOK
    /\ recvPos \in 1..Len(results) + 1
    /\ DOMAIN buf \subseteq 0..(Len(txs) - 1)
    /\ \A i \in DOMAIN buf : buf[i] \in Sigs
    /\ nextId \in 0..Len(txs)
    /\ printed \in Seq((0..(Len(txs) - 1)) \X Sigs)
    /\ showPhase \in {"collecting", "done"}

\* The printed signatures, and the signatures in the order the feed issued them.
PrintedSigs == [k \in DOMAIN printed |-> printed[k][2]]
FeedOrder == [k \in 1..Len(txs) |-> k]

Ordered == INSTANCE OrderedPrinter WITH history <- FeedOrder, out <- PrintedSigs

\* Refinement: show-tree prints the history in the feed's order, whatever
\* order the fetch tasks complete in; an id taken under the feed's lock
\* together with the signature, the one-step reorder map and the final
\* sorted flush together never print out of order, twice, or with a hole.
ImplementsOrderedPrinter == Ordered!Spec

\* When show-tree finishes normally it has printed every transaction of
\* the history, each with the id of its position in the feed.
PrintsWholeHistory ==
    showPhase = "done" =>
        printed = [k \in 1..Len(txs) |-> <<k - 1, k>>]
=============================================================================

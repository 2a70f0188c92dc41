-------------------------- MODULE MCAuditCommands --------------------------
(***************************************************************************)
(* The two audit commands of tree-status that share read_tree_start        *)
(* (AuditFetch): main's match on the action runs either show-tree          *)
(* (ShowTree) or check-tree-leafs (CheckTreeLeafs) for a tree.  The        *)
(* command is chosen once, as main does; the variables of the command not  *)
(* chosen keep their initial values.  Two fetch tasks.                     *)
(***************************************************************************)
EXTENDS Integers

CONSTANTS Workers, MaxSeq, MaxBatch, Height, MaxFailures, NULL, w1, w2

MCWorkers == {w1, w2}

VARIABLES
    command,
    txs, leafOf, feedPos, feedErr, sigId, wState, results, fetchPhase,
    abortCause, failures,
    recvPos,
    buf, nextId, printed, showPhase,
    indexed, leafs, auditPhase, mismatched, notOnChain, notInDb, output

S == INSTANCE ShowTree
C == INSTANCE CheckTreeLeafs

showOnly == <<buf, nextId, printed, showPhase>>
leafOnly == <<indexed, leafs, auditPhase, mismatched, notOnChain, notInDb, output>>
fetchVars == <<txs, leafOf, feedPos, feedErr, sigId, wState, results,
               fetchPhase, abortCause, failures>>
auditVars == <<command, fetchVars, recvPos, showOnly, leafOnly>>

Commands == {"show-tree", "check-tree-leafs"}

Init ==
    /\ command \in Commands
    /\ S!Init
    /\ C!Init
    /\ command = "show-tree" => indexed = {}

\* A step of show-tree, or of check-tree-leafs, for the command chosen.
Show(A) == command = "show-tree" /\ A /\ UNCHANGED <<command, leafOnly>>
Leafs(A) == command = "check-tree-leafs" /\ A /\ UNCHANGED <<command, showOnly>>

Next == Show(S!Next) \/ Leafs(C!Next)

\* The fetch tasks, and the consumer of whichever command runs, are polled
\* while they can make progress.
Spec ==
    /\ Init /\ [][Next]_auditVars
    /\ S!FetchFairness
    /\ WF_auditVars(Show(S!Receive)) /\ WF_auditVars(Show(S!Flush))
    /\ WF_auditVars(Leafs(C!Receive)) /\ WF_auditVars(Leafs(C!Report))

-----------------------------------------------------------------------------

TypeOK ==
    /\ command \in Commands
    /\ S!TypeOK
    /\ C!TypeOK

\* See ShowTree and CheckTreeLeafs.
PrintsWholeHistory == S!PrintsWholeHistory
ImplementsOrderedPrinter == S!ImplementsOrderedPrinter
ReportsExact == C!ReportsExact

\* The audit command always ends: show-tree printed everything,
\* check-tree-leafs reported or its index query failed, or the fetch side
\* aborted the join.
CommandTerminates ==
    <>(\/ showPhase = "done"
       \/ auditPhase \in {"reported", "dberror"}
       \/ fetchPhase = "aborted")

\* See AuditFetch.
TxFailureNotFatal == S!TxFailureNotFatal
=============================================================================

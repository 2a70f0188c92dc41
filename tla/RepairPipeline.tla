--------------------------- MODULE RepairPipeline ---------------------------
(***************************************************************************)
(* check_tree and fix_tree of tree-status (tools/tree-status/src/main.rs):*)
(* the check of the index against the chain, which check_tree ends by     *)
(* logging the missing ranges, and fix_tree's three-stage repair         *)
(* pipeline of find_and_forward_txns_for_missing_seqs run in a crossbeam  *)
(* scope:                                                                  *)
(*   - a range producer thread sends build_seq_ranges(missing) on the     *)
(*     unbounded range channel and drops its sender;                      *)
(*   - BWorkers threads take ranges and page backwards through the        *)
(*     tree's signature history between two indexed transactions          *)
(*     (find_signatures_for_missing_seq_range), sending every signature   *)
(*     on the unbounded signature channel;                                *)
(*   - CWorkers threads take signatures, fetch the transaction and        *)
(*     forward successful ones to the ingester's stream (send_txn); any   *)
(*     error there is unwrap()ed, panicking the thread.                   *)
(* The chain history and the index are fixed for one invocation: a        *)
(* transaction is its position in the history (its signature), carries   *)
(* the set of tree sequence numbers its change-log events applied, and    *)
(* succeeded or failed.  The index is the set of sequence numbers with a  *)
(* cl_audits row, each pointing at the transaction that carries it.      *)
(***************************************************************************)
EXTENDS SeqRanges, TreeHistory

CONSTANTS
    BWorkers,     \* signature resolver threads (get_sigs_concurrency)
    CWorkers,     \* fetch-and-forward threads (get_txn_concurrency)
    MaxSeq,       \* the tree's on-chain sequence counter
    MaxBatch,     \* most change-log events one transaction carries
    PageLimit,    \* limit of one getSignaturesForAddress page (1000)
    MaxFailures,  \* bound on RPC, database and stream failures
    NULL

ASSUME /\ BWorkers # {} /\ CWorkers # {}
       /\ MaxSeq \in Nat \ {0} /\ MaxBatch \in Nat \ {0}
       /\ PageLimit \in Nat \ {0} /\ MaxFailures \in Nat

VARIABLES
    command,      \* the subcommand: "fix-tree" or "check-tree"
    txs,          \* the tree's transaction history, oldest first
    indexed,      \* sequence numbers present in cl_audits
    phase,        \* "start", "pipeline", or how fix_tree ended
    missing,      \* get_missing_seq's result
    rQueue,       \* the range channel
    produced,     \* the range producer has sent everything and dropped r_sender
    bState,       \* per resolver: idle, paging a window, or exited
    sQueue,       \* the signature channel
    sOpen,        \* resolvers still holding a clone of s_sender
    cState,       \* per forwarder: "idle", "exited" or "panicked"
    sent,         \* history: every signature sent on the signature channel
    forwarded,    \* signatures pushed to the ingester's transaction stream
    lost,         \* signatures whose fetch failed after its retries
    streamFailed, \* a push to the ingester's stream failed
    failedRanges, \* ranges whose resolution returned an error (logged)
    failures      \* failures injected so far

vars == <<command, txs, indexed, phase, missing, rQueue, produced, bState, sQueue,
          sOpen, cState, sent, forwarded, lost, streamFailed, failedRanges, failures>>

-----------------------------------------------------------------------------
(* The environment: histories and indexes the tree can be in.             *)

Sigs == DOMAIN txs
OnchainSeq == MaxSeq

\* The transaction whose change-log event has sequence number s.
TxOf(s) == CHOOSE t \in Sigs : s \in txs[t].seqs

Idle == [st |-> "idle", range |-> NULL, before |-> NULL, until |-> NULL]

Init ==
    /\ command \in {"fix-tree", "check-tree"}
    /\ txs \in Histories(MaxSeq, MaxBatch)
    /\ indexed \in SUBSET (1..MaxSeq)
    /\ phase = "start"
    /\ missing = <<>>
    /\ rQueue = <<>>
    /\ produced = FALSE
    /\ bState = [b \in BWorkers |-> Idle]
    /\ sQueue = <<>>
    /\ sOpen = {}
    /\ cState = [c \in CWorkers |-> "idle"]
    /\ sent = <<>>
    /\ forwarded = {}
    /\ lost = {}
    /\ streamFailed = FALSE
    /\ failedRanges = {}
    /\ failures = 0

-----------------------------------------------------------------------------
(* check_tree and fix_tree: read the chain's counter and the index       *)
(* summary; only when max(seq) differs from count(distinct seq) are the   *)
(* missing ranges logged (check-tree) or repaired (fix-tree).             *)

\* A read of the chain, the database or the messenger set-up fails.
CheckTreeFails ==
    /\ phase = "start"
    /\ failures < MaxFailures
    /\ phase' = "error"
    /\ failures' = failures + 1
    /\ UNCHANGED <<command, txs, indexed, missing, rQueue, produced, bState, sQueue,
                   sOpen, cState, sent, forwarded, lost, streamFailed, failedRanges>>

\* Mutant: the main s_sender is kept alive during the scope.
StartSendersWithMain == BWorkers \cup {NULL}

\* The main s_sender is dropped right after the resolvers are spawned, so
\* the signature channel stays open exactly while a resolver runs.
StartSenders == BWorkers

\* max(seq) and count(distinct seq) over the tree's cl_audits rows.
IndexedMaxSeq == Max(indexed)
IndexedCntSeq == Cardinality(indexed)

\* The numbers of 1..max_seq with no cl_audits row, in the order of the
\* generate_series they are filtered from.
get_missing_seq(max_seq) == AscendingSeq((1..max_seq) \ indexed)

\* check_tree: the missing ranges are built and logged, nothing repaired.
ReportGaps ==
    /\ command = "check-tree"
    /\ phase' = "reported"
    /\ UNCHANGED sOpen

\* fix_tree: the repair pipeline starts on the missing numbers.
StartRepair ==
    /\ command = "fix-tree"
    /\ phase' = "pipeline"
    /\ sOpen' = StartSenders

\* The reads and tests check_tree and fix_tree share: the tip is compared
\* (and only logged), then the tree has gaps when max(seq) differs from
\* count(distinct seq).
CheckTree ==
    /\ phase = "start"
    \* max(seq) over no rows is NULL and does not decode into MaxSeqItem
    /\ \/ /\ indexed = {}
          /\ phase' = "error"
          /\ UNCHANGED <<missing, sOpen>>
       \/ /\ indexed # {}
          /\ IndexedMaxSeq # IndexedCntSeq
          /\ missing' = get_missing_seq(OnchainSeq)
          /\ ReportGaps \/ StartRepair
       \/ /\ indexed # {}
          /\ IndexedMaxSeq = IndexedCntSeq
          /\ phase' = "nogaps"
          /\ UNCHANGED <<missing, sOpen>>
    /\ UNCHANGED <<command, txs, indexed, rQueue, produced, bState, sQueue, cState,
                   sent, forwarded, lost, streamFailed, failedRanges, failures>>

\* The range producer thread.
Produce ==
    /\ phase = "pipeline"
    /\ ~produced
    /\ rQueue' = build_seq_ranges(missing)
    /\ produced' = TRUE
    /\ UNCHANGED <<command, txs, indexed, phase, missing, bState, sQueue, sOpen,
                   cState, sent, forwarded, lost, streamFailed, failedRanges, failures>>

-----------------------------------------------------------------------------
(* Signature resolvers.                                                   *)

\* Mutant: the upper bound is looked up from the start of the range.
BeforeSigFromStart(range) ==
    LET above == {s \in indexed : s >= range[1]}
    IN  IF above = {} THEN NULL ELSE TxOf(Min(above))

\* The transaction of the least indexed seq >= end of the range.
BeforeSig(range) ==
    LET above == {s \in indexed : s >= range[2]}
    IN  IF above = {} THEN NULL ELSE TxOf(Min(above))

\* The transaction of the greatest indexed seq <= start of the range.
UntilSig(range) ==
    LET below == {s \in indexed : s <= range[1]}
    IN  IF below = {} THEN NULL ELSE TxOf(Max(below))

\* A resolver takes the next range and queries cl_audits for its bounds.
BTake(b) ==
    /\ bState[b].st = "idle"
    /\ rQueue # <<>>
    /\ rQueue' = Tail(rQueue)
    /\ LET range == Head(rQueue) IN
       \/ /\ bState' = [bState EXCEPT ![b] =
                [st |-> "paging", range |-> range,
                 before |-> BeforeSig(range), until |-> UntilSig(range)]]
          /\ UNCHANGED <<failedRanges, failures>>
       \/ /\ failures < MaxFailures
          /\ failedRanges' = failedRanges \cup {range}
          /\ failures' = failures + 1
          /\ UNCHANGED bState
    /\ UNCHANGED <<command, txs, indexed, phase, missing, produced, sQueue, sOpen,
                   cState, sent, forwarded, lost, streamFailed>>

\* The signatures strictly between until and before, newest first.
Window(w) ==
    Reverse(AscendingSeq({t \in Sigs : /\ (w.until = NULL \/ t > w.until)
                                      /\ (w.before = NULL \/ t < w.before)}))

\* The page getSignaturesForAddress returns for the window.
Page(w) ==
    LET all == Window(w) IN SubSeq(all, 1, IF Len(all) < PageLimit THEN Len(all) ELSE PageLimit)

\* Mutant: the cursor is the newest signature of the page.
NextBeforeNewest(page) == page[1]

\* Mutant: the cursor steps one past the oldest signature.
NextBeforeOffByOne(page) == page[Len(page)] - 1

\* The next cursor: the oldest signature of the page.
NextBefore(page) == page[Len(page)]

\* One iteration of the paging loop: fetch a page, send every signature,
\* move before to the last one; an empty page ends the range.  The
\* original s_recv lives until the scope ends, so sends never fail.
BPage(b) ==
    LET w == bState[b]
        page == Page(w)
    IN
    /\ w.st = "paging"
    /\ \/ /\ page = <<>>
          /\ bState' = [bState EXCEPT ![b] = Idle]
          /\ UNCHANGED <<sQueue, sent, failedRanges, failures>>
       \/ /\ page # <<>>
          /\ sQueue' = sQueue \o page
          /\ sent' = sent \o page
          /\ bState' = [bState EXCEPT ![b].before = NextBefore(page)]
          /\ UNCHANGED <<failedRanges, failures>>
       \/ /\ failures < MaxFailures
          /\ bState' = [bState EXCEPT ![b] = Idle]
          /\ failedRanges' = failedRanges \cup {w.range}
          /\ failures' = failures + 1
          /\ UNCHANGED <<sQueue, sent>>
    /\ UNCHANGED <<command, txs, indexed, phase, missing, rQueue, produced, sOpen,
                   cState, forwarded, lost, streamFailed>>

\* r_recv.iter() ends once the range channel is empty and disconnected;
\* the thread's s_sender clone is dropped.
BExit(b) ==
    /\ bState[b].st = "idle"
    /\ rQueue = <<>>
    /\ produced
    /\ bState' = [bState EXCEPT ![b].st = "exited"]
    /\ sOpen' = sOpen \ {b}
    /\ UNCHANGED <<command, txs, indexed, phase, missing, rQueue, produced, sQueue,
                   cState, sent, forwarded, lost, streamFailed, failedRanges, failures>>

-----------------------------------------------------------------------------
(* Fetch-and-forward workers.                                             *)

\* send_txn(sig).unwrap(): fetch with retries, drop failed transactions,
\* serialize and push to the stream under the messenger lock.  A fetch,
\* serialization or stream error panics the thread.
CSend(c) ==
    /\ phase = "pipeline"
    /\ cState[c] = "idle"
    /\ sQueue # <<>>
    /\ sQueue' = Tail(sQueue)
    /\ LET sig == Head(sQueue) IN
       \/ /\ ~txs[sig].ok
          /\ UNCHANGED <<cState, forwarded, lost, streamFailed, failures>>
       \/ /\ txs[sig].ok
          /\ forwarded' = forwarded \cup {sig}
          /\ UNCHANGED <<cState, lost, streamFailed, failures>>
       \/ /\ failures < MaxFailures
          /\ cState' = [cState EXCEPT ![c] = "panicked"]
          /\ lost' = lost \cup {sig}
          /\ failures' = failures + 1
          /\ UNCHANGED <<forwarded, streamFailed>>
       \/ /\ txs[sig].ok
          /\ failures < MaxFailures
          /\ cState' = [cState EXCEPT ![c] = "panicked"]
          /\ streamFailed' = TRUE
          /\ failures' = failures + 1
          /\ UNCHANGED <<forwarded, lost>>
    /\ UNCHANGED <<command, txs, indexed, phase, missing, rQueue, produced, bState,
                   sOpen, sent, failedRanges>>

\* s_recv.iter() ends once the signature channel is empty and every
\* s_sender is gone.
CExit(c) ==
    /\ phase = "pipeline"
    /\ cState[c] = "idle"
    /\ sQueue = <<>>
    /\ sOpen = {}
    /\ cState' = [cState EXCEPT ![c] = "exited"]
    /\ UNCHANGED <<command, txs, indexed, phase, missing, rQueue, produced, bState,
                   sQueue, sOpen, sent, forwarded, lost, streamFailed, failedRanges, failures>>

\* The scope joins every thread; a panicked one makes scope(..).unwrap()
\* panic fix_tree.
ScopeJoin ==
    /\ phase = "pipeline"
    /\ produced
    /\ \A b \in BWorkers : bState[b].st = "exited"
    /\ \A c \in CWorkers : cState[c] # "idle"
    /\ phase' = IF \E c \in CWorkers : cState[c] = "panicked"
                THEN "panicked" ELSE "done"
    /\ UNCHANGED <<command, txs, indexed, missing, rQueue, produced, bState, sQueue,
                   sOpen, cState, sent, forwarded, lost, streamFailed, failedRanges, failures>>

\* One step of a resolver thread, and of a forwarder thread.
BStep(b) == BTake(b) \/ BPage(b) \/ BExit(b)
CStep(c) == CSend(c) \/ CExit(c)

Next ==
    \/ CheckTreeFails \/ CheckTree \/ Produce \/ ScopeJoin
    \/ \E b \in BWorkers : BStep(b)
    \/ \E c \in CWorkers : CStep(c)

\* Every thread is an OS thread that keeps running while it can.
Fairness ==
    /\ WF_vars(CheckTree) /\ WF_vars(Produce) /\ WF_vars(ScopeJoin)
    /\ \A b \in BWorkers : WF_vars(BStep(b))
    /\ \A c \in CWorkers : WF_vars(CStep(c))

Spec == Init /\ [][Next]_vars /\ Fairness

-----------------------------------------------------------------------------
(* Properties.                                                            *)

Ranges == (1..MaxSeq) \X (1..MaxSeq)
BStates == {Idle} \cup
    [st : {"paging"}, range : Ranges, before : Sigs \cup {NULL}, until : Sigs \cup {NULL}]
    \cup [st : {"exited"}, range : {NULL}, before : {NULL}, until : {NULL}]

TypeOK ==
    /\ txs \in Seq(TxType(MaxSeq))
    /\ indexed \subseteq 1..MaxSeq
    /\ command \in {"fix-tree", "check-tree"}
    /\ phase \in {"start", "pipeline", "error", "nogaps", "reported", "done", "panicked"}
    /\ missing \in Seq(1..MaxSeq)
    /\ rQueue \in Seq(Ranges)
    /\ produced \in BOOLEAN
    /\ bState \in [BWorkers -> BStates]
    /\ sQueue \in Seq(Sigs)
    /\ sOpen \subseteq BWorkers
    /\ cState \in [CWorkers -> {"idle", "exited", "panicked"}]
    /\ sent \in Seq(Sigs)
    /\ forwarded \subseteq Sigs /\ lost \subseteq Sigs
    /\ streamFailed \in BOOLEAN
    /\ failedRanges \subseteq Ranges
    /\ failures \in 0..MaxFailures

\* Successful transactions none of whose sequence numbers is indexed.
GapTxs == {t \in Sigs : txs[t].ok /\ txs[t].seqs # {} /\ txs[t].seqs \cap indexed = {}}

\* The transaction is inside a range whose resolution failed (and was logged).
InFailedRange(t) == \E r \in failedRanges : txs[t].seqs \subseteq r[1]..r[2]

\* No signature is ever sent twice on the signature channel: the paging
\* cursor moves strictly backwards within a range, and the windows of two
\* different joined ranges (bounded by the indexed transactions around
\* each range) never overlap, whatever the resolvers' interleaving.
NoDuplicateSignature == IsInjective(sent)

\* When fix_tree completes without a panic, every successful transaction
\* all of whose sequence numbers are missing from the index has been
\* pushed to the ingester's stream, unless the resolution of its range
\* failed and was logged: the window between the indexed transactions
\* around each range, paged to exhaustion, covers every such transaction.
RepairCompleteOrSurfaced ==
    phase = "done" => \A t \in GapTxs : t \in forwarded \/ InFailedRange(t)

\* fix_tree always finishes: every thread's input channel is eventually
\* disconnected, so the scope joins.
Termination == <>(phase \in {"error", "nogaps", "reported", "done", "panicked"})
-----------------------------------------------------------------------------
(* What the spec says of fix_tree and the code does not do; each is       *)
(* checked by a run expected to find it violated.                        *)

\* Spec 8 (end-to-end scenario): the repair finds and forwards the
\* transaction whose change-log event carries each missing sequence number.
MissingSeqTxForwarded ==
    phase = "done" =>
        \A t \in Sigs : txs[t].ok /\ txs[t].seqs \ indexed # {} => t \in forwarded

\* Spec 2 and 3: a tree is up to date only when every sequence number up to
\* the on-chain counter is indexed; fix_tree reports "no gaps" (and repairs
\* nothing) only for such a tree.
NoGapsReportIsTrue ==
    phase = "nogaps" => (1..OnchainSeq) \subseteq indexed

\* Spec 7: a transaction whose fetch exhausts its retries is dropped and
\* logged and the pipeline continues: unless the stream itself failed,
\* every successful signature sent to the forwarders is forwarded or was
\* the one whose fetch failed.
FetchFailureIsolated ==
    phase \in {"done", "panicked"} /\ ~streamFailed =>
        \A s \in ToSet(sent) : txs[s].ok => s \in forwarded \cup lost
=============================================================================

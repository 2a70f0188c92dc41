---------------------------- MODULE RepairIngest ----------------------------
(***************************************************************************)
(* fix-tree composed with the ingester it feeds: the signatures the        *)
(* forwarder threads of RepairPipeline push are messages of the            *)
(* transaction stream that nft_ingester's consumer (IngestStream) handles, *)
(* writing their sequence numbers to the index while fix-tree is still     *)
(* running.  The stream may also hold transactions of the live feed that  *)
(* were not ingested yet when fix-tree read the index (inflight), so the  *)
(* index fix-tree reads changes between its reads.                         *)
(***************************************************************************)
EXTENDS RepairPipeline

CONSTANTS
    MaxRecv,        \* most messages one recv returns
    MaxIngestFails, \* bound on failed instructions and failed acks
    MaxCrashes      \* bound on panics of the ingester's listener task

VARIABLES
    inflight,     \* live-feed transactions on the stream, not yet ingested
    published,    \* every message of the stream: forwarded \cup inflight
    delivered, acked, batch, cur, ixDone, ids, ingestFails, crashes, task

ingestOnly == <<inflight, published, delivered, acked, batch, cur, ixDone, ids, ingestFails, crashes, task>>
pipelineOnly == <<command, txs, phase, missing, rQueue, produced, bState, sQueue, sOpen,
                  cState, sent, forwarded, lost, streamFailed, failedRanges, failures>>
allVars == <<vars, ingestOnly>>

I == INSTANCE IngestStream

CInit ==
    /\ Init
    /\ inflight \in SUBSET { t \in Sigs : txs[t].ok /\ txs[t].seqs \cap indexed = {} }
    /\ published = inflight
    /\ I!IngestInit

\* Steps of the ingester's consumer, fix-tree's threads standing still.
IConnect == I!Connect /\ UNCHANGED <<pipelineOnly, inflight>>
IRecv == I!Recv /\ UNCHANGED <<pipelineOnly, inflight>>
IHandleIx == I!HandleIx /\ UNCHANGED <<pipelineOnly, inflight>>
IAck == I!Ack /\ UNCHANGED <<pipelineOnly, inflight>>
ICrash == I!Crash /\ UNCHANGED <<pipelineOnly, inflight>>

CNext ==
    \/ Next /\ published' = forwarded' \cup inflight
            /\ UNCHANGED <<inflight, delivered, acked, batch, cur, ixDone, ids,
                           ingestFails, crashes, task>>
    \/ IConnect \/ IRecv \/ IHandleIx \/ IAck \/ ICrash

CSpec == CInit /\ [][CNext]_allVars /\ Fairness
            /\ WF_allVars(IConnect) /\ WF_allVars(IRecv) /\ WF_allVars(IHandleIx) /\ WF_allVars(IAck)

-----------------------------------------------------------------------------

CTypeOK == TypeOK /\ I!IngestTypeOK /\ published = forwarded \cup inflight

\* Every message on the stream has been acked and the consumer is idle.
Drained == published \subseteq acked /\ batch = <<>>

\* Spec 8 end to end: once fix-tree has completed and the ingester has
\* drained the stream without a failed instruction or ack, every
\* successful transaction all of whose sequence numbers fix-tree found
\* missing is wholly in the index, unless the resolution of its range
\* failed and was logged; this holds although the ingester writes to the
\* index between fix-tree's reads of it, panics and handles messages
\* again.  (A failed instruction loses its sequence number for good:
\* AckedFullyWritten, MCIngestPartialAck.cfg.)
RepairedEndToEnd ==
    phase = "done" /\ Drained /\ ingestFails = 0 =>
        \A t \in Sigs :
            txs[t].ok /\ txs[t].seqs # {} /\ txs[t].seqs \subseteq ToSet(missing)
                => txs[t].seqs \subseteq indexed \/ InFailedRange(t)

\* Every transaction on the stream, forwarded by fix-tree or left by the
\* live feed, eventually has all of its sequence numbers in the index: a
\* listener task whose messenger fails to connect is replaced by a new
\* one, and a message left pending by a panic of the task is handed out
\* again and handled again.
ForwardedEventuallyIndexed ==
    \A t \in 1..MaxSeq + 1 :
        t \in published ~> t \in DOMAIN txs /\ txs[t].seqs \subseteq indexed
=============================================================================

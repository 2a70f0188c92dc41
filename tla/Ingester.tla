------------------------------ MODULE Ingester ------------------------------
(***************************************************************************)
(* main of nft_ingester (nft_ingester/src/main.rs): it reads its          *)
(* configuration and connects to the database (each step unwrap()ed, so a  *)
(* failure panics the process), then spawns the tasks of its role into a   *)
(* JoinSet and waits for ctrl-c, after which it shuts the tasks down and   *)
(* returns.  The roles All and Ingester await service_transaction_stream   *)
(* and service_account_stream, which spawn the two stream consumers        *)
(* (IngestStream and AccountStream); the other roles never await them, so *)
(* no consumer runs.  The backfiller and the background tasks are not      *)
(* modelled.  The two consumers share nothing but the process.            *)
(***************************************************************************)
EXTENDS Integers, SequencesExt

CONSTANTS
    MaxSeq, MaxBatch, MaxRecv, MaxIngestFails, MaxCrashes, NULL,
    Msgs, Kinds, MaxFails, MaxConnectFails

VARIABLES
    role,       \* config.role.unwrap_or(IngesterRole::All)
    metrics,    \* which of config.metrics_host and metrics_port are set
    phase,      \* "starting", "running", "panicked" or "stopped"
    txs, indexed, published, delivered, acked, batch, cur, ixDone, ids,
    ingestFails, crashes, task,
    kind, applied, aDelivered, aAcked, aBatch, aCur, aIds, aFails, aTask,
    connectFails

T == INSTANCE IngestStream
A == INSTANCE AccountStream
        WITH delivered <- aDelivered, acked <- aAcked, batch <- aBatch,
             cur <- aCur, ids <- aIds, fails <- aFails, task <- aTask

txnVars == <<txs, indexed, published, delivered, acked, batch, cur, ixDone,
             ids, ingestFails, crashes, task>>
accountVars == <<kind, applied, aDelivered, aAcked, aBatch, aCur, aIds, aFails,
                 aTask, connectFails>>
vars == <<role, metrics, phase, txnVars, accountVars>>

IngesterRoles == {"All", "Backfiller", "BackgroundTaskRunner", "Ingester"}

\* The match arms that spawn txn_stream.await and account_stream.await.
StreamRoles == {"All", "Ingester"}

Init ==
    /\ role \in IngesterRoles
    /\ metrics \in SUBSET {"host", "port"}
    /\ phase = "starting"
    /\ T!Init
    /\ A!Init

\* setup_metrics: when metrics_host or metrics_port is set it unwraps both,
\* so a configuration with only one of them panics main.
MetricsPanics == metrics # {} /\ metrics # {"host", "port"}

\* Figment's extract, setup_metrics (its UDP socket's bind and sink, each
\* unwrap()ed), the database URL, the pool's connect and the task
\* manager's sender, each unwrap()ed: the process runs, or panics.
Start ==
    /\ phase = "starting"
    /\ \/ MetricsPanics /\ phase' = "panicked"
       \/ ~MetricsPanics /\ phase' \in {"running", "panicked"}
    /\ UNCHANGED <<role, metrics, txnVars, accountVars>>

\* ctrl_c resolves (or fails, which is printed): tasks.shutdown() and main
\* returns, ending both consumers whatever they were doing.
CtrlC ==
    /\ phase = "running"
    /\ phase' = "stopped"
    /\ UNCHANGED <<role, metrics, txnVars, accountVars>>

\* A step of the transaction consumer, and of the account consumer, while
\* the process runs a role that spawned them.
Txn(X) ==
    /\ phase = "running" /\ role \in StreamRoles
    /\ X
    /\ UNCHANGED <<role, metrics, phase, txs, accountVars>>
Account(X) ==
    /\ phase = "running" /\ role \in StreamRoles
    /\ X
    /\ UNCHANGED <<role, metrics, phase, txnVars>>

\* The account stream hands message m out in some recv.
RecvOf(m) == Account(\E b \in A!Batches : m \in ToSet(b) /\ A!RecvBatch(b))

Next ==
    \/ Start \/ CtrlC
    \/ Txn(T!IngestNext)
    \/ Account(A!Next)

\* main and both listener tasks are polled while they can go on (ctrl-c is
\* the operator's and never forced); the consumer group hands every pending
\* message out again in some recv (strong fairness: a message can stay
\* pending while the task is busy with another batch).
Spec ==
    /\ Init /\ [][Next]_vars
    /\ WF_vars(Start)
    /\ WF_vars(Txn(T!Connect)) /\ WF_vars(Txn(T!Recv)) /\ WF_vars(Txn(T!HandleIx)) /\ WF_vars(Txn(T!Ack))
    /\ WF_vars(Account(A!Connect)) /\ WF_vars(Account(A!Handle)) /\ WF_vars(Account(A!Ack))
    /\ \A m \in Msgs : SF_vars(RecvOf(m))

-----------------------------------------------------------------------------

\* handle_account skips an account message that is no AccountInfo
\* flatbuffer and goes on, and the listener task is respawned after a
\* panic, so while the ingester runs, every account update on the stream
\* is eventually written and acked, whatever else the batches it arrives
\* in hold.
UpdateEventuallyAcked ==
    \A m \in Msgs :
        phase = "running" /\ role \in StreamRoles /\ kind[m] = "update"
            ~> (m \in applied /\ m \in aAcked) \/ phase = "stopped"
=============================================================================

---------------------------- MODULE IngestStream ----------------------------
(***************************************************************************)
(* The transaction-stream consumer of nft_ingester                         *)
(* (nft_ingester/src/main.rs): service_transaction_stream runs a task      *)
(* that loops messenger.recv -> handle_transaction -> ack_msg, and spawns  *)
(* a fresh task (with a fresh messenger) whenever the task panics.         *)
(* handle_transaction handles the instructions of every received           *)
(* transaction one after the other and collects the message id once per   *)
(* successful instruction; the ids are acked only when there are any.      *)
(* A transaction's instructions are its change-log events: handling one    *)
(* with success writes its sequence number to the index (cl_audits),      *)
(* idempotently.  The stream (plerkle_messenger over a Redis consumer      *)
(* group) keeps a received message pending until it is acked and hands a  *)
(* pending message out again later.                                        *)
(***************************************************************************)
EXTENDS TreeHistory

CONSTANTS
    MaxSeq,         \* the tree's on-chain sequence counter
    MaxBatch,       \* most change-log events one transaction carries
    MaxRecv,        \* most messages one recv returns
    MaxIngestFails, \* bound on failed instructions and failed acks
    MaxCrashes,     \* bound on panics of the listener task
    NULL

VARIABLES
    txs,          \* the tree's transaction history, oldest first
    indexed,      \* sequence numbers present in cl_audits
    published,    \* signatures whose transaction was pushed to the stream
    delivered,    \* messages the consumer group has handed out at least once
    acked,        \* messages acked (no longer pending)
    batch,        \* the messages of the recv being handled, in order
    cur,          \* position in batch of the message being handled
    ixDone,       \* its instructions already handled
    ids,          \* ids collected for the ack
    ingestFails,
    crashes,
    task          \* the listener task: "connecting" or "listening"

ingestVars == <<indexed, published, delivered, acked, batch, cur, ixDone, ids,
                ingestFails, crashes, task>>

\* The messages recv may return: new ones, and pending ones handed out again.
Receivable == (published \ delivered) \cup (delivered \ acked)

\* The consumer before its first recv, no message handed out yet.
IngestInit ==
    /\ delivered = {} /\ acked = {}
    /\ batch = <<>> /\ cur = 1 /\ ixDone = {} /\ ids = {}
    /\ ingestFails = 0 /\ crashes = 0
    /\ task = "connecting"

-----------------------------------------------------------------------------

\* A new listener task: T::new(messenger_config).await.unwrap() connects the
\* messenger, or panics the task while Redis is unreachable, and the outer
\* loop spawns the next task at once, with no delay.
Connect ==
    /\ task = "connecting"
    /\ \/ task' = "listening" /\ UNCHANGED crashes
       \/ crashes < MaxCrashes /\ crashes' = crashes + 1 /\ UNCHANGED task
    /\ UNCHANGED <<indexed, published, delivered, acked, batch, cur, ixDone, ids,
                   ingestFails>>

-----------------------------------------------------------------------------

\* Mutant: the consumer only ever reads new messages, never its pending ones.
RecvNewOnly ==
    /\ task = "listening" /\ batch = <<>>
    /\ \E b \in UNION { [1..n -> published \ delivered] : n \in 1..MaxRecv } :
          /\ IsInjective(b)
          /\ batch' = b
          /\ delivered' = delivered \cup ToSet(b)
    /\ UNCHANGED <<indexed, published, acked, cur, ixDone, ids, ingestFails, crashes, task>>

\* messenger.recv: a batch of distinct receivable messages, marked delivered.
Recv ==
    /\ task = "listening" /\ batch = <<>>
    /\ \E b \in UNION { [1..n -> Receivable] : n \in 1..MaxRecv } :
          /\ IsInjective(b)
          /\ batch' = b
          /\ delivered' = delivered \cup ToSet(b)
    /\ UNCHANGED <<indexed, published, acked, cur, ixDone, ids, ingestFails, crashes, task>>

\* Mutant: the message is left after its first instruction.
HandleFirstIxOnly ==
    LET m == batch[cur]
        s == Min(txs[m].seqs \ ixDone)
    IN
    /\ batch # <<>> /\ cur <= Len(batch)
    /\ \/ /\ indexed' = indexed \cup {s}
          /\ ids' = ids \cup {m}
          /\ UNCHANGED ingestFails
       \/ /\ ingestFails < MaxIngestFails
          /\ ingestFails' = ingestFails + 1
          /\ UNCHANGED <<indexed, ids>>
    /\ cur' = cur + 1
    /\ ixDone' = {}
    /\ UNCHANGED <<published, delivered, acked, batch, crashes, task>>

\* process_instruction for the next instruction of the current message: on
\* success its sequence number is written and the id pushed; an error is
\* printed and the loop goes on.  After the last instruction the next
\* message of the batch is taken.
HandleIx ==
    LET m == batch[cur]
        s == Min(txs[m].seqs \ ixDone)
        last == ixDone \cup {s} = txs[m].seqs
    IN
    /\ batch # <<>> /\ cur <= Len(batch)
    /\ \/ /\ indexed' = indexed \cup {s}
          /\ ids' = ids \cup {m}
          /\ UNCHANGED ingestFails
       \/ /\ ingestFails < MaxIngestFails
          /\ ingestFails' = ingestFails + 1
          /\ UNCHANGED <<indexed, ids>>
    /\ cur' = IF last THEN cur + 1 ELSE cur
    /\ ixDone' = IF last THEN {} ELSE ixDone \cup {s}
    /\ UNCHANGED <<published, delivered, acked, batch, crashes, task>>

\* Mutant: the collected ids are not cleared after the ack.
AckKeepsIds ==
    /\ batch # <<>> /\ cur > Len(batch)
    /\ \/ /\ ids # {}
          /\ acked' = acked \cup ids
          /\ UNCHANGED ingestFails
       \/ /\ ids # {}
          /\ ingestFails < MaxIngestFails
          /\ ingestFails' = ingestFails + 1
          /\ UNCHANGED acked
       \/ /\ ids = {}
          /\ UNCHANGED <<acked, ingestFails>>
    /\ batch' = <<>> /\ cur' = 1
    /\ UNCHANGED <<indexed, published, delivered, ixDone, ids, crashes, task>>

\* After the batch: ack_msg(ids) if ids is nonempty; an ack error is
\* printed and the messages stay pending.
Ack ==
    /\ batch # <<>> /\ cur > Len(batch)
    /\ \/ /\ ids # {}
          /\ acked' = acked \cup ids
          /\ UNCHANGED ingestFails
       \/ /\ ids # {}
          /\ ingestFails < MaxIngestFails
          /\ ingestFails' = ingestFails + 1
          /\ UNCHANGED acked
       \/ /\ ids = {}
          /\ UNCHANGED <<acked, ingestFails>>
    /\ batch' = <<>> /\ cur' = 1 /\ ids' = {}
    /\ UNCHANGED <<indexed, published, delivered, ixDone, crashes, task>>

\* The listener task panics while handling a batch; the outer loop spawns a
\* new task, which connects a new messenger.  What was written stays
\* written, what was not acked stays pending.
Crash ==
    /\ batch # <<>>
    /\ crashes < MaxCrashes
    /\ crashes' = crashes + 1
    /\ task' = "connecting"
    /\ batch' = <<>> /\ cur' = 1 /\ ixDone' = {} /\ ids' = {}
    /\ UNCHANGED <<indexed, published, delivered, acked, ingestFails>>

IngestNext == Connect \/ Recv \/ HandleIx \/ Ack \/ Crash

\* The task is polled while it can make progress (a panicked task is
\* respawned by the outer loop at once), and the stream hands out again
\* every message left pending.
IngestFairness == WF_ingestVars(Connect) /\ WF_ingestVars(Recv) /\ WF_ingestVars(HandleIx) /\ WF_ingestVars(Ack)

-----------------------------------------------------------------------------
(* The consumer alone, over a stream holding some successful transactions *)
(* of the history; the index holds any part of the other ones.            *)

vars == <<txs, ingestVars>>

\* Sequence numbers of a set of transactions.
SeqsOf(ts) == UNION { txs[t].seqs : t \in ts }

Init ==
    /\ txs \in Histories(MaxSeq, MaxBatch)
    /\ published \in SUBSET { t \in DOMAIN txs : txs[t].ok } \ {{}}
    /\ indexed \in SUBSET ((1..MaxSeq) \ SeqsOf(published))
    /\ IngestInit

Next == IngestNext /\ UNCHANGED txs

Spec == Init /\ [][Next]_vars /\ IngestFairness

-----------------------------------------------------------------------------

IngestTypeOK ==
    /\ indexed \subseteq 1..MaxSeq
    /\ published \subseteq DOMAIN txs
    /\ delivered \subseteq published /\ acked \subseteq delivered
    /\ batch \in Seq(published) /\ cur \in 1..MaxRecv + 1
    /\ ids \subseteq ToSet(batch)
    /\ ingestFails \in 0..MaxIngestFails /\ crashes \in 0..MaxCrashes
    /\ task \in {"connecting", "listening"}
    /\ task = "connecting" => batch = <<>>

TypeOK == txs \in Seq(TxType(MaxSeq)) /\ IngestTypeOK

\* Spec 8: once a forwarded transaction has been ingested (acked), all of
\* its sequence numbers are in the index, so a re-check finds no gap.
AckedFullyWritten == \A m \in acked : txs[m].seqs \subseteq indexed
=============================================================================

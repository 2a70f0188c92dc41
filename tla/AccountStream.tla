---------------------------- MODULE AccountStream ----------------------------
(***************************************************************************)
(* The account-stream consumer of nft_ingester (nft_ingester/src/main.rs): *)
(* service_account_stream loops messenger.recv -> handle_account ->        *)
(* ack_msg in a task that is spawned again whenever it panics.             *)
(* handle_account skips a message that is no AccountInfo flatbuffer       *)
(* (continue), unwraps the update's owner (a panic of the task when it is *)
(* absent), applies the update and collects the id on success; the ids   *)
(* are acked only when there are any.  The stream keeps a received        *)
(* message pending until it is acked and hands pending messages out      *)
(* again.                                                                 *)
(***************************************************************************)
EXTENDS Integers, Sequences, SequencesExt

CONSTANTS
    Msgs,       \* the messages of the stream
    Kinds,      \* what a message may be: "update", "undecodable", "noowner"
    MaxRecv,    \* most messages one recv returns
    MaxFails,   \* bound on failed updates and failed acks
    MaxConnectFails \* bound on failed connects of the messenger

VARIABLES
    kind,       \* kind[m]: what message m carries
    applied,    \* messages whose account update was written
    delivered,  \* messages handed out at least once
    acked,      \* messages acked
    batch,      \* the messages of the recv being handled
    cur,        \* the position in batch being handled
    ids,        \* ids collected for the ack
    fails,
    task,       \* the listener task: "connecting" or "listening"
    connectFails

vars == <<kind, applied, delivered, acked, batch, cur, ids, fails, task, connectFails>>

Init ==
    /\ kind \in [Msgs -> Kinds]
    /\ applied = {} /\ delivered = {} /\ acked = {}
    /\ batch = <<>> /\ cur = 1 /\ ids = {} /\ fails = 0
    /\ task = "connecting" /\ connectFails = 0

\* A new listener task: T::new(messenger_config).await.unwrap() connects, or
\* panics the task, and the outer loop spawns the next one at once.
Connect ==
    /\ task = "connecting"
    /\ \/ task' = "listening" /\ UNCHANGED connectFails
       \/ connectFails < MaxConnectFails /\ connectFails' = connectFails + 1
          /\ UNCHANGED task
    /\ UNCHANGED <<kind, applied, delivered, acked, batch, cur, ids, fails>>

\* Every message is on the stream from the start; recv may return new ones
\* and pending ones.
Receivable == Msgs \ acked

\* messenger.recv: a batch of distinct receivable messages.
RecvBatch(b) ==
    /\ task = "listening" /\ batch = <<>>
    /\ IsInjective(b)
    /\ batch' = b
    /\ delivered' = delivered \cup ToSet(b)
    /\ UNCHANGED <<kind, applied, acked, cur, ids, fails, task, connectFails>>

Batches == UNION { [1..n -> Receivable] : n \in 1..MaxRecv }

Recv == \E b \in Batches : RecvBatch(b)

\* One message of handle_account: an undecodable one is skipped; the owner
\* unwrap panics the task, which a fresh task, connecting a new messenger,
\* replaces with an empty batch; an update is applied (id pushed) or fails (printed).
Handle ==
    LET m == batch[cur] IN
    /\ batch # <<>> /\ cur <= Len(batch)
    /\ \/ /\ kind[m] = "undecodable"
          /\ cur' = cur + 1
          /\ UNCHANGED <<applied, batch, ids, fails, task>>
       \/ /\ kind[m] = "noowner"
          /\ batch' = <<>> /\ cur' = 1 /\ ids' = {} /\ task' = "connecting"
          /\ UNCHANGED <<applied, fails>>
       \/ /\ kind[m] = "update"
          /\ cur' = cur + 1
          /\ \/ applied' = applied \cup {m} /\ ids' = ids \cup {m} /\ UNCHANGED fails
             \/ fails < MaxFails /\ fails' = fails + 1 /\ UNCHANGED <<applied, ids>>
          /\ UNCHANGED <<batch, task>>
    /\ UNCHANGED <<kind, delivered, acked, connectFails>>

\* After the batch: ack_msg(ids) when ids is nonempty; a failed ack is
\* printed and leaves the messages pending.
Ack ==
    /\ batch # <<>> /\ cur > Len(batch)
    /\ \/ ids # {} /\ acked' = acked \cup ids /\ UNCHANGED fails
       \/ ids # {} /\ fails < MaxFails /\ fails' = fails + 1 /\ UNCHANGED acked
       \/ ids = {} /\ UNCHANGED <<acked, fails>>
    /\ batch' = <<>> /\ cur' = 1 /\ ids' = {}
    /\ UNCHANGED <<kind, applied, delivered, task, connectFails>>

Next == Connect \/ Recv \/ Handle \/ Ack
=============================================================================

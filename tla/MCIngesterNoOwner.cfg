\* handle_account skips an undecodable account message; two account
\* messages, each an update, an undecodable message or an update without
\* owner, recv batches of two; one failed connect of the account
\* messenger; the transaction stream holds a one-number
\* tree's transactions; no failed update or ack.
CONSTANTS
    m1 = m1
    m2 = m2
    Msgs = {m1, m2}
    Kinds = {"update", "undecodable", "noowner"}
    MaxSeq = 1
    MaxBatch = 1
    MaxRecv = 2
    MaxIngestFails = 0
    MaxCrashes = 0
    MaxFails = 0
    MaxConnectFails = 1
    NULL = NULL
SPECIFICATION Spec
PROPERTIES
    UpdateEventuallyAcked
\* Both consumers block in recv once everything is acked.
CHECK_DEADLOCK FALSE

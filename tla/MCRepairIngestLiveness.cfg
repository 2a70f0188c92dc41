\* Liveness of fix-tree and of the ingester it feeds, under weak fairness
\* of every thread and of the consumer task.  Liveness checking is
\* costlier, so the tree has two sequence numbers; one resolver and one
\* forwarder, one fix-tree failure, one panic of the ingester's task and no
\* failed instruction (a failed instruction is never retried:
\* MCIngestPartialAck.cfg).
CONSTANTS
    b1 = b1
    c1 = c1
    BWorkers <- MCBWorkers
    CWorkers <- MCCWorkers
    MaximumJoinGap = 1
    MaxSeq = 2
    MaxBatch = 2
    PageLimit = 2
    MaxFailures = 1
    MaxRecv = 1
    MaxIngestFails = 0
    MaxCrashes = 1
    NULL = NULL
SPECIFICATION CSpec
PROPERTIES
    Termination
    ForwardedEventuallyIndexed
\* fix_tree returns and the consumer then blocks in recv.
CHECK_DEADLOCK FALSE

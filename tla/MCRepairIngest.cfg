\* fix-tree and the ingester together: one resolver and one forwarder,
\* three sequence numbers in transactions of up to two events, live-feed
\* transactions possibly still on the stream; one fix-tree failure, one
\* failed instruction or ack of the ingester and one panic of its task.
\* The join gap of 1 keeps two separated missing numbers in two ranges;
\* the page limit is scaled as in MCRepairPipeline.cfg.
CONSTANTS
    b1 = b1
    c1 = c1
    BWorkers <- MCBWorkers
    CWorkers <- MCCWorkers
    MaximumJoinGap = 1
    MaxSeq = 3
    MaxBatch = 2
    PageLimit = 2
    MaxFailures = 1
    MaxRecv = 1
    MaxIngestFails = 1
    MaxCrashes = 1
    NULL = NULL
SPECIFICATION CSpec
INVARIANTS
    CTypeOK
    RepairedEndToEnd
\* fix_tree returns and the consumer then blocks in recv.
CHECK_DEADLOCK FALSE

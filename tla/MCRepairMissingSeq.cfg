\* Spec 8: the transaction carrying each missing seq is forwarded.  No
\* failures are injected: the repair misses it by itself.
CONSTANTS
    b1 = b1
    b2 = b2
    c1 = c1
    c2 = c2
    BWorkers <- MCBWorkers
    CWorkers <- MCCWorkers
    MaximumJoinGap = 2
    MaxSeq = 4
    MaxBatch = 2
    PageLimit = 2
    MaxFailures = 0
    NULL = NULL
SPECIFICATION Spec
INVARIANT
    MissingSeqTxForwarded
CHECK_DEADLOCK FALSE

\* Spec 7: one failed fetch does not stop the others being forwarded.
\* One forwarder thread (--concurrency 1) and one injected failure.
CONSTANTS
    b1 = b1
    b2 = b2
    c1 = c1
    c2 = c2
    BWorkers <- MCBWorkers
    CWorkers <- MCOneCWorker
    MaximumJoinGap = 2
    MaxSeq = 4
    MaxBatch = 2
    PageLimit = 2
    MaxFailures = 1
    NULL = NULL
SPECIFICATION Spec
INVARIANT
    FetchFailureIsolated
CHECK_DEADLOCK FALSE

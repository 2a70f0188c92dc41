\* Spec 7 says a failed fetch or decode skips that transaction; either
\* audit command, two fetch tasks, one injected failure.
CONSTANTS
    w1 = w1
    w2 = w2
    Workers <- MCWorkers
    MaxSeq = 3
    MaxBatch = 2
    Height = 1
    MaxFailures = 1
    NULL = NULL
SPECIFICATION Spec
INVARIANT
    TxFailureNotFatal
CHECK_DEADLOCK FALSE

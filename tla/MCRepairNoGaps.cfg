\* Spec 2-3: fix_tree reports "no gaps" only for a fully indexed tree.
CONSTANTS
    b1 = b1
    b2 = b2
    c1 = c1
    c2 = c2
    BWorkers <- MCBWorkers
    CWorkers <- MCCWorkers
    MaximumJoinGap = 2
    MaxSeq = 4
    MaxBatch = 2
    PageLimit = 2
    MaxFailures = 0
    NULL = NULL
SPECIFICATION Spec
INVARIANT
    NoGapsReportIsTrue
CHECK_DEADLOCK FALSE

\* maximum_join_gap is scaled from 10 to 2 and the page limit from 1000 to 2
\* so that, within six sequence numbers, a repair has two separate ranges
\* and a range needs several pages.  The two threads of each pool are
\* interchangeable (safety only, so symmetry is sound).
CONSTANTS
    b1 = b1
    b2 = b2
    c1 = c1
    c2 = c2
    BWorkers <- MCBWorkers
    CWorkers <- MCCWorkers
    MaximumJoinGap = 2
    MaxSeq = 6
    MaxBatch = 2
    PageLimit = 2
    MaxFailures = 1
    NULL = NULL
SPECIFICATION Spec
INVARIANTS
    TypeOK
    NoDuplicateSignature
    RepairCompleteOrSurfaced
\* check_tree and fix_tree return: every behaviour ends with a report, the
\* scope joined or an early return.
CHECK_DEADLOCK FALSE
SYMMETRY WorkerSymmetry

\* Either audit command over every history of a tree with three sequence
\* numbers in one to three transactions plus possibly a failed one, on the
\* two leaves of a tree of height 1 (so up to four results complete in any
\* order and two updates can race for a leaf); two fetch tasks, any subset
\* of the history indexed, one injected feed, transaction or index failure.
CONSTANTS
    w1 = w1
    w2 = w2
    Workers <- MCWorkers
    MaxSeq = 3
    MaxBatch = 2
    Height = 1
    MaxFailures = 1
    NULL = NULL
SPECIFICATION Spec
INVARIANTS
    TypeOK
    PrintsWholeHistory
    ReportsExact
PROPERTIES
    ImplementsOrderedPrinter
    CommandTerminates
\* read_tree and check_tree_leafs return: every behaviour ends printed,
\* reported or aborted.
CHECK_DEADLOCK FALSE

\* maximum_join_gap is the code's value; MaxSeq is large enough for two
\* ranges exactly maximum_join_gap apart (e.g. {1, 11}) to occur.
CONSTANTS
    MaximumJoinGap = 10
    MaxSeq = 12
SPECIFICATION Spec
INVARIANTS
    TypeOK
    ContiguityPartition
    JoinedRangesExact
\* build_seq_ranges returns: every behaviour ends after Compute.
CHECK_DEADLOCK FALSE

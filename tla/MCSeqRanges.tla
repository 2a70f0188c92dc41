---------------------------- MODULE MCSeqRanges ----------------------------
(***************************************************************************)
(* Exhaustive check of build_seq_ranges: every set of missing sequence     *)
(* numbers within 1..MaxSeq is handed to the range builder in the         *)
(* ascending order get_missing_seq produces, and the result is compared   *)
(* with the reference blocks.                                             *)
(***************************************************************************)
EXTENDS SeqRanges, TreeHistory

CONSTANT MaxSeq   \* the on-chain sequence counter of the tree

VARIABLES missing,  \* the sequence numbers absent from the index
          ranges,   \* the output of build_seq_ranges, once computed
          computed
vars == <<missing, ranges, computed>>

Init ==
    /\ missing \in SUBSET (1..MaxSeq)
    /\ ranges = <<>>
    /\ computed = FALSE

\* The range producer thread calls build_seq_ranges once on its input.
Compute ==
    /\ ~computed
    /\ ranges' = build_seq_ranges(AscendingSeq(missing))
    /\ computed' = TRUE
    /\ UNCHANGED missing

Spec == Init /\ [][Compute]_vars

TypeOK ==
    /\ missing \subseteq 1..MaxSeq
    /\ ranges \in Seq((1..MaxSeq) \X (1..MaxSeq))
    /\ computed \in BOOLEAN

\* The contiguity pass partitions the missing numbers exactly into maximal
\* runs of consecutive numbers: no number outside a run is covered, no
\* missing number is left out, and the runs are in ascending order.
ContiguityPartition ==
    missing # {} =>
        LET cs == ContiguousRanges(AscendingSeq(missing))
        IN  /\ ToSet(cs) = Blocks(missing, 1)
            /\ Separated(cs, 1)

\* The joined ranges returned by build_seq_ranges are exactly the maximal
\* blocks of missing numbers no two consecutive members of which are more
\* than maximum_join_gap apart, ascending, and separated by more than the
\* gap: every missing number is repaired by exactly one range, and no two
\* ranges could have been joined.
JoinedRangesExact ==
    computed =>
        /\ ToSet(ranges) = Blocks(missing, MaximumJoinGap)
        /\ Separated(ranges, MaximumJoinGap)
        /\ Len(ranges) = Cardinality(ToSet(ranges))
=============================================================================

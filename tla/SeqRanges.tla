----------------------------- MODULE SeqRanges -----------------------------
(***************************************************************************)
(* The gap detector's range builder of tree-status: build_seq_ranges      *)
(* (tools/tree-status/src/main.rs).  It turns the ascending list of       *)
(* sequence numbers missing from the index into closed ranges, first      *)
(* compressing runs of consecutive numbers (the contiguity pass) and then  *)
(* joining neighbouring ranges whose distance is within maximum_join_gap   *)
(* (the join pass).  A range is a pair <<start, end>>.                    *)
(***************************************************************************)
EXTENDS Integers, Sequences, SequencesExt, FiniteSets

CONSTANT MaximumJoinGap   \* maximum_join_gap, 10 in the code

ASSUME MaximumJoinGap \in Nat \ {0}

\* Mutant: a new run keeps the old current_start.
ContigStepNoStartReset(acc, num) ==
    IF acc.cur[2] + 1 = num
    THEN [acc EXCEPT !.cur = <<@[1], num>>]
    ELSE [ranges |-> Append(acc.ranges, acc.cur), cur |-> <<acc.cur[1], num>>]

\* One iteration of the contiguity loop: extend the current range when num
\* follows its end, otherwise close it and open <<num, num>>.
ContigStep(acc, num) ==
    IF acc.cur[2] + 1 = num
    THEN [acc EXCEPT !.cur = <<@[1], num>>]
    ELSE [ranges |-> Append(acc.ranges, acc.cur), cur |-> <<num, num>>]

\* Mutant: the current range starts as <<0, 0>> instead of the first number.
ContiguousRangesFromZero(seqs) ==
    LET r == FoldLeft(ContigStep, [ranges |-> <<>>, cur |-> <<0, 0>>], seqs)
    IN  Append(r.ranges, r.cur)

\* The contiguity pass over a nonempty ascending list, with the final push.
ContiguousRanges(seqs) ==
    LET r == FoldLeft(ContigStep, [ranges |-> <<>>, cur |-> <<seqs[1], seqs[1]>>],
                      Tail(seqs))
    IN  Append(r.ranges, r.cur)

\* Mutant: joins only when strictly closer than maximum_join_gap.
JoinStepStrict(acc, rg) ==
    IF acc.cur[2] + MaximumJoinGap > rg[1]
    THEN [acc EXCEPT !.cur = <<@[1], rg[2]>>]
    ELSE [ranges |-> Append(acc.ranges, acc.cur), cur |-> rg]

\* One iteration of the join loop: the current range absorbs <<start, end>>
\* when current_end + maximum_join_gap >= start.
JoinStep(acc, rg) ==
    IF acc.cur[2] + MaximumJoinGap >= rg[1]
    THEN [acc EXCEPT !.cur = <<@[1], rg[2]>>]
    ELSE [ranges |-> Append(acc.ranges, acc.cur), cur |-> rg]

\* The join pass over the (nonempty) contiguous ranges.
JoinRanges(ranges) ==
    LET r == FoldLeft(JoinStep, [ranges |-> <<>>, cur |-> ranges[1]], Tail(ranges))
    IN  Append(r.ranges, r.cur)

\* build_seq_ranges: an empty input yields no ranges.
build_seq_ranges(seqs) ==
    IF seqs = <<>> THEN <<>> ELSE JoinRanges(ContiguousRanges(seqs))

-----------------------------------------------------------------------------
(***************************************************************************)
(* Reference definition, independent of the loops: the maximal blocks of  *)
(* a finite set S of integers in which consecutive members are at most    *)
(* gap apart, each given as <<least, greatest>>.                          *)
(***************************************************************************)
Blocks(S, gap) ==
    { <<lo, hi>> \in S \X S :
        /\ lo <= hi
        /\ \A x \in S : x < lo => lo - x > gap
        /\ \A x \in S : x > hi => x - hi > gap
        /\ \A x \in S : lo <= x /\ x < hi =>
                \E y \in S : x < y /\ y - x <= gap }

\* A list of ranges is strictly ascending and its ranges are separated by
\* more than gap.
Separated(rs, gap) ==
    \A i \in 1..Len(rs) - 1 : rs[i][2] + gap < rs[i + 1][1]
=============================================================================

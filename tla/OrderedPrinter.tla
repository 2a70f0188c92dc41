--------------------------- MODULE OrderedPrinter ---------------------------
(***************************************************************************)
(* What show-tree promises (spec 4.5): whatever order the concurrent      *)
(* fetches complete in, the entries it prints are the tree's signature    *)
(* history in its original order.  Abstractly the output only ever grows  *)
(* to a longer prefix of the history, one or several entries at a time.   *)
(***************************************************************************)
EXTENDS Naturals, Sequences

VARIABLES history,  \* the signatures in the order the feed issued them
          out       \* the signatures printed so far

Init == out = <<>>

\* Print the next one or more entries of the history.
PrintNext ==
    /\ \E k \in (Len(out) + 1)..Len(history) : out' = SubSeq(history, 1, k)
    /\ UNCHANGED history

Spec == Init /\ [][PrintNext]_<<history, out>>
=============================================================================

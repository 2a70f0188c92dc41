---------------------------- MODULE TreeHistory ----------------------------
(***************************************************************************)
(* The environment of tree-status: the histories a compressed tree's      *)
(* account can have.  A transaction is its position in the history (its   *)
(* signature); it succeeded or failed and carries the set of sequence     *)
(* numbers its change-log events applied.  Sequence numbers are applied   *)
(* in increasing order, so a history is a batching of 1..n into           *)
(* consecutive transactions; a failed transaction applies none.           *)
(***************************************************************************)
EXTENDS Integers, Sequences, SequencesExt, FiniteSets

\* The ascending list of the members of a finite set of integers.
RECURSIVE AscendingSeq(_)
AscendingSeq(S) ==
    IF S = {} THEN <<>>
    ELSE LET m == CHOOSE x \in S : \A y \in S : x <= y
         IN  <<m>> \o AscendingSeq(S \ {m})

FailedTx == [seqs |-> {}, ok |-> FALSE]

\* The successful transactions applying 1..n in batches starting at 1 and
\* at each member of cuts.
Batches(n, cuts) ==
    LET st == AscendingSeq({1} \cup cuts)
    IN  [i \in 1..Len(st) |->
            [seqs |-> st[i]..(IF i = Len(st) THEN n ELSE st[i + 1] - 1),
             ok   |-> TRUE]]

\* Every batching of 1..n into transactions of at most maxBatch events,
\* with or without one failed transaction anywhere.
Histories(n, maxBatch) ==
    LET okb == { h \in { Batches(n, c) : c \in SUBSET (2..n) } :
                    \A i \in DOMAIN h : Cardinality(h[i].seqs) <= maxBatch }
    IN  okb \cup UNION { { InsertAt(h, p, FailedTx) : p \in 1..Len(h) + 1 } : h \in okb }

TxType(n) == [seqs : SUBSET (1..n), ok : BOOLEAN]
=============================================================================

------------------------- MODULE MCRepairPipeline --------------------------
(***************************************************************************)
(* Model-checking instance of RepairPipeline: two resolver threads and    *)
(* two forwarder threads over every history of a tree with six sequence   *)
(* numbers and every index of it.                                          *)
(***************************************************************************)
EXTENDS RepairPipeline

CONSTANTS b1, b2, c1, c2

MCBWorkers == {b1, b2}
MCCWorkers == {c1, c2}
\* A single forwarder thread (--concurrency 1).
MCOneCWorker == {c1}
\* The threads of each pool run the same loop and no property names one.
WorkerSymmetry == Permutations(MCBWorkers) \cup Permutations(MCCWorkers)
=============================================================================

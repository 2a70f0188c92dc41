--------------------------- MODULE MCRepairIngest ---------------------------
EXTENDS RepairIngest

CONSTANTS b1, c1

MCBWorkers == {b1}
MCCWorkers == {c1}
=============================================================================

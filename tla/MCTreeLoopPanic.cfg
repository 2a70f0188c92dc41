\* Spec 6 and 7: one tree's fatal error does not stop the others.  Every
\* item is a well-formed pubkey; a tree command may panic.
CONSTANTS
    t1 = t1
    t2 = t2
    Trees = {t1, t2}
    MaxLines = 2
    LineKinds = {"tree"}
    Outcomes = {"ok", "err", "panic"}
SPECIFICATION Spec
INVARIANT
    TreeIsolation
CHECK_DEADLOCK FALSE

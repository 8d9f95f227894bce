----------------------------- MODULE MCRunOnce -----------------------------
EXTENDS RunOnce
CONSTANTS p1, p2, p3
MCOneHost == [p \in Procs |-> 1]
MCTwoHosts == [p \in Procs |-> IF p = p2 THEN 2 ELSE 1]
=============================================================================

--------------------------- MODULE MCLayeredClose ---------------------------
(* LayeredClose for TLC: the tasks are model values and interchangeable.   *)
EXTENDS LayeredClose, TLC

CONSTANTS t1, t2

MCTasks == {t1, t2}
MCOneTask == {t1}

TaskSymmetry == Permutations(MCTasks)
=============================================================================

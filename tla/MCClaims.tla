------------------------------ MODULE MCClaims ------------------------------
(* Instances of TaskClaims: one task, or two, and two sessions.              *)
EXTENDS TaskClaims, TLC

CONSTANTS t1, t2, a, b

OneTask     == {t1}
TwoTasks    == {t1, t2}
TwoSessions == {a, b}

Symmetry == Permutations(Tasks) \cup Permutations(Workers)
=============================================================================

---------------------------- MODULE MCLifecycle ----------------------------
(* Model-checking instances of PageLifecycle.                              *)
EXTENDS PageLifecycle, TLC

CONSTANTS p1, p2, w1, w2, s1, maint

WorkerSymmetry == Permutations(Workers)
=============================================================================

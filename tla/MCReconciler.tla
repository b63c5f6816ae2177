---------------------------- MODULE MCReconciler ----------------------------
(* Model values for Reconciler. *)
EXTENDS Reconciler

CONSTANTS c1, c2
OneComponent  == {c1}
TwoComponents == {c1, c2}
Symmetry == Permutations(TwoComponents)
=============================================================================

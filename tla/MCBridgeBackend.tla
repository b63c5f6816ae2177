-------------------------- MODULE MCBridgeBackend --------------------------
(* Model values and the symmetry of interchangeable reconcilers. *)
EXTENDS BridgeBackend, TLC

CONSTANTS r1, r2

TwoReconcilers == {r1, r2}
Symmetry == Permutations(TwoReconcilers)
=============================================================================

--------------------------- MODULE MCQueryClient ---------------------------
(* QueryClient on small instances. *)
EXTENDS QueryClient, TLC

CONSTANTS k1, k2, c1, c2
TwoKeys == {k1, k2}
TwoComponents == {c1, c2}
Symmetry == Permutations(TwoKeys) \cup Permutations(TwoComponents)
=============================================================================

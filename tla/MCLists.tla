-------------------------------- MODULE MCLists --------------------------------
(* Small instances of Lists. *)
EXTENDS Lists, TLC
CONSTANTS a, b, c, l1
KeySet == {a, b}
ThreeKeys == {a, b, c}
Initial == <<a>>
ViewSet == {l1}
=============================================================================

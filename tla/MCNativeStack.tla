--------------------------- MODULE MCNativeStack ---------------------------
(* A small instance of NativeStack: two screens, and resets to one of them or *)
(* to both.                                                                   *)
EXTENDS NativeStack
CONSTANTS home, item
MCResets == {<<item>>, <<home, item>>}
=============================================================================

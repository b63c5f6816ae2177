---------------------------- MODULE MCSuspense ----------------------------
(* Small instances of Suspense: siblings that come, go and move around       *)
(* components that suspend.                                                  *)
EXTENDS Suspense

Native(k) == [key |-> k, type |-> "Text"]
Comp(k)   == [key |-> k, type |-> "late"]
MCContents == {<<Native(2)>>, <<Native(2), Comp(1)>>, <<Native(2), Comp(1), Comp(3)>>,
               <<Comp(3), Native(2), Comp(1)>>}
(* A key that changes its type, from one native view to another. *)
MCTyped == {<<Native(1)>>, <<[key |-> 1, type |-> "Switch"], Comp(2)>>}
=============================================================================

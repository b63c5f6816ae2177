------------------------------ MODULE ListMirror ------------------------------
(* What the patch protocol of the lists promises: every commit might as well *)
(* have carried the whole list its render saw, and replaced the shown one.   *)
CONSTANT Views
VARIABLES
    list,      \* the list a render of each view would show now
    carried,   \* the whole list a commit carries: none or one
    shown      \* the list the platform shows

Change == UNCHANGED <<carried, shown>>

Send(v) == /\ carried[v] = {}
           /\ carried' = [carried EXCEPT ![v] = {list[v]}]
           /\ UNCHANGED shown

Show(v) == /\ carried[v] # {}
           /\ shown' = [shown EXCEPT ![v] = CHOOSE rows \in carried[v] : TRUE]
           /\ carried' = [carried EXCEPT ![v] = {}]

(* The list was mounted anew. *)
Drop(v) == /\ carried' = [carried EXCEPT ![v] = {}]
           /\ shown' = [shown EXCEPT ![v] = <<>>]

Init == carried = [v \in Views |-> {}] /\ shown = [v \in Views |-> <<>>]
Next == Change \/ \E v \in Views : Send(v) \/ Show(v) \/ Drop(v)
Spec == Init /\ [][Next]_<<list, carried, shown>>
=============================================================================

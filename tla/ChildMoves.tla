----------------------------- MODULE ChildMoves -----------------------------
(* The plan that turns the children a native container has into the ones it  *)
(* should have (reconciler/children.py), and the insertions of the core that *)
(* carry it out (native/core/src/shadow.cpp).  Positions of a plan count     *)
(* from 0, as on the wire.                                                   *)
EXTENDS Naturals, Sequences, FiniteSets, SequencesExt, Arrangements

CONSTANT Children   \* the tags whose orders the plan is judged over

ASSUME ChildrenAssumption == IsFiniteSet(Children)

(* One round of the patience sort: v goes to the first pile whose top is not *)
(* below it, and remembers the top of the pile before.                       *)
Piles == [tops |-> <<>>, ends |-> <<>>, previous |-> <<>>]
(* Mutant of Pile: v only ever starts a pile. *)
MutantPile(piles, v) ==
    LET pos == 1 + Cardinality({k \in DOMAIN piles.tops : piles.tops[k] < v})
        i   == Len(piles.previous) + 1
    IN [tops |-> IF pos > Len(piles.tops) THEN Append(piles.tops, v) ELSE piles.tops,
        ends |-> IF pos > Len(piles.tops) THEN Append(piles.ends, i) ELSE piles.ends,
        previous |-> Append(piles.previous, IF pos = 1 THEN 0 ELSE piles.ends[pos - 1])]
Pile(piles, v) ==
    LET pos == 1 + Cardinality({k \in DOMAIN piles.tops : piles.tops[k] < v})
        i   == Len(piles.previous) + 1
        Put(s, x) == IF pos > Len(s) THEN Append(s, x) ELSE [s EXCEPT ![pos] = x]
    IN [tops |-> Put(piles.tops, v), ends |-> Put(piles.ends, i),
        previous |-> Append(piles.previous, IF pos = 1 THEN 0 ELSE piles.ends[pos - 1])]
(* The positions of one longest increasing subsequence. *)
LongestIncreasing(values) ==
    LET sorted[n \in 0..Len(values)] == IF n = 0 THEN Piles ELSE Pile(sorted[n - 1], values[n])
        piles == sorted[Len(values)]
        chain[i \in 0..Len(values)] == IF i = 0 THEN {} ELSE chain[piles.previous[i]] \cup {i}
    IN IF values = <<>> THEN {} ELSE chain[Last(piles.ends)]

(* One insertion of a plan (Surface::insert_node): a child is detached before *)
(* it is inserted, and never beyond the end.                                  *)
Detached(kids, tag) == IF tag \in ToSet(kids) THEN RemoveAt(kids, Position(kids, tag)) ELSE kids
InsertNode(kids, move) ==
    LET rest == Detached(kids, move[1])
    IN InsertAt(rest, IF move[2] <= Len(rest) THEN move[2] + 1 ELSE Len(rest) + 1, move[1])

(* plan_child_moves: from the right, every child that is not kept goes in    *)
(* front of the one placed before it.                                        *)
PlaceChild(kept, plan, tag) ==
    LET sim   == Detached(plan.sim, tag)
        index == IF plan.anchor = <<>> THEN Len(sim) ELSE Position(sim, plan.anchor[1]) - 1
    IN IF tag \in kept THEN [plan EXCEPT !.anchor = <<tag>>]
       ELSE [sim |-> InsertAt(sim, index + 1, tag), moves |-> Append(plan.moves, <<tag, index>>),
             anchor |-> <<tag>>]
PlanChildMoves(before, after) ==
    LET surviving == Those(before, ToSet(after))
        targets   == [i \in DOMAIN surviving |-> Position(after, surviving[i])]
        kept      == {surviving[i] : i \in LongestIncreasing(targets)}
        plan[i \in 0..Len(after)] ==
            IF i = 0 THEN [sim |-> before, moves |-> <<>>, anchor |-> <<>>]
            ELSE PlaceChild(kept, plan[i - 1], after[Len(after) + 1 - i])
    IN IF before = after THEN <<>> ELSE plan[Len(after)].moves

---------------------------------------------------------------------------
(* The reference: a plan is minimal when it leaves a longest ordered part of *)
(* the children where it is.                                                 *)
Ordered(s, part) == \A i, j \in part : i < j => s[i] < s[j]
FewestMoves(before, after) ==
    LET targets == [i \in DOMAIN before |-> Position(after, before[i])]
        sizes   == {Cardinality(part) : part \in {p \in SUBSET DOMAIN targets : Ordered(targets, p)}}
    IN Len(after) - (CHOOSE n \in sizes : \A m \in sizes : m <= n)

(* What a container holds after the insertions of a plan. *)
CarriedOut(before, moves) ==
    LET kids[i \in 0..Len(moves)] == IF i = 0 THEN before ELSE InsertNode(kids[i - 1], moves[i])
    IN kids[Len(moves)]

ChildOrders == {s \in UNION {[1..n -> Children] : n \in 0..Cardinality(Children)} : IsInjective(s)}

(* Every plan is right and as short as can be: plan_child_moves, for all     *)
(* orders of the children, gives the order asked for when it is carried out, *)
(* whatever of it was there before ("Tags absent from after ... must not     *)
(* appear here").                                                            *)
PlansAreMinimal ==
    \A before, after \in ChildOrders :
        ToSet(before) \subseteq ToSet(after) =>
            LET moves == PlanChildMoves(before, after)
            IN  CarriedOut(before, moves) = after /\ Len(moves) = FewestMoves(before, after)
=============================================================================

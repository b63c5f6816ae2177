---------------------------- MODULE SurfaceMirror ----------------------------
(***************************************************************************)
(* What the commit channel promises, without loop, threads or queues: the  *)
(* core's tree and Python's mirror of it.  The core only ever moves from a *)
(* tree Python knows, one commit at a time; Python learns of exactly that  *)
(* commit, or abandons the surface for a new application.                  *)
(***************************************************************************)
EXTENDS Naturals

CONSTANT Views

VARIABLES core, mirror

Tree == [application : Nat, revision : Nat, views : SUBSET Views]

Untouched(a) == [application |-> a, revision |-> 0, views |-> {}]

(* A mirror of a new application knows the (empty) tree it starts from. *)
Knows(m, c) == m = c \/ (m.application > c.application
                           /\ m = Untouched(m.application))

Init == core = Untouched(0) /\ mirror = Untouched(1)

Commit ==
  /\ Knows(mirror, core)
  /\ \E views \in SUBSET Views :
       core' = [application |-> mirror.application,
                revision |-> mirror.revision + 1, views |-> views]
  /\ UNCHANGED mirror

Acknowledge ==
  /\ core.application = mirror.application
  /\ core.revision = mirror.revision + 1
  /\ mirror' = core
  /\ UNCHANGED core

Reset ==
  /\ mirror' = Untouched(mirror.application + 1)
  /\ UNCHANGED core

Next == Commit \/ Acknowledge \/ Reset

Spec == Init /\ [][Next]_<<core, mirror>>
=============================================================================

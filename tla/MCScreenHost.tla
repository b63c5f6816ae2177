----------------------------- MODULE MCScreenHost -----------------------------
(* Small instances of ScreenHost. *)
EXTENDS ScreenHost, TLC
CONSTANTS h1, h2
OneHost == {h1}
TwoHosts == {h1, h2}
AnyBuild == BOOLEAN
Release == {FALSE}
AnyOrder == Permutations(TwoHosts)
=============================================================================

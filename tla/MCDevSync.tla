------------------------------ MODULE MCDevSync ------------------------------
(* A small instance of DevSync: the entry module imports one module, which    *)
(* imports another; the application brings that one along.                    *)
EXTENDS DevSync
ThreeModules == <<"a", "b", "main">>
Chain == [a |-> [n |-> 1, needs |-> {}], b |-> [n |-> 1, needs |-> {<<"a", 1>>}],
          main |-> [n |-> 1, needs |-> {<<"b", 1>>}]]
=============================================================================

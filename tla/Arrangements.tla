---------------------------- MODULE Arrangements ----------------------------
(* Sequences whose elements are told apart: the tags of children, the keys   *)
(* of rows, the names of modules.                                            *)
EXTENDS Naturals, Sequences

Position(s, x) == CHOOSE i \in DOMAIN s : s[i] = x

(* The elements of seq that are in A, in their order. *)
Those(seq, A) ==
    LET upTo[i \in 0..Len(seq)] == IF i = 0 THEN <<>>
                                   ELSE IF seq[i] \in A THEN Append(upTo[i - 1], seq[i])
                                   ELSE upTo[i - 1]
    IN  upTo[Len(seq)]
=============================================================================

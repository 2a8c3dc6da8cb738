------------------------ MODULE MCClientDispatcher ------------------------
(* Instances of ClientDispatcher for TLC. *)
EXTENDS ClientDispatcher, TLC

CONSTANTS r1, r2, p1, p2, s1, s2

Symmetry == Permutations(Requests \ Cancelable) \cup Permutations(Readers)
=============================================================================

------------------------ MODULE MCServerDispatcher ------------------------
(* Instances of ServerDispatcher for TLC. *)
EXTENDS ServerDispatcher, TLC

CONSTANTS c1, c2, r1, r2, r3, p1, p2, s1

OneClient == [r \in Requests |-> c1]

TwoClients == [r \in Requests |-> IF r = r3 THEN c2 ELSE c1]
=============================================================================

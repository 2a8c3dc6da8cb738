-------------------------- MODULE MCCentralSystem --------------------------
(* Instances of the central system's request path for TLC. *)
EXTENDS CentralSystem

CONSTANTS a, b, r1, r2, r3

\* Two requests to a, one to b.
TwoAndOne == [r \in Requests |-> IF r = r3 THEN b ELSE a]
=============================================================================

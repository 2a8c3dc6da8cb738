--------------------------- MODULE MCChargePoint ---------------------------
(* Instances of the charge point's facade for TLC. *)
EXTENDS ChargePoint

CONSTANTS s1, n1, p1
=============================================================================

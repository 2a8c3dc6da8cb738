----------------------------- MODULE MCWsServer -----------------------------
(* Instances of the websocket server for TLC. *)
EXTENDS WsServer

CONSTANTS c1, c2, c3, id1, id2, k1

SameId == [c \in Conns |-> id1]
TwoIds == [c \in Conns |-> IF c = c3 THEN id2 ELSE id1]

\* The first charge point sends one message (or ping); or none does.
FirstTalks == [c \in Conns |-> IF c = c1 THEN 1 ELSE 0]
Silent == [c \in Conns |-> 0]

\* A client that asks for the supported subprotocol second, and one that does not ask for it.
TwoOffers == {<<"ocpp2.0", "ocpp1.6">>, <<"ocpp2.0">>}
=============================================================================

----------------------------- MODULE MCWsClient -----------------------------
(* Instances of the websocket client for TLC. *)
EXTENDS WsClient

TwoDials == 1..2
ThreeDials == 1..3

\* No message reaches the client: what arrives does not touch the link.
Silent == [c \in Conns |-> 0]

\* The server sends one message on the first connection.
OneMessage == [c \in Conns |-> IF c = 1 THEN 1 ELSE 0]
=============================================================================

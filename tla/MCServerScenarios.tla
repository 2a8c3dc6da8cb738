------------------------- MODULE MCServerScenarios -------------------------
(***************************************************************************)
(* The server dispatcher in several environments at once.  Which one it is  *)
(* is chosen initially and decides what the clients, the application and    *)
(* the scheduler do; the dispatcher itself is that of ServerDispatcher.     *)
(***************************************************************************)
EXTENDS MCServerDispatcher

VARIABLE scenario

Scenario(name) == scenario = name

\* The client's connection is lost before its onClientConnected has run.
LostEarly == \E c \in Clients : link[c] /\ ~link'[c] /\ conn[c] > 0

\* DeleteClientAndWait gives up waiting for the pump.
GivesUp == \E c \in Clients : DeleteTimeout(c)

(* "reconnect": r1 and r2 for one client with two connections, and Stop.    *)
(* "clients": r1 and r3 for two clients with one connection each that may   *)
(* be lost early, a slow pump, and no Stop.                                 *)
(* "context": r1 and r2 for one client with one connection, and no Stop;    *)
(* the context of r2 may fire.                                              *)
(* "canceled stop": r2 alone, its context and Stop.                         *)
RaceNext ==
    /\ \/ /\ Scenario("reconnect")
          /\ \/ Step({r1, r2}, {c1}, Stoppers) /\ UNCHANGED ctxDone /\ ~LostEarly /\ ~GivesUp
             \/ Settled({r1, r2}, {c1}, 2) /\ UNCHANGED vars
       \/ /\ Scenario("clients")
          /\ \/ Step({r1, r3}, Clients, {}) /\ \A c \in Clients : conns'[c] <= 1
             \/ Settled({r1, r3}, Clients, 1) /\ UNCHANGED vars
       \/ /\ Scenario("context")
          /\ \/ Step({r1, r2}, {c1}, {}) /\ conns'[c1] <= 1 /\ ~LostEarly /\ ~GivesUp
             \/ Settled({r1, r2}, {c1}, 1) /\ UNCHANGED vars
       \/ /\ Scenario("canceled stop")
          /\ \/ Step({r2}, {c1}, Stoppers) /\ conns'[c1] <= 1 /\ ~LostEarly /\ ~GivesUp
             \/ Settled({r2}, {c1}, 1) /\ UNCHANGED vars
    /\ UNCHANGED scenario

RaceInit == Init /\ scenario \in {"reconnect", "clients", "context", "canceled stop"}

RaceSpec == /\ RaceInit
            /\ [][RaceNext]_<<vars, scenario>>

(* "stop": Stop and an early loss, and no replies or contexts that fire.    *)
(* "settle": replies, a context that may fire and a slow pump, but no Stop. *)
LiveNext ==
    /\ Next
    /\ Scenario("stop") => UNCHANGED <<rd, ctxDone>> /\ ~GivesUp
    /\ Scenario("settle") => UNCHANGED stop /\ ~LostEarly
    /\ UNCHANGED scenario

LiveInit == Init /\ scenario \in {"stop", "settle"}

LiveSpec == /\ LiveInit
            /\ [][LiveNext]_<<vars, scenario>>
            /\ Fairness
=============================================================================

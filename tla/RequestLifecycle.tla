-------------------------- MODULE RequestLifecycle --------------------------
(***************************************************************************)
(* What a client dispatcher promises the application about its requests,   *)
(* free of goroutines, channels, timers and locks (the ClientDispatcher    *)
(* interface, ocppj/dispatcher.go 14-84):                                  *)
(*                                                                         *)
(*   - requests wait in line in the order in which they were queued;       *)
(*   - only the head of the line is transmitted, and only once;            *)
(*   - a request leaves the line by being claimed by exactly one party, or *)
(*     by being withdrawn when a session ends;                             *)
(*   - only a claimed request is settled, and only once.                   *)
(***************************************************************************)
EXTENDS Sequences, Functions

CONSTANT Requests

VARIABLES line,         \* the requests queued and not completed
          transmitted,  \* the requests put on the wire so far
          claimed,      \* completed, the application is not told yet
          settled       \* the application was told

lvars == <<line, transmitted, claimed, settled>>

LInit ==
    /\ line = << >>
    /\ transmitted = {} /\ claimed = {} /\ settled = {}

Enqueue(r) ==
    /\ r \notin transmitted \cup claimed \cup settled \cup Range(line)
    /\ line' = Append(line, r)
    /\ UNCHANGED <<transmitted, claimed, settled>>

\* a window of one: the head is transmitted, and it leaves the line before the
\* next head is
Transmit ==
    /\ line # << >>
    /\ Head(line) \notin transmitted
    /\ transmitted' = transmitted \cup {Head(line)}
    /\ UNCHANGED <<line, claimed, settled>>

Claim ==
    /\ line # << >>
    /\ claimed' = claimed \cup {Head(line)}
    /\ line' = Tail(line)
    /\ UNCHANGED <<transmitted, settled>>

\* the end of a session claims the whole line at once
ClaimAll ==
    /\ claimed' = claimed \cup Range(line)
    /\ line' = << >>
    /\ UNCHANGED <<transmitted, settled>>

Settle(r) ==
    /\ r \in claimed \ settled
    /\ claimed' = claimed \ {r}
    /\ settled' = settled \cup {r}
    /\ UNCHANGED <<line, transmitted>>

\* the end of a session settles what it claimed, and withdraws what was queued too
\* late for the session, none of it transmitted
EndSession(S) ==
    /\ S \subseteq claimed /\ S \cap settled = {}
    /\ Range(line) \cap transmitted = {}
    /\ claimed' = claimed \ S
    /\ settled' = settled \cup S
    /\ line' = << >>
    /\ UNCHANGED transmitted

LNext ==
    \/ \E r \in Requests : Enqueue(r) \/ Settle(r)
    \/ Transmit \/ Claim \/ ClaimAll
    \/ \E S \in SUBSET Requests : EndSession(S)

LSpec == LInit /\ [][LNext]_lvars
=============================================================================

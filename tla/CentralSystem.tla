--------------------------- MODULE CentralSystem ---------------------------
(***************************************************************************)
(* The central system's requests to its charge points                       *)
(* (ocpp1.6/central_system.go; ocpp2.0.1/csms.go has the same code):        *)
(* SendRequestAsyncCtx, the delivery of responses and errors by the read    *)
(* goroutines, of cancellations by the dispatcher's pump, and the drain of  *)
(* a disconnected charge point, all on one CallbackQueue.                   *)
(*                                                                          *)
(* Below the facade is the server dispatcher, reduced to what module        *)
(* ServerDispatcher shows of it: an accepted request is answered, cancelled *)
(* or dropped with its client, once, and its pump is the only reader of a   *)
(* bounded channel that senders and disconnections write to.                *)
(***************************************************************************)
EXTENDS Naturals, FiniteSets, CallbackQueue

CONSTANTS Clients, Requests,
          ClientOf,   \* Requests -> Clients
          Panicky,    \* the requests whose callback panics
          ChanCap,    \* capacity of requestChannel
          MaxDrops    \* connections that are lost

ASSUME CentralAssumption == None \notin Requests /\ ClientOf \in [Requests -> Clients]

VARIABLES snd,       \* [Requests -> pc of SendRequestAsyncCtx]
          disp,      \* [Requests -> where the dispatcher has it]
          tokens,    \* in requestChannel
          pump,      \* the request whose cancellation the pump reports, or None
          running,   \* the dispatcher
          reader,    \* [Clients -> the reply its read goroutine delivers, or None]
          canceling, \* requests with a cancel goroutine
          link,      \* [Clients -> pc of its connection and disconnect goroutine]
          drained,   \* [Clients -> callbacks its drain has yet to call]
          drops,
          calls      \* [Requests -> how often its callback was called]

queueVars == <<callbacksMutex, callbacks>>
dispVars == <<disp, tokens, pump, running>>
vars == <<queueVars, snd, dispVars, reader, canceling, link, drained, drops, calls>>

Init == /\ InitCallbacks
        /\ snd = [r \in Requests |-> "idle"]
        /\ disp = [r \in Requests |-> "none"]
        /\ tokens = 0 /\ pump = None /\ running = TRUE
        /\ reader = [c \in Clients |-> None]
        /\ canceling = {}
        /\ link = [c \in Clients |-> "up"]
        /\ drained = [c \in Clients |-> {}]
        /\ drops = 0
        /\ calls = [r \in Requests |-> 0]

Of(c) == {r \in Requests : ClientOf[r] = c}

Called(r) == calls' = [calls EXCEPT ![r] = @ + 1]

\* The callback of r is taken out of the queue and called; without one only an error is reported.
Deliver(r) == /\ Dequeue(r)
              /\ IF r \in callbacks THEN Called(r) ELSE UNCHANGED calls

----------------------------------------------------------------------------
(* SendRequestAsyncCtx                                                     *)

sendUnchanged == <<pump, running, reader, canceling, link, drained, drops, calls>>

\* TryQueue locks; SendRequestCtx creates the call and looks the client's queue up.
SendLooksUp(r) ==
    /\ snd[r] = "idle"
    /\ IF running /\ link[ClientOf[r]] = "up"
       THEN Acquire(r) /\ snd' = [snd EXCEPT ![r] = "push"]
       ELSE Free /\ snd' = [snd EXCEPT ![r] = "failed"] /\ UNCHANGED callbacksMutex
    /\ UNCHANGED <<callbacks, disp, tokens, sendUnchanged>>

\* The queue may have left the map in the meantime: what is pushed is then never dispatched.
SendPushes(r) ==
    /\ snd[r] = "push"
    /\ snd' = [snd EXCEPT ![r] = "rlock"]
    /\ disp' = [disp EXCEPT ![r] = IF link[ClientOf[r]] = "up" THEN "queued" ELSE "dropped"]
    /\ UNCHANGED <<queueVars, tokens, sendUnchanged>>

\* The dispatcher's read lock is taken; a dispatcher that was stopped meanwhile is an error.
SendRLocks(r) ==
    /\ snd[r] = "rlock"
    /\ IF running
       THEN snd' = [snd EXCEPT ![r] = "post"] /\ UNCHANGED queueVars
       ELSE snd' = [snd EXCEPT ![r] = "failed"] /\ Abandon(r)
    /\ UNCHANGED <<disp, tokens, sendUnchanged>>

\* The pump is told, and the callback registered; both with the mutex held.
SendPosts(r) ==
    /\ snd[r] = "post"
    /\ tokens < ChanCap
    /\ tokens' = tokens + 1
    /\ Register(r)
    /\ snd' = [snd EXCEPT ![r] = "accepted"]
    /\ UNCHANGED <<disp, sendUnchanged>>

SendGoesOn(r) == SendPushes(r) \/ SendRLocks(r) \/ SendPosts(r)

Send(r) == SendLooksUp(r) \/ SendGoesOn(r)

----------------------------------------------------------------------------
(* The dispatcher's pump                                                   *)

pumpUnchanged == <<queueVars, snd, reader, link, drained, drops, calls>>

PumpTakes == /\ running /\ pump = None /\ tokens > 0
             /\ tokens' = tokens - 1
             /\ UNCHANGED <<disp, pump, running, canceling, pumpUnchanged>>

\* The front of a queue is written, or the write fails.
PumpDispatches(r) ==
    /\ running /\ pump = None /\ disp[r] = "queued"
    /\ \A q \in Of(ClientOf[r]) : disp[q] # "sent"
    /\ \/ disp' = [disp EXCEPT ![r] = "sent"] /\ UNCHANGED pump
       \/ disp' = [disp EXCEPT ![r] = "canceled"] /\ pump' = r
    /\ UNCHANGED <<tokens, running, canceling, pumpUnchanged>>

\* The request in flight times out, or its context is done.
PumpTimesOut(r) ==
    /\ running /\ pump = None /\ disp[r] = "sent"
    /\ disp' = [disp EXCEPT ![r] = "canceled"]
    /\ pump' = r
    /\ UNCHANGED <<tokens, running, canceling, pumpUnchanged>>

\* Stop: what the queues still hold is cancelled before the pump exits.
PumpDrains(r) ==
    /\ ~running /\ pump = None /\ disp[r] \in {"queued", "sent"}
    /\ disp' = [disp EXCEPT ![r] = "canceled"]
    /\ pump' = r
    /\ UNCHANGED <<tokens, running, canceling, pumpUnchanged>>

\* Mutant of HandleCanceledRequest: the callback is dequeued and called on the pump.
HandleCanceledOnPump(r) ==
    /\ pump = r
    /\ pump' = None
    /\ Deliver(r)
    /\ UNCHANGED <<snd, disp, tokens, running, reader, canceling, link, drained, drops>>

\* handleCanceledRequest leaves everything that needs the mutex to a goroutine of its own.
HandleCanceledRequest(r) ==
    /\ pump = r
    /\ pump' = None
    /\ canceling' = canceling \cup {r}
    /\ UNCHANGED <<disp, tokens, running, pumpUnchanged>>

Pump(r) == PumpDispatches(r) \/ PumpDrains(r) \/ HandleCanceledRequest(r)

CancelGoroutine(r) ==
    /\ r \in canceling
    /\ Deliver(r)
    /\ canceling' = canceling \ {r}
    /\ UNCHANGED <<snd, dispVars, reader, link, drained, drops>>

\* Stop needs the write lock, and a sender that waits for room holds the read lock.
StopDispatcher == /\ running
                  /\ \A r \in Requests : snd[r] # "post"
                  /\ running' = FALSE
                  /\ UNCHANGED <<disp, tokens, pump, canceling, pumpUnchanged>>

----------------------------------------------------------------------------
(* Replies                                                                 *)

\* CompleteRequest wins: only then the response or error handler is called.
Reply(r) ==
    LET c == ClientOf[r] IN
    /\ link[c] = "up" /\ reader[c] = None /\ disp[r] = "sent"
    /\ disp' = [disp EXCEPT ![r] = "answered"]
    /\ reader' = [reader EXCEPT ![c] = r]
    /\ UNCHANGED <<queueVars, snd, tokens, pump, running, canceling, link, drained, drops, calls>>

\* handleIncomingConfirmation: the read goroutine waits for the mutex.
HandleIncomingConfirmation(c) ==
    /\ reader[c] # None
    /\ Deliver(reader[c])
    /\ reader' = [reader EXCEPT ![c] = None]
    /\ UNCHANGED <<snd, dispVars, canceling, link, drained, drops>>

----------------------------------------------------------------------------
(* A lost connection: onClientDisconnected                                 *)

linkUnchanged == <<snd, pump, running, reader, canceling>>

\* queueMap.Remove: what the queue holds goes with it.
ClientLost(c) ==
    /\ link[c] = "up" /\ drops < MaxDrops
    /\ drops' = drops + 1
    /\ link' = [link EXCEPT ![c] = "delete"]
    /\ disp' = [r \in Requests |-> IF r \in Of(c) /\ disp[r] \in {"queued", "sent"} THEN "dropped" ELSE disp[r]]
    /\ UNCHANGED <<queueVars, tokens, drained, calls, linkUnchanged>>

\* DeleteClientAndWait tells the pump, and waits for it, for Stop or for two seconds.
DeleteClient(c) ==
    /\ link[c] = "delete"
    /\ \/ running /\ tokens < ChanCap /\ tokens' = tokens + 1
       \/ ~running /\ UNCHANGED tokens
    /\ link' = [link EXCEPT ![c] = "drain"]
    /\ UNCHANGED <<queueVars, disp, drained, drops, calls, linkUnchanged>>

DrainClient(c) ==
    /\ link[c] = "drain"
    /\ DrainAll(Of(c))
    /\ drained' = [drained EXCEPT ![c] = callbacks \cap Of(c)]
    /\ link' = [link EXCEPT ![c] = "call"]
    /\ UNCHANGED <<disp, tokens, drops, calls, linkUnchanged>>

(* The drained callbacks run one after the other on this goroutine, under   *)
(* one recover: a callback that panics takes the ones after it with it.     *)
CallDrained(c) ==
    /\ link[c] = "call"
    /\ \E r \in drained[c] :
           /\ Called(r)
           /\ drained' = [drained EXCEPT ![c] = IF r \in Panicky THEN {} ELSE @ \ {r}]
    /\ UNCHANGED <<queueVars, disp, tokens, link, drops, linkUnchanged>>

\* The disconnect handler has returned, the gate opens: the charge point may connect again.
Reconnected(c) ==
    /\ link[c] = "call" /\ drained[c] = {}
    /\ link' = [link EXCEPT ![c] = "up"]
    /\ UNCHANGED <<queueVars, disp, tokens, drained, drops, calls, linkUnchanged>>

Disconnect(c) == DeleteClient(c) \/ DrainClient(c) \/ CallDrained(c) \/ Reconnected(c)

----------------------------------------------------------------------------

Finished == /\ \A r \in Requests : snd[r] \in {"accepted", "failed"} /\ disp[r] \notin {"queued", "sent"}
            /\ pump = None /\ canceling = {}
            /\ \A c \in Clients : reader[c] = None /\ link[c] = "up"
            /\ ~running \/ tokens = 0
            /\ UNCHANGED vars

Next == \/ \E r \in Requests : Send(r) \/ Pump(r) \/ PumpTimesOut(r) \/ CancelGoroutine(r) \/ Reply(r)
        \/ PumpTakes
        \/ StopDispatcher
        \/ \E c \in Clients : HandleIncomingConfirmation(c) \/ ClientLost(c) \/ Disconnect(c)
        \/ Finished

(* Goroutines that can go on do, callbacks return, and a dispatched request *)
(* that is not answered times out; replies, losses, new requests and Stop   *)
(* are free.  No step of the model can be repeated forever, so weak         *)
(* fairness of the steps together is weak fairness of each.                 *)
Progress == \/ \E r \in Requests : SendGoesOn(r) \/ Pump(r) \/ PumpTimesOut(r) \/ CancelGoroutine(r)
            \/ PumpTakes
            \/ \E c \in Clients : HandleIncomingConfirmation(c) \/ Disconnect(c)

Spec == Init /\ [][Next]_vars /\ WF_vars(Progress)

----------------------------------------------------------------------------
(* Properties                                                              *)

(* SendRequestAsyncCtx: "still invokes its callback exactly once", whatever *)
(* response, cancellation and drain race for it, and never for a request    *)
(* whose sender was told that it failed.                                    *)
AtMostOneCall == \A r \in Requests : /\ calls[r] <= 1
                                     /\ snd[r] = "failed" => calls[r] = 0

(* The callback of every accepted request is eventually called.  The sender *)
(* holds the mutex over a send that only the pump can unblock, so this also *)
(* says that nothing on the pump's path waits for the mutex.                *)
EveryCallbackRuns == \A r \in Requests : snd[r] = "accepted" ~> calls[r] = 1

----------------------------------------------------------------------------
(* The inductive invariant                                                 *)

\* The ranges that the hands below rest on.
Ranges ==
    /\ callbacksMutex \in Requests \cup {None} /\ callbacks \subseteq Requests
    /\ snd \in [Requests -> {"idle", "push", "rlock", "post", "accepted", "failed"}]
    /\ disp \in [Requests -> {"none", "queued", "sent", "answered", "canceled", "dropped"}]
    /\ pump \in Requests \cup {None}
    /\ reader \in [Clients -> Requests \cup {None}]
    /\ canceling \subseteq Requests
    /\ link \in [Clients -> {"up", "delete", "drain", "call"}]
    /\ drained \in [Clients -> SUBSET Requests]
    /\ calls \in [Requests -> Nat]

\* The mutex belongs to the one sender inside TryQueue.
MutexHeld == \A r \in Requests : snd[r] \in {"push", "rlock", "post"} <=> callbacksMutex = r

(* A callback is registered, taken by a drain that has yet to call it, or   *)
(* called: no two of these at once, and none before its sender returns.     *)
OneHand == \A r \in Requests :
    /\ r \in callbacks => snd[r] = "accepted" /\ calls[r] = 0
    /\ \A c \in Clients : r \in drained[c] => /\ ClientOf[r] = c /\ link[c] = "call"
                                              /\ snd[r] = "accepted" /\ calls[r] = 0
                                              /\ r \notin callbacks
    /\ calls[r] > 0 => snd[r] = "accepted" /\ calls[r] = 1

(* Somebody is still to dequeue the callback of r: the dispatcher, the      *)
(* goroutine it has handed the answer or the cancellation to, or the drain  *)
(* of a connection that was lost.                                           *)
InCharge(r) ==
    \/ disp[r] \in {"queued", "sent"}
    \/ disp[r] = "canceled" /\ (pump = r \/ r \in canceling)
    \/ disp[r] = "answered" /\ reader[ClientOf[r]] = r
    \/ disp[r] = "dropped" /\ link[ClientOf[r]] \in {"delete", "drain"}

\* Nobody is in charge of a request before its sender pushes it, and somebody is from then on.
Charge == \A r \in Requests :
    /\ snd[r] \in {"idle", "push"} => disp[r] = "none"
    /\ snd[r] \in {"rlock", "post"} \/ r \in callbacks => InCharge(r)
    /\ snd[r] = "push" => link[ClientOf[r]] \in {"up", "delete", "drain"}

(* The callback of an accepted request was called, is about to be, or has   *)
(* somebody in charge of it; the only one that gets lost is one behind a    *)
(* callback that panicked in the same drain.                                *)
NoneForgotten == \A r \in Requests : snd[r] = "accepted" =>
    \/ calls[r] = 1
    \/ r \in callbacks /\ InCharge(r)
    \/ r \in drained[ClientOf[r]] /\ link[ClientOf[r]] = "call"
    \/ \E q \in Panicky : q \in Of(ClientOf[r]) /\ calls[q] = 1

IndInv == Ranges /\ MutexHeld /\ OneHand /\ Charge /\ NoneForgotten

=============================================================================

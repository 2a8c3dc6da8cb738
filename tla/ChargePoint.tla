---------------------------- MODULE ChargePoint ----------------------------
(***************************************************************************)
(* The charge point's facade (ocpp1.6/charge_point.go and its wiring in     *)
(* v16.go; ocpp2.0.1/charging_station.go has the same code): synchronous    *)
(* and asynchronous requests, the handler goroutine that takes everything   *)
(* the network delivers from the one-place channel incoming, and the        *)
(* generations that Start and Stop make of it.                              *)
(*                                                                          *)
(* Below it is the client dispatcher, reduced to what module                *)
(* ClientDispatcher shows of it, and a network that answers, calls, or does *)
(* neither.  Start and Stop are called from one goroutine, as stopOnce, a   *)
(* plain field, requires.                                                   *)
(***************************************************************************)
EXTENDS Naturals, FiniteSets, CallbackQueue

CONSTANTS Sync, Async,     \* requests sent by SendRequest and by SendRequestAsync
          Nested, Plain,   \* inbound calls: a Nested one's handler sends a request of that name
          Answered,        \* requests the central system may answer
          MaxControls      \* calls of Start, Stop and StopCtx

Requests == Sync \cup Async \cup Nested
Inbound == Nested \cup Plain
Gens == 1..MaxControls
Messages == {"reply", "request"} \X (Requests \cup Inbound)

ASSUME ChargePointAssumption == /\ None \notin Requests \cup Inbound \cup Messages
                                /\ MaxControls \in Nat

VARIABLES snd,       \* [Requests -> pc of SendRequestCtx or SendRequestAsyncCtx]
          pushGen,   \* [Requests -> generation in which it was pushed into the queue]
          regGen,    \* [Requests -> generation in which its callback was registered]
          waits,     \* [Requests -> generation whose stopC awaitCtxResult selects on]
          calls,     \* [Requests -> how often its callback was called]
          disp,      \* [Requests -> where the dispatcher has it]
          tokens, running,
          pump,      \* "off", "idle", or "drain" once it has seen Stop
          hook,      \* the request whose cancellation the pump delivers, or None
          reader,    \* [Gens -> what that connection's read goroutine delivers, or None]
          called,    \* inbound calls the central system has made
          incoming,  \* the one place of cp.incoming, or None
          handler,   \* [Gens -> pc of that generation's asyncCallbackHandler]
          handling,  \* [Gens -> what the message it has taken is about, or None]
          gen,       \* the generation of cp.stopC, 0 before the first Start
          closed,    \* generations whose stopC is closed
          joined,    \* the generation of cp.handlerDone, 0 for the pre-closed one
          errC,      \* "empty" and then "full": Errors() was called, and nobody reads from it
          ctl,       \* pc of the Start or Stop in progress
          goal, controls

sndVars == <<snd, pushGen, regGen, waits>>
dispVars == <<disp, tokens, running, pump, hook>>
netVars == <<reader, called>>
handlerVars == <<handler, handling>>
ctlVars == <<ctl, goal, controls>>
genVars == <<gen, closed, joined>>
queueVars == <<callbacksMutex, callbacks>>
vars == <<queueVars, sndVars, calls, dispVars, netVars, incoming, handlerVars, genVars, errC, ctlVars>>

Init == /\ InitCallbacks
        /\ snd = [r \in Requests |-> "idle"]
        /\ pushGen = [r \in Requests |-> 0]
        /\ regGen = [r \in Requests |-> 0] /\ waits = [r \in Requests |-> 0]
        /\ calls = [r \in Requests |-> 0]
        /\ disp = [r \in Requests |-> "none"]
        /\ tokens = 0 /\ running = FALSE /\ pump = "off" /\ hook = None
        /\ reader = [g \in Gens |-> None] /\ called = {}
        /\ incoming = None
        /\ handler = [g \in Gens |-> "off"] /\ handling = [g \in Gens |-> None]
        /\ gen = 0 /\ closed = {} /\ joined = 0
        /\ errC = "empty"
        /\ ctl = "idle" /\ goal = "none" /\ controls = 0

----------------------------------------------------------------------------
(* SendRequestCtx and SendRequestAsyncCtx                                  *)

sendUnchanged == <<calls, running, pump, hook, netVars, incoming, handlerVars, genVars, errC, ctlVars>>

\* The caller: the application, or the handler goroutine inside an inbound request's handler.
MaySend(r) == \/ r \in Sync \cup Async
              \/ \E g \in Gens : handler[g] = "request" /\ handling[g] = r

\* TryQueue locks; the client asks IsRunning, which holds until the pump has exited.
SendChecks(r) ==
    /\ snd[r] = "idle" /\ MaySend(r)
    /\ IF pump # "off"
       THEN Acquire(r) /\ snd' = [snd EXCEPT ![r] = "push"]
       ELSE Free /\ snd' = [snd EXCEPT ![r] = "failed"] /\ UNCHANGED callbacksMutex
    /\ UNCHANGED <<callbacks, pushGen, regGen, waits, disp, tokens, sendUnchanged>>

\* The push, under the queue's own lock only, ...
SendPushes(r) ==
    /\ snd[r] = "push"
    /\ disp' = [disp EXCEPT ![r] = "queued"]
    /\ pushGen' = [pushGen EXCEPT ![r] = gen]
    /\ snd' = [snd EXCEPT ![r] = "rlock"]
    /\ UNCHANGED <<queueVars, regGen, waits, tokens, sendUnchanged>>

\* ... and then the read lock: a dispatcher that is stopped by now is an error.
SendRLocks(r) ==
    /\ snd[r] = "rlock"
    /\ IF running
       THEN snd' = [snd EXCEPT ![r] = "post"] /\ UNCHANGED queueVars
       ELSE snd' = [snd EXCEPT ![r] = "failed"] /\ Abandon(r)
    /\ UNCHANGED <<pushGen, regGen, waits, disp, tokens, sendUnchanged>>

\* Mutant of SendPosts: the channel has no capacity.
SendPostsUnbounded(r) ==
    /\ snd[r] = "post"
    /\ tokens' = tokens + 1
    /\ Register(r)
    /\ regGen' = [regGen EXCEPT ![r] = gen]
    /\ snd' = [snd EXCEPT ![r] = IF r \in Sync THEN "load" ELSE "accepted"]
    /\ UNCHANGED <<pushGen, waits, disp, sendUnchanged>>

SendPosts(r) ==
    /\ snd[r] = "post" /\ tokens < 1
    /\ tokens' = tokens + 1
    /\ Register(r)
    /\ regGen' = [regGen EXCEPT ![r] = gen]
    /\ snd' = [snd EXCEPT ![r] = IF r \in Sync THEN "load" ELSE "accepted"]
    /\ UNCHANGED <<pushGen, waits, disp, sendUnchanged>>

\* The argument cp.loadStopC() of awaitCtxResult, read after TryQueue has returned.
LoadStopC(r) ==
    /\ snd[r] = "load"
    /\ waits' = [waits EXCEPT ![r] = gen]
    /\ snd' = [snd EXCEPT ![r] = "await"]
    /\ UNCHANGED <<queueVars, pushGen, regGen, disp, tokens, sendUnchanged>>

\* Mutant of AwaitCtxResult: no arm for stopC.
AwaitForever(r) ==
    /\ snd[r] = "await" /\ calls[r] > 0
    /\ snd' = [snd EXCEPT ![r] = "returned"]
    /\ UNCHANGED <<queueVars, pushGen, regGen, waits, disp, tokens, sendUnchanged>>

\* The response, or stopC.  The third arm, a context that is done, can only make it return earlier.
AwaitCtxResult(r) ==
    /\ snd[r] = "await" /\ (calls[r] > 0 \/ waits[r] \in closed)
    /\ snd' = [snd EXCEPT ![r] = "returned"]
    /\ UNCHANGED <<queueVars, pushGen, regGen, waits, disp, tokens, sendUnchanged>>

SendGoesOn(r) == \/ SendPushes(r) \/ SendRLocks(r) \/ SendPosts(r)
                 \/ LoadStopC(r) \/ AwaitCtxResult(r)

----------------------------------------------------------------------------
(* The dispatcher's pump                                                   *)

pumpUnchanged == <<queueVars, sndVars, calls, running, netVars, handlerVars, genVars, errC, ctlVars>>

\* The pump is in its select.
Pumping == pump = "idle" /\ hook = None

PumpTakes == /\ Pumping /\ tokens > 0
             /\ tokens' = tokens - 1
             /\ UNCHANGED <<disp, pump, hook, incoming, pumpUnchanged>>

Cancel(r) == disp' = [disp EXCEPT ![r] = "canceled"] /\ hook' = r

\* The front of the queue is written, or the write fails.
PumpDispatches(r) ==
    /\ Pumping /\ disp[r] = "queued"
    /\ \A q \in Requests : disp[q] # "sent"
    /\ \/ disp' = [disp EXCEPT ![r] = "sent"] /\ UNCHANGED hook
       \/ Cancel(r)
    /\ UNCHANGED <<tokens, pump, incoming, pumpUnchanged>>

PumpTimesOut(r) ==
    /\ Pumping /\ disp[r] = "sent"
    /\ Cancel(r)
    /\ UNCHANGED <<tokens, pump, incoming, pumpUnchanged>>

\* The closed channel: what the queue holds is detached at once, ...
PumpSeesStop ==
    /\ Pumping /\ ~running /\ tokens = 0
    /\ pump' = "drain"
    /\ disp' = [r \in Requests |-> IF disp[r] \in {"queued", "sent"} THEN "drained" ELSE disp[r]]
    /\ UNCHANGED <<tokens, hook, incoming, pumpUnchanged>>

\* ... cancelled one by one, ...
PumpDrains(r) ==
    /\ pump = "drain" /\ hook = None /\ disp[r] = "drained"
    /\ Cancel(r)
    /\ UNCHANGED <<tokens, pump, incoming, pumpUnchanged>>

\* ... and what was pushed meanwhile is wiped by Init.
PumpExits ==
    /\ pump = "drain" /\ hook = None
    /\ \A r \in Requests : disp[r] # "drained"
    /\ pump' = "off"
    /\ disp' = [r \in Requests |-> IF disp[r] = "queued" THEN "none" ELSE disp[r]]
    /\ UNCHANGED <<tokens, hook, incoming, pumpUnchanged>>

\* Mutant of OnRequestTimeout: the send into incoming is not preemptible.
OnRequestTimeoutBlocks ==
    /\ hook # None /\ incoming = None
    /\ incoming' = <<"reply", hook>>
    /\ hook' = None
    /\ UNCHANGED <<disp, tokens, pump, pumpUnchanged>>

OnRequestTimeout ==
    /\ hook # None
    /\ \/ incoming = None /\ incoming' = <<"reply", hook>>
       \/ gen \in closed /\ UNCHANGED incoming
    /\ hook' = None
    /\ UNCHANGED <<disp, tokens, pump, pumpUnchanged>>

Pump(r) == PumpDispatches(r) \/ PumpTimesOut(r) \/ PumpDrains(r)

----------------------------------------------------------------------------
(* The read goroutine of each connection                                   *)

readUnchanged == <<queueVars, sndVars, calls, tokens, running, pump, hook, handlerVars, genVars, errC, ctlVars>>

\* CompleteRequest wins, the response or error handler is called.
Reply(r) ==
    /\ pump = "idle" /\ reader[gen] = None /\ disp[r] = "sent" /\ r \in Answered
    /\ disp' = [disp EXCEPT ![r] = "answered"]
    /\ reader' = [reader EXCEPT ![gen] = <<"reply", r>>]
    /\ UNCHANGED <<called, incoming, readUnchanged>>

\* The central system sends a request of its own.
Call(i) ==
    /\ pump = "idle" /\ reader[gen] = None /\ i \notin called
    /\ called' = called \cup {i}
    /\ reader' = [reader EXCEPT ![gen] = <<"request", i>>]
    /\ UNCHANGED <<disp, incoming, readUnchanged>>

(* The forwarding closures evaluate loadStopC() as they enter the select,   *)
(* and nothing joins them: gen may be a later generation than c.  One that  *)
(* entered before a stopC was closed and leaves after it was replaced is    *)
(* taken to leave in between.                                               *)
Forward(c) ==
    /\ reader[c] # None
    /\ \/ incoming = None /\ incoming' = reader[c]
       \/ gen \in closed /\ UNCHANGED incoming
    /\ reader' = [reader EXCEPT ![c] = None]
    /\ UNCHANGED <<disp, called, readUnchanged>>

----------------------------------------------------------------------------
(* asyncCallbackHandler                                                    *)

handlerUnchanged == <<sndVars, dispVars, netVars, genVars, ctlVars>>
Goes(g, to, about) == /\ handler' = [handler EXCEPT ![g] = to]
                      /\ handling' = [handling EXCEPT ![g] = about]

\* The select: a message, or the generation's own stopC.
HandlerTakes(g) ==
    /\ handler[g] = "select" /\ incoming # None
    /\ incoming' = None
    /\ Goes(g, incoming[1], incoming[2])
    /\ UNCHANGED <<queueVars, calls, errC, handlerUnchanged>>

HandlerStops(g) ==
    /\ handler[g] = "select" /\ g \in closed
    /\ Goes(g, "clear", None)
    /\ UNCHANGED <<queueVars, calls, incoming, errC, handlerUnchanged>>

ClearCallbacks(g) ==
    /\ handler[g] = "clear"
    /\ DrainAll(Requests)
    /\ Goes(g, "done", None)
    /\ UNCHANGED <<calls, incoming, errC, handlerUnchanged>>

\* A response or an error: the callback is called, or its absence is an error to report.
HandleReply(g) == LET r == handling[g] IN
    /\ handler[g] = "reply"
    /\ Dequeue(r)
    /\ IF r \in callbacks
       THEN calls' = [calls EXCEPT ![r] = @ + 1] /\ Goes(g, "select", None)
       ELSE Goes(g, "report", None) /\ UNCHANGED calls
    /\ UNCHANGED <<incoming, errC, handlerUnchanged>>

\* error(): preemptible, for an errC that nobody drains.
HandlerReports(g) ==
    /\ handler[g] = "report"
    /\ \/ errC = "empty" /\ errC' = "full"
       \/ gen \in closed /\ UNCHANGED errC
    /\ Goes(g, "select", None)
    /\ UNCHANGED <<queueVars, calls, incoming, handlerUnchanged>>

(* The handler of an inbound call returns once the request it sends has been *)
(* accepted or refused.  A response that cannot be sent, and no response at  *)
(* all, are errors to report.                                                *)
HandleRequest(g) ==
    /\ handler[g] = "request"
    /\ handling[g] \in Nested => snd[handling[g]] \in {"accepted", "failed"}
    /\ \E to \in {"select", "report"} : Goes(g, to, None)
    /\ UNCHANGED <<queueVars, calls, incoming, errC, handlerUnchanged>>

Handler(g) == \/ HandlerTakes(g) \/ HandlerStops(g) \/ ClearCallbacks(g)
              \/ HandleReply(g) \/ HandlerReports(g) \/ HandleRequest(g)

----------------------------------------------------------------------------
(* Start, Stop and StopCtx                                                 *)

ctlUnchanged == <<queueVars, sndVars, calls, disp, hook, netVars, incoming, errC, controls>>

\* Mutant of StartRetires: the previous generation is left alone.
StartForgets == "start"

\* retirePreviousGeneration: a full Stop, unless there was no Start before.
StartRetires == IF gen = 0 THEN "start" ELSE "close"

Control(g) ==
    /\ ctl = "idle" /\ controls < MaxControls
    /\ controls' = controls + 1
    /\ goal' = g
    /\ ctl' = IF g = "start" THEN StartRetires ELSE "close"
    /\ UNCHANGED <<queueVars, sndVars, calls, dispVars, netVars, incoming, handlerVars, genVars, errC>>

CloseStopC ==
    /\ ctl = "close"
    /\ closed' = IF gen = 0 THEN closed ELSE closed \cup {gen}
    /\ ctl' = "client"
    /\ UNCHANGED <<tokens, running, pump, handlerVars, gen, joined, goal, ctlUnchanged>>

\* client.Stop: the dispatcher's write lock, which a sender waiting for room keeps away, ...
StopClient ==
    /\ ctl = "client"
    /\ \A r \in Requests : snd[r] # "post"
    /\ running' = FALSE
    /\ ctl' = "join"
    /\ UNCHANGED <<tokens, pump, handlerVars, genVars, goal, ctlUnchanged>>

\* Mutant of StopJoins: only the pump is waited for.
StopJoinsPump ==
    /\ ctl = "join" /\ pump = "off"
    /\ ctl' = IF goal = "start" THEN "start" ELSE "idle"
    /\ UNCHANGED <<tokens, running, pump, handlerVars, genVars, goal, ctlUnchanged>>

\* ... the pump's exit, and the handler's.
StopJoins ==
    /\ ctl = "join" /\ pump = "off"
    /\ \A g \in Gens : g = joined => handler[g] = "done"
    /\ ctl' = IF goal = "start" THEN "start" ELSE "idle"
    /\ UNCHANGED <<tokens, running, pump, handlerVars, genVars, goal, ctlUnchanged>>

\* StopCtx gives up the wait for the handler when its context is done.
StopExpires ==
    /\ ctl = "join" /\ pump = "off" /\ goal = "stop"
    /\ ctl' = "idle"
    /\ UNCHANGED <<tokens, running, pump, handlerVars, genVars, goal, ctlUnchanged>>

(* A new stopC is installed, and client.Start fails or starts the           *)
(* dispatcher; only then a handler is spawned and handlerDone replaced.     *)
StartGeneration ==
    /\ ctl = "start"
    /\ gen' = gen + 1
    /\ \/ /\ running' = TRUE /\ tokens' = 0 /\ pump' = "idle"
          /\ joined' = gen'
          /\ Goes(gen', "select", None)
       \/ UNCHANGED <<tokens, running, pump, joined, handlerVars>>
    /\ ctl' = "idle"
    /\ UNCHANGED <<closed, goal, ctlUnchanged>>

ControlGoesOn == CloseStopC \/ StopClient \/ StopJoins \/ StartGeneration

----------------------------------------------------------------------------

(* The cycle of asyncCallbackHandler's comment: the pump waits for room in  *)
(* incoming, its only consumer for the mutex, and the mutex's holder for    *)
(* the pump.                                                                *)
LockCycle == /\ hook # None /\ incoming # None
             /\ \E r \in Requests : snd[r] = "post" /\ tokens = 1
             /\ \E g \in Gens : handler[g] \in {"reply", "request"}

\* Its other caveat: an error for a full errC that nobody reads.
ErrorsWedge == errC = "full" /\ \E g \in Gens : handler[g] = "report"

\* Both last until the generation is stopped, and only until then.
Wedged == (LockCycle \/ ErrorsWedge) /\ gen \notin closed

(* A read goroutine that outlived its generation and found the stopC of a   *)
(* Start that then failed: it has neither a handler to wait for nor, before *)
(* the next Start or Stop, a stopC to give way to.                          *)
Stranded(c) == reader[c] # None /\ incoming # None /\ gen \notin closed /\ joined # gen

(* TryQueue straddled a Stop and a Start: the request was pushed for the    *)
(* one generation, which cancelled or wiped it, and its callback registered *)
(* in the next, which knows nothing of it.                                  *)
Straddles(r) == pushGen[r] # regGen[r]

Finished == /\ ctl = "idle" /\ controls = MaxControls
            /\ \/ Wedged
               \/ /\ \A r \in Requests : snd[r] \notin {"push", "rlock", "post", "load"}
                  /\ \A r \in Sync \cup Async : snd[r] # "idle"
                  /\ \A r \in Sync : snd[r] = "await" => waits[r] # regGen[r] \/ Straddles(r)
                  /\ hook = None /\ pump # "drain"
                  /\ \A g \in Gens : handler[g] \in {"off", "select", "done"}
                  /\ \A g \in Gens : reader[g] = None \/ Stranded(g)
            /\ UNCHANGED vars

Next == \/ \E r \in Requests : SendChecks(r) \/ SendGoesOn(r) \/ Pump(r) \/ Reply(r)
        \/ \E i \in Inbound : Call(i)
        \/ PumpTakes \/ PumpSeesStop \/ PumpExits \/ OnRequestTimeout
        \/ \E g \in Gens : Forward(g) \/ Handler(g)
        \/ \E g \in {"start", "stop"} : Control(g)
        \/ StopExpires
        \/ ControlGoesOn
        \/ Finished

(* The steps that happen if they can: goroutines go on, handlers and        *)
(* callbacks return, and an unanswered request times out.  The application  *)
(* and the central system owe nothing: no request, reply, call, Stop or     *)
(* expiry has to happen.                                                    *)
Progress == \/ \E r \in Requests : SendGoesOn(r) \/ Pump(r) \/ (r \in Nested /\ SendChecks(r))
            \/ PumpTakes \/ PumpSeesStop \/ PumpExits \/ OnRequestTimeout
            \/ \E g \in Gens : Forward(g) \/ Handler(g)
            \/ ControlGoesOn

Spec == Init /\ [][Next]_vars

(* Nothing is left that has to happen.  No step of the model can be         *)
(* repeated forever, so under weak fairness of Progress every behaviour     *)
(* comes to such states and stays in them: what holds in all of them        *)
(* eventually holds.                                                        *)
Quiet == ~ENABLED Progress

----------------------------------------------------------------------------
(* Properties                                                              *)

\* Every variable stays in its range.
TypeOK ==
    /\ callbacksMutex \in Requests \cup {None} /\ callbacks \subseteq Requests
    /\ snd \in [Requests -> {"idle", "push", "rlock", "post", "load", "await", "returned",
                          "accepted", "failed"}]
    /\ pushGen \in [Requests -> 0..MaxControls]
    /\ regGen \in [Requests -> 0..MaxControls] /\ waits \in [Requests -> 0..MaxControls]
    /\ calls \in [Requests -> 0..1]
    /\ disp \in [Requests -> {"none", "queued", "sent", "answered", "canceled", "drained"}]
    /\ tokens \in 0..1 /\ running \in BOOLEAN /\ pump \in {"off", "idle", "drain"}
    /\ hook \in Requests \cup {None}
    /\ reader \in [Gens -> Messages \cup {None}]
    /\ called \subseteq Inbound
    /\ incoming \in Messages \cup {None}
    /\ handler \in [Gens -> {"off", "select", "reply", "request", "report", "clear", "done"}]
    /\ handling \in [Gens -> {None} \cup Requests \cup Inbound]
    /\ gen \in 0..MaxControls /\ closed \subseteq Gens /\ joined \in 0..gen
    /\ errC \in {"empty", "full"}
    /\ ctl \in {"idle", "close", "client", "join", "start"}
    /\ goal \in {"none", "start", "stop"} /\ controls \in 0..MaxControls

(* retirePreviousGeneration: "Without it, a second Start* leaves the prior  *)
(* generation's handler parked forever".  incoming has one consumer at a    *)
(* time, and a handler that is still alive is one the next Stop joins.      *)
OneHandler == \A g \in Gens : handler[g] \notin {"off", "done"} => g = joined /\ g = gen

(* No handler drains callbacks that a later generation has registered: the  *)
(* comment of asyncCallbackHandler on what passing stopC as a parameter     *)
(* closes.                                                                  *)
ClearsOwn == [][\A g \in Gens : ClearCallbacks(g) => \A r \in callbacks : regGen[r] <= g]_vars

(* Stop, StopCtx and Start return, out of the lock cycle and out of an errC *)
(* that nobody reads as well: every producer into incoming gives way to a   *)
(* closed stopC.                                                            *)
ControlReturns == Quiet => ctl = "idle"

(* Nothing waits for ever.  SendRequest returns: with the response, with    *)
(* the cancellation, or because of Stop.  A callback that is still          *)
(* registered belongs to a generation that was stopped: in a running one it *)
(* was called.  And "one non-preemptible send is enough to strand the       *)
(* readPump" (v16.go), but there is none: the read goroutines leave.        *)
(*                                                                          *)
(* Except in the two states the comments own up to; except for a sender     *)
(* that read a later generation's stopC than the one its callback was       *)
(* registered, and cleared, in; for one whose TryQueue straddled a Stop and *)
(* a Start; and for a read goroutine that met a Start that failed.          *)
NobodyWaits == Quiet /\ ~Wedged =>
    /\ \A r \in Sync : snd[r] = "await" => waits[r] # regGen[r] \/ Straddles(r)
    /\ \A r \in callbacks : regGen[r] # gen \/ gen \in closed \/ Straddles(r)
    /\ \A c \in Gens : reader[c] = None \/ Stranded(c)

----------------------------------------------------------------------------
(* The inductive invariant                                                 *)

Alive(g) == handler[g] \notin {"off", "done"}

\* The senders whose callback has been registered.
Registered == {"load", "await", "returned", "accepted"}

\* The mutex belongs to the sender inside TryQueue; a callback is registered once and called once.
OneHand == \A r \in Requests :
    /\ snd[r] \in {"push", "rlock", "post"} <=> callbacksMutex = r
    /\ r \in callbacks => snd[r] \in Registered /\ calls[r] = 0
    /\ calls[r] > 0 => snd[r] \in Registered

(* Every Start and Stop that is counted makes at most one generation; one   *)
(* that is about to has joined the pump and the handler of the last.        *)
Generations ==
    /\ gen <= controls /\ (ctl # "idle" => gen < controls)
    /\ \A g \in Gens : g > gen => handler[g] = "off"
    /\ ctl = "start" => pump = "off" /\ \A g \in Gens : ~Alive(g)
    /\ \A r \in Requests : pushGen[r] <= gen /\ regGen[r] <= gen

\* stopC is closed before the dispatcher is stopped, and a handler stops only for its own stopC.
StopOrder ==
    /\ running => pump = "idle" /\ gen > 0 /\ joined = gen
    /\ pump # "off" => running \/ gen \in closed
    /\ ctl \in {"client", "join"} => gen = 0 \/ gen \in closed
    /\ joined = gen /\ gen > 0 /\ gen \notin closed => Alive(gen)
    /\ \A g \in Gens : handler[g] \in {"clear", "done"} => g \in closed

ReplyTo(r, message) == message = <<"reply", r>>

\* Somebody is on the way to the callback of r with a response, an error or a cancellation.
InCharge(r) == \/ disp[r] \in {"queued", "sent"} \/ hook = r
               \/ ReplyTo(r, incoming) \/ \E c \in Gens : ReplyTo(r, reader[c])
               \/ \E g \in Gens : handler[g] = "reply" /\ handling[g] = r

(* A callback that the current generation registered for a request pushed   *)
(* in it is not forgotten before Stop: the dispatcher runs, the handler is  *)
(* there to call it, and somebody is bringing what it is called with.       *)
(* Dropping a message at a closed stopC, wiping the queue at the pump's     *)
(* exit and replacing the handler all come after Stop.                      *)
NoneForgotten == gen \notin closed => \A r \in callbacks :
                     pushGen[r] = gen /\ regGen[r] = gen => running /\ Alive(gen) /\ InCharge(r)

\* The same for a sender that has pushed and has yet to register.
Charge == \A r \in Requests :
    /\ snd[r] \in {"idle", "push"} => disp[r] = "none"
    /\ snd[r] = "post" => running
    /\ snd[r] \in {"rlock", "post"} /\ pushGen[r] = gen => gen \in closed \/ InCharge(r)

IndInv == TypeOK /\ OneHandler /\ OneHand /\ Generations /\ StopOrder /\ Charge /\ NoneForgotten

=============================================================================

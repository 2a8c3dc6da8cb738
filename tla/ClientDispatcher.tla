-------------------------- MODULE ClientDispatcher --------------------------
(***************************************************************************)
(* DefaultClientDispatcher (ocppj/dispatcher.go) together with the entry   *)
(* points of ocppj.Client (ocppj/client.go) that drive it.                 *)
(*                                                                         *)
(* Goroutines, each with a program counter:                                *)
(*   pc        messagePump, one per Start                                  *)
(*   snd[r]    the caller of SendRequestCtx for request r                  *)
(*   rd[p]     a websocket read goroutine inside ocppMessageHandler        *)
(*   hook      the websocket goroutine that reports (dis)connections:      *)
(*             onDisconnected -> Pause, onReconnected -> Resume            *)
(*   starter   the caller of Client.Start                                  *)
(*   stop[s]   a caller of Client.Stop                                     *)
(* A step is one access to shared state: one queue or pending-state        *)
(* operation, one channel operation, one critical section of d.mutex.      *)
(***************************************************************************)
EXTENDS RequestQueue, FiniteSets, Functions

CONSTANTS Requests,        \* the requests the application sends, one message ID each
          Cancelable,      \* those whose context may be canceled or expire
          Readers,         \* websocket read goroutines
          Stoppers,        \* goroutines that call Client.Stop
          Capacity,        \* capacity of the request queue, 0 for unlimited
          TimeoutOnPause,  \* SetTimeoutOnPause
          DayTick,         \* whether a session may last past the 24h tick
          MaxStarts,       \* bound on the calls of Client.Start
          MaxDrops         \* bound on the lost connections

ASSUME ConstantsAssumption ==
    /\ None \notin Requests
    /\ Cancelable \subseteq Requests
    /\ Capacity \in Nat
    /\ TimeoutOnPause \in BOOLEAN
    /\ DayTick \in BOOLEAN
    /\ MaxStarts \in Nat
    /\ MaxDrops \in Nat

VARIABLES
    requestQueue,      \* the FIFO of requests not completed yet
    pending,           \* pendingRequestState: the request awaiting its response
    requestChannel,    \* "nil", "open" or "closed"
    posted,            \* the one-slot buffer of requestChannel holds a token
    readyForDispatch,  \* the one-slot buffer of readyForDispatch holds a token
    running,
    paused,
    timer,             \* "nil", "long" (24h), "short" (d.timeout) or "expired"
    tick,              \* timer.C holds a tick
    ctxDone,           \* requests whose context has fired
    pc, rdy, token,    \* messagePump: control, rdy, and the local pending.id
    cur, why,          \* messagePump: the request in hand, and why it completes it
    outstanding,       \* messagePump: what the stop arm drained
    snd, rd, hook, starter, stop,
    online,            \* the websocket client is started
    starts, drops,     \* how often Start was called, the connection dropped
    sent,              \* how often each request was handed to the network
    outcome            \* what the application was told about each request

queueVars == <<requestQueue, pending>>
chanVars  == <<requestChannel, posted, running>>
timerVars == <<timer, tick>>
pumpVars  == <<pc, rdy, token, cur, why, outstanding>>
linkVars  == <<hook, online, drops>>
ctlVars   == <<starter, stop, starts>>

vars == <<requestQueue, pending, requestChannel, posted, readyForDispatch,
          running, paused, timer, tick, ctxDone, pc, rdy, token, cur, why,
          outstanding, snd, rd, hook, starter, stop, online, starts, drops,
          sent, outcome>>

-----------------------------------------------------------------------------
(* Types *)

PumpPC == {"off", "top", "select", "expired", "peekExpired", "pop", "cancel",
           "completed", "pausedCheck", "dispatch", "arm", "clear", "drain", "exit"}

Reasons == {"timeout", "ctx", "drop", "write"}

Outcomes == {"none", "response", "timeout", "ctx", "write", "stopped", "twice"}

FlagTypes ==
    /\ posted \in BOOLEAN
    /\ readyForDispatch \in BOOLEAN
    /\ running \in BOOLEAN
    /\ paused \in BOOLEAN
    /\ tick \in BOOLEAN
    /\ rdy \in BOOLEAN
    /\ online \in BOOLEAN

DataTypes ==
    /\ requestQueue \in Seq(Requests)
    /\ pending \in Requests \cup {None}
    /\ requestChannel \in {"nil", "open", "closed"}
    /\ timer \in {"nil", "long", "short", "expired"}
    /\ ctxDone \in SUBSET Cancelable
    /\ pc \in PumpPC
    /\ token \in Requests \cup {None}
    /\ cur \in Requests \cup {None}
    /\ why \in Reasons \cup {"none"}
    /\ outstanding \in Seq(Requests)
    /\ snd \in [Requests -> {"idle", "push", "rlock", "send", "accepted", "failed"}]
    /\ rd \in [Readers -> [pc : {"idle", "pop", "delete", "deliver"},
                           id : Requests \cup {None}]]
    /\ hook \in {"up", "pause", "down", "resumed", "rearm", "ready", "panicked"}
    /\ starter \in {"idle", "dial", "lock"}
    /\ stop \in [Stoppers -> {"idle", "isRunning", "lock", "wait"}]
    /\ starts \in Nat
    /\ drops \in Nat
    /\ sent \in [Requests -> Nat]
    /\ outcome \in [Requests -> Outcomes]

\* a goroutine that has a request in hand really has one
Hands ==
    /\ pc \in {"pop", "cancel", "arm"} => cur # None
    /\ pc \in {"pop", "cancel"} => why # "none"
    /\ \A p \in Readers : rd[p].pc # "idle" => rd[p].id # None

\* Every variable has its type, and CompleteRequest, the cancel callback and the
\* pump-local token never meet the nil element of an empty queue (330-333, 389-399).
TypeOK == FlagTypes /\ DataTypes /\ Hands

Init ==
    /\ requestQueue = << >>
    /\ pending = None
    /\ requestChannel = "nil" /\ posted = FALSE
    /\ readyForDispatch = FALSE
    /\ running = FALSE /\ paused = FALSE
    /\ timer = "nil" /\ tick = FALSE
    /\ ctxDone = {}
    /\ pc = "off" /\ rdy = FALSE /\ token = None /\ cur = None /\ why = "none"
    /\ outstanding = << >>
    /\ snd = [r \in Requests |-> "idle"]
    /\ rd = [p \in Readers |-> [pc |-> "idle", id |-> None]]
    /\ hook = "up" /\ online = FALSE /\ drops = 0
    /\ starter = "idle" /\ stop = [s \in Stoppers |-> "idle"] /\ starts = 0
    /\ sent = [r \in Requests |-> 0]
    /\ outcome = [r \in Requests |-> "none"]

-----------------------------------------------------------------------------
(* d.mutex, a sync.RWMutex.  Every writer's critical section is one step.  *)
(* The only reader that holds the lock across a blocking operation is a    *)
(* SendRequest at "send".  A writer that waits blocks new readers.         *)

WriterWaiting ==
    \/ starter = "lock"
    \/ hook = "pause"
    \/ pc = "exit"
    \/ \E s \in Stoppers : stop[s] = "lock"

CanRLock == ~WriterWaiting

CanAlwaysLock == TRUE

CanLock == \A r \in Requests : snd[r] # "send"

-----------------------------------------------------------------------------
(* time.Timer with a buffered channel (go 1.21 semantics).                 *)

\* if !d.timer.Stop() { select { case <-d.timer.C: default: } }; d.timer.Reset(d)
StopDrainReset(d) ==
    /\ timer' = d
    /\ tick' = (tick /\ timer # "expired")

TimerFire ==
    /\ timer \in {"short"} \cup (IF DayTick THEN {"long"} ELSE {})
    /\ timer' = "expired"
    /\ tick' = TRUE
    /\ UNCHANGED <<queueVars, chanVars, readyForDispatch, paused, ctxDone,
                   pumpVars, snd, rd, linkVars, ctlVars, sent, outcome>>

CtxFire(r) ==
    /\ r \in Cancelable \ ctxDone
    /\ snd[r] # "idle"
    /\ ctxDone' = ctxDone \cup {r}
    /\ UNCHANGED <<queueVars, chanVars, readyForDispatch, paused, timerVars,
                   pumpVars, snd, rd, linkVars, ctlVars, sent, outcome>>

\* the application's callback for r runs with outcome k
Notify(r, k) ==
    outcome' = [outcome EXCEPT ![r] = IF @ = "none" THEN k ELSE "twice"]

-----------------------------------------------------------------------------
(* ocppj.Client.SendRequestCtx and DefaultClientDispatcher.SendRequest     *)

sendUnchanged == <<pending, requestChannel, running, readyForDispatch, paused,
                   timerVars, ctxDone, pumpVars, rd, linkVars, ctlVars, sent,
                   outcome>>

\* c.dispatcher.IsRunning()
SendIsRunning(r) ==
    /\ snd[r] = "idle"
    /\ CanRLock
    /\ snd' = [snd EXCEPT ![r] = IF requestChannel # "nil" THEN "push" ELSE "failed"]
    /\ UNCHANGED <<requestQueue, posted, sendUnchanged>>

SendPush(r) ==
    /\ snd[r] = "push"
    /\ IF IsFull(requestQueue, Capacity)
       THEN /\ snd' = [snd EXCEPT ![r] = "failed"]
            /\ UNCHANGED requestQueue
       ELSE /\ requestQueue' = Push(requestQueue, r)
            /\ snd' = [snd EXCEPT ![r] = "rlock"]
    /\ UNCHANGED <<posted, sendUnchanged>>

SendRLock(r) ==
    /\ snd[r] = "rlock"
    /\ CanRLock
    /\ snd' = [snd EXCEPT ![r] = IF running THEN "send" ELSE "failed"]
    /\ UNCHANGED <<requestQueue, posted, sendUnchanged>>

\* d.requestChannel <- true, with the read lock held
SendPost(r) ==
    /\ snd[r] = "send"
    /\ ~posted
    /\ posted' = TRUE
    /\ snd' = [snd EXCEPT ![r] = "accepted"]
    /\ UNCHANGED <<requestQueue, sendUnchanged>>

Send(r) == SendIsRunning(r) \/ SendPush(r) \/ SendRLock(r) \/ SendPost(r)

-----------------------------------------------------------------------------
(* ocppj.Client.ocppMessageHandler on a CALL_RESULT or CALL_ERROR          *)

readUnchanged == <<chanVars, paused, timerVars, ctxDone, pumpVars, snd,
                   linkVars, ctlVars, sent>>

\* ParseMessage accepts only a reply to the pending request; the peer replies
\* to what it was sent
ReadReply(p) ==
    /\ rd[p].pc = "idle"
    /\ HasPendingRequest(pending)
    /\ sent[pending] > 0
    /\ rd' = [rd EXCEPT ![p] = [pc |-> "pop", id |-> pending]]
    /\ UNCHANGED <<queueVars, readyForDispatch, outcome, readUnchanged>>

\* CompleteRequest: PopIf decides who owns the completion
ReadPop(p) ==
    /\ rd[p].pc = "pop"
    /\ requestQueue' = PopIf(requestQueue, rd[p].id)
    /\ rd' = [rd EXCEPT ![p] = IF FrontIs(requestQueue, @.id)
                               THEN [pc |-> "delete", id |-> @.id]
                               ELSE [pc |-> "idle", id |-> None]]
    /\ UNCHANGED <<pending, readyForDispatch, outcome, readUnchanged>>

ReadDelete(p) ==
    /\ rd[p].pc = "delete"
    /\ pending' = DeletePendingRequest(pending, rd[p].id)
    /\ rd' = [rd EXCEPT ![p].pc = "deliver"]
    /\ UNCHANGED <<requestQueue, readyForDispatch, outcome, readUnchanged>>

\* the ready signal, then responseHandler or errorHandler
ReadDeliver(p) ==
    /\ rd[p].pc = "deliver"
    /\ readyForDispatch' = TRUE
    /\ Notify(rd[p].id, "response")
    /\ rd' = [rd EXCEPT ![p] = [pc |-> "idle", id |-> None]]
    /\ UNCHANGED <<queueVars, readUnchanged>>

Read(p) == ReadReply(p) \/ ReadPop(p) \/ ReadDelete(p) \/ ReadDeliver(p)

-----------------------------------------------------------------------------
(* messagePump *)

pumpUnchanged == <<running, paused, ctxDone, snd, rd, linkVars, ctlVars>>

\* top of the loop: forget a token whose request was completed off the pump
PumpReconcile ==
    /\ pc = "top"
    /\ token' = IF pending = token THEN token ELSE None
    /\ pc' = "select"
    /\ UNCHANGED <<rdy, cur, why, outstanding, queueVars, requestChannel, posted,
                   readyForDispatch, timerVars, sent, outcome, pumpUnchanged>>

\* case _, ok := <-reqCh, a request was posted
PumpPosted ==
    /\ pc = "select"
    /\ posted
    /\ posted' = FALSE
    /\ pc' = "pausedCheck"
    /\ UNCHANGED <<rdy, token, cur, why, outstanding, queueVars, requestChannel,
                   readyForDispatch, timerVars, sent, outcome, pumpUnchanged>>

InFlightOnly == IF HasPendingRequest(pending) THEN <<pending>> ELSE << >>

\* drainer.DrainAll()
DrainAll == requestQueue

\* case _, ok := <-reqCh, the channel is closed: detach the queue in one step
PumpClosed ==
    /\ pc = "select"
    /\ requestChannel = "closed" /\ ~posted
    /\ outstanding' = DrainAll
    /\ requestQueue' = << >>
    /\ pc' = "clear"
    /\ UNCHANGED <<rdy, token, cur, why, pending, requestChannel, posted,
                   readyForDispatch, timerVars, sent, outcome, pumpUnchanged>>

\* case <-d.timer.C
PumpTick ==
    /\ pc = "select"
    /\ tick
    /\ tick' = FALSE
    /\ pc' = "expired"
    /\ UNCHANGED <<rdy, token, cur, why, outstanding, queueVars, requestChannel,
                   posted, readyForDispatch, timer, sent, outcome, pumpUnchanged>>

\* case rdy = <-d.readyForDispatch
PumpReady ==
    /\ pc = "select"
    /\ readyForDispatch
    /\ readyForDispatch' = FALSE
    /\ rdy' = TRUE
    /\ pc' = "pausedCheck"
    /\ UNCHANGED <<token, cur, why, outstanding, queueVars, requestChannel, posted,
                   timerVars, sent, outcome, pumpUnchanged>>

\* case <-pendingDone: cancel the request if it is still the pending one
PumpCtxDone ==
    /\ pc = "select"
    /\ token \in ctxDone
    /\ IF pending = token
       THEN pc' = "pop" /\ cur' = token /\ why' = "ctx" /\ UNCHANGED token
       ELSE pc' = "pausedCheck" /\ token' = None /\ UNCHANGED <<cur, why>>
    /\ UNCHANGED <<rdy, outstanding, queueVars, requestChannel, posted,
                   readyForDispatch, timerVars, sent, outcome, pumpUnchanged>>

\* d.timer.Reset(defaultTimeoutTick); pending = pumpPending{}
TimerArmDone ==
    /\ timer' = "long"
    /\ token' = None
    /\ pc' = "pausedCheck"

PumpExpired ==
    /\ pc = "expired"
    /\ IF HasPendingRequest(pending)
       THEN pc' = "peekExpired" /\ UNCHANGED <<timer, token>>
       ELSE TimerArmDone
    /\ UNCHANGED <<rdy, cur, why, outstanding, queueVars, requestChannel, posted,
                   readyForDispatch, tick, sent, outcome, pumpUnchanged>>

NeverEmpty == FALSE

\* the guard against a queue that is out of step with the pending state
NoBundle == IsEmpty(requestQueue)

\* the front of the queue is taken for the pending request
PumpPeekExpired ==
    /\ pc = "peekExpired"
    /\ IF NoBundle
       THEN TimerArmDone /\ UNCHANGED <<cur, why>>
       ELSE /\ cur' = Peek(requestQueue)
            /\ why' = "timeout"
            /\ pc' = "pop"
            /\ UNCHANGED <<timer, token>>
    /\ UNCHANGED <<rdy, outstanding, queueVars, requestChannel, posted,
                   readyForDispatch, tick, sent, outcome, pumpUnchanged>>

\* CompleteRequest called by the pump
PumpPop ==
    /\ pc = "pop"
    /\ requestQueue' = PopIf(requestQueue, cur)
    /\ pc' = IF FrontIs(requestQueue, cur) THEN "cancel" ELSE "completed"
    /\ UNCHANGED <<rdy, token, cur, why, outstanding, pending, requestChannel,
                   posted, readyForDispatch, timerVars, sent, outcome, pumpUnchanged>>

\* the rest of a won CompleteRequest, and fireRequestCancel
PumpCancel ==
    /\ pc = "cancel"
    /\ pending' = DeletePendingRequest(pending, cur)
    /\ readyForDispatch' = TRUE
    /\ Notify(cur, IF why = "drop" THEN "ctx" ELSE why)
    /\ pc' = "completed"
    /\ UNCHANGED <<rdy, token, cur, why, outstanding, requestQueue, requestChannel,
                   posted, timerVars, sent, pumpUnchanged>>

\* what each caller of CompleteRequest does afterwards
PumpCompleted ==
    /\ pc = "completed"
    /\ cur' = None /\ why' = "none"
    /\ \/ why = "timeout" /\ TimerArmDone /\ UNCHANGED <<rdy, tick>>
       \/ why = "ctx" /\ token' = None /\ pc' = "pausedCheck" /\ UNCHANGED <<rdy, timerVars>>
       \/ why = "drop" /\ pc' = "top" /\ UNCHANGED <<rdy, token, timerVars>>
       \/ why = "write" /\ token' = None /\ rdy' = FALSE /\ StopDrainReset("short") /\ pc' = "top"
    /\ UNCHANGED <<outstanding, queueVars, requestChannel, posted, readyForDispatch,
                   sent, outcome, pumpUnchanged>>

PumpPausedCheckRLock ==
    /\ pc = "pausedCheck"
    /\ CanRLock
    /\ pc' = IF ~paused /\ rdy THEN "dispatch" ELSE "top"
    /\ UNCHANGED <<rdy, token, cur, why, outstanding, queueVars, requestChannel,
                   posted, readyForDispatch, timerVars, sent, outcome, pumpUnchanged>>

\* d.IsPaused(), an atomic load without d.mutex, then rdy
PumpPausedCheck ==
    /\ pc = "pausedCheck"
    /\ pc' = IF ~paused /\ rdy THEN "dispatch" ELSE "top"
    /\ UNCHANGED <<rdy, token, cur, why, outstanding, queueVars, requestChannel,
                   posted, readyForDispatch, timerVars, sent, outcome, pumpUnchanged>>

CanDispatchQueued == ~IsEmpty(requestQueue)

\* the level-based guard, re-derived every iteration
CanDispatch == ~IsEmpty(requestQueue) /\ ~HasPendingRequest(pending)

\* the rest of the dispatch guard and dispatchNextRequest: drop the front if its
\* context has fired, else make it pending and write it, which may fail
PumpDispatch ==
    /\ pc = "dispatch"
    /\ IF ~CanDispatch
       THEN pc' = "top" /\ UNCHANGED <<cur, why, pending, sent>>
       ELSE /\ cur' = Peek(requestQueue)
            /\ \/ cur' \in ctxDone /\ pc' = "pop" /\ why' = "drop" /\ UNCHANGED <<pending, sent>>
               \/ /\ cur' \notin ctxDone
                  /\ pending' = AddPendingRequest(pending, cur')
                  /\ \/ sent' = [sent EXCEPT ![cur'] = @ + 1] /\ pc' = "arm" /\ UNCHANGED why
                     \/ why' = "write" /\ pc' = "pop" /\ UNCHANGED sent
    /\ UNCHANGED <<rdy, token, outstanding, requestQueue, requestChannel, posted,
                   readyForDispatch, timerVars, outcome, pumpUnchanged>>

PumpArm ==
    /\ pc = "arm"
    /\ token' = cur /\ cur' = None
    /\ rdy' = FALSE
    /\ StopDrainReset("short")
    /\ pc' = "top"
    /\ UNCHANGED <<why, outstanding, queueVars, requestChannel, posted,
                   readyForDispatch, sent, outcome, pumpUnchanged>>

\* the stop arm after DrainAll: clear the pending request, fire one cancel per
\* drained request, re-initialise the queue, leave
PumpClear ==
    /\ pc = "clear"
    /\ pending' = None
    /\ pc' = "drain"
    /\ UNCHANGED <<rdy, token, cur, why, outstanding, requestQueue, requestChannel,
                   posted, readyForDispatch, timerVars, sent, outcome, pumpUnchanged>>

PumpDrain ==
    /\ pc = "drain"
    /\ outcome' = [r \in Requests |->
                       IF r \notin Range(outstanding) THEN outcome[r]
                       ELSE IF outcome[r] = "none" THEN "stopped" ELSE "twice"]
    /\ outstanding' = << >>
    /\ requestQueue' = << >>
    /\ pc' = "exit"
    /\ UNCHANGED <<rdy, token, cur, why, pending, requestChannel, posted,
                   readyForDispatch, timerVars, sent, pumpUnchanged>>

PumpExit ==
    /\ pc = "exit"
    /\ CanLock
    /\ requestChannel' = "nil"
    /\ rdy' = FALSE /\ token' = None
    /\ pc' = "off"
    /\ UNCHANGED <<cur, why, outstanding, queueVars, posted, readyForDispatch,
                   timerVars, sent, outcome, pumpUnchanged>>

Pump ==
    \/ PumpReconcile \/ PumpPosted \/ PumpClosed \/ PumpTick \/ PumpReady
    \/ PumpCtxDone \/ PumpExpired \/ PumpPeekExpired \/ PumpPop \/ PumpCancel
    \/ PumpCompleted \/ PumpPausedCheck \/ PumpDispatch \/ PumpArm
    \/ PumpClear \/ PumpDrain \/ PumpExit

-----------------------------------------------------------------------------
(* Client.onDisconnected -> Pause, Client.onReconnected -> Resume          *)

hookUnchanged == <<queueVars, chanVars, ctxDone, pumpVars, snd, rd, ctlVars,
                   sent, outcome>>

\* the connection is lost, Pause is called
Disconnected ==
    /\ online /\ hook = "up" /\ drops < MaxDrops
    /\ hook' = "pause"
    /\ drops' = drops + 1
    /\ UNCHANGED <<online, paused, readyForDispatch, timerVars, hookUnchanged>>

\* a nil d.timer makes Pause panic on a goroutine nobody recovers
Pause ==
    /\ hook = "pause"
    /\ CanLock
    /\ IF timer = "nil"
       THEN hook' = "panicked" /\ UNCHANGED <<paused, timerVars>>
       ELSE /\ StopDrainReset(IF TimeoutOnPause THEN "short" ELSE "long")
            /\ paused' = TRUE
            /\ hook' = "down"
    /\ UNCHANGED <<online, drops, readyForDispatch, hookUnchanged>>

\* the websocket client has redialled: Resume stores paused = 0 first
Reconnected ==
    /\ online /\ hook = "down"
    /\ paused' = FALSE
    /\ hook' = "resumed"
    /\ UNCHANGED <<online, drops, readyForDispatch, timerVars, hookUnchanged>>

ResumeCheck ==
    /\ hook = "resumed"
    /\ hook' = IF HasPendingRequest(pending) THEN "rearm" ELSE "ready"
    /\ UNCHANGED <<online, drops, paused, readyForDispatch, timerVars, hookUnchanged>>

ResumeRearm ==
    /\ hook = "rearm"
    /\ StopDrainReset("short")
    /\ hook' = "up"
    /\ UNCHANGED <<online, drops, paused, readyForDispatch, hookUnchanged>>

ResumeReadySilent ==
    /\ hook = "ready"
    /\ hook' = "up"
    /\ UNCHANGED <<online, drops, paused, readyForDispatch, timerVars, hookUnchanged>>

ResumeReady ==
    /\ hook = "ready"
    /\ readyForDispatch' = TRUE
    /\ hook' = "up"
    /\ UNCHANGED <<online, drops, paused, timerVars, hookUnchanged>>

Hook == Pause \/ ResumeCheck \/ ResumeRearm \/ ResumeReady

-----------------------------------------------------------------------------
(* Client.Start / Client.StartWithRetries and Client.Stop                  *)

ctlUnchanged == <<queueVars, readyForDispatch, ctxDone, snd, rd, drops, sent, outcome>>

\* nothing of the previous session is still being started or stopped
Quiescent ==
    /\ starter = "idle"
    /\ \A s \in Stoppers : stop[s] = "idle"

\* the websocket client connects; the dispatcher is started afterwards
ClientStart ==
    /\ Quiescent /\ ~online /\ hook \in {"up", "down"} /\ starts < MaxStarts
    /\ online' = TRUE
    /\ hook' = "up"
    /\ starter' = "lock"
    /\ starts' = starts + 1
    /\ UNCHANGED <<chanVars, paused, timerVars, pumpVars, stop, ctlUnchanged>>

\* the first dial failed: the retry loop calls onReconnected, i.e. Resume, before
\* it returns
ClientStartWithRetries ==
    /\ Quiescent /\ ~online /\ hook \in {"up", "down"} /\ starts < MaxStarts
    /\ online' = TRUE
    /\ hook' = "resumed"
    /\ paused' = FALSE
    /\ starter' = "dial"
    /\ starts' = starts + 1
    /\ UNCHANGED <<chanVars, timerVars, pumpVars, stop, ctlUnchanged>>

Dialled ==
    /\ starter = "dial"
    /\ hook \notin {"resumed", "rearm", "ready"}
    /\ starter' = "lock"
    /\ UNCHANGED <<chanVars, paused, timerVars, pumpVars, hook, online, stop, starts,
                   ctlUnchanged>>

\* DefaultClientDispatcher.Start
Start ==
    /\ starter = "lock"
    /\ CanLock
    /\ requestChannel' = "open" /\ posted' = FALSE
    /\ running' = TRUE
    /\ timer' = "long" /\ tick' = FALSE
    /\ pc' = "top" /\ rdy' = TRUE /\ token' = None
    /\ starter' = "idle"
    /\ UNCHANGED <<paused, cur, why, outstanding, hook, online, stop, starts, ctlUnchanged>>

\* c.client.Stop(): no (re)connection event of this session is reported any more.
\* A Stop with nothing to stop changes nothing and is left out.
ClientStop(s) ==
    /\ stop[s] = "idle" /\ starter = "idle"
    /\ online \/ requestChannel # "nil"
    /\ online' = FALSE
    /\ stop' = [stop EXCEPT ![s] = "isRunning"]
    /\ UNCHANGED <<chanVars, paused, timerVars, pumpVars, hook, starter, starts,
                   ctlUnchanged>>

StopIsRunning(s) ==
    /\ stop[s] = "isRunning"
    /\ CanRLock
    /\ stop' = [stop EXCEPT ![s] = IF requestChannel # "nil" THEN "lock" ELSE "idle"]
    /\ UNCHANGED <<chanVars, paused, timerVars, pumpVars, hook, online, starter,
                   starts, ctlUnchanged>>

\* DefaultClientDispatcher.Stop: close the channel once
StopClose(s) ==
    /\ stop[s] = "lock"
    /\ CanLock
    /\ IF running
       THEN /\ running' = FALSE
            /\ requestChannel' = "closed"
            /\ stop' = [stop EXCEPT ![s] = "wait"]
       ELSE /\ stop' = [stop EXCEPT ![s] = "idle"]
            /\ UNCHANGED <<running, requestChannel>>
    /\ UNCHANGED <<posted, paused, timerVars, pumpVars, hook, online, starter, starts,
                   ctlUnchanged>>

\* <-done
StopJoin(s) ==
    /\ stop[s] = "wait"
    /\ pc = "off"
    /\ stop' = [stop EXCEPT ![s] = "idle"]
    /\ UNCHANGED <<chanVars, paused, timerVars, pumpVars, hook, online, starter,
                   starts, ctlUnchanged>>

Stop(s) == StopIsRunning(s) \/ StopClose(s) \/ StopJoin(s)

\* the process has died, or there is nothing left to do
Finished ==
    /\ \/ hook = "panicked"
       \/ /\ starts = MaxStarts /\ Quiescent /\ hook \in {"up", "down"}
          /\ pc \in (IF IsEmpty(requestQueue) THEN {"off", "select"} ELSE {"off"})
          /\ \A r \in Requests : snd[r] \in {"accepted", "failed"}
          /\ \A p \in Readers : rd[p].pc = "idle"
    /\ UNCHANGED vars

Next ==
    \/ /\ hook # "panicked"
       /\ \/ TimerFire
          \/ \E r \in Requests : CtxFire(r) \/ Send(r)
          \/ \E p \in Readers : Read(p)
          \/ Pump
          \/ Disconnected \/ Reconnected \/ Hook
          \/ ClientStart \/ ClientStartWithRetries \/ Dialled \/ Start
          \/ \E s \in Stoppers : ClientStop(s) \/ Stop(s)
    \/ Finished

Spec == Init /\ [][Next]_vars

\* Goroutines that can run do run, and a timer armed with d.timeout fires.  Nothing
\* is assumed of the peer, the network, the contexts or the application's calls.
Fairness ==
    /\ WF_vars(Pump) /\ WF_vars(Hook) /\ WF_vars(Dialled) /\ WF_vars(Start)
    /\ WF_vars(TimerFire)
    /\ \A r \in Requests : WF_vars(SendPush(r) \/ SendRLock(r) \/ SendPost(r))
    /\ \A p \in Readers : WF_vars(ReadPop(p) \/ ReadDelete(p) \/ ReadDeliver(p))
    /\ \A s \in Stoppers : WF_vars(Stop(s))

FairSpec == Spec /\ Fairness

-----------------------------------------------------------------------------
(* Safety *)

\* the goroutines that have won CompleteRequest and not yet run the callback
ReaderOwns(p, r) == rd[p].id = r /\ rd[p].pc \in {"delete", "deliver"}

PumpOwns(r) == cur = r /\ pc = "cancel"

\* Completion ownership (CompleteRequest, dispatcher.go 484-505, and the stop
\* drain, 291-322): a response, a timeout, a context, a failed write and Stop may
\* race for a request, and still the application is told about it at most once.
SingleOutcome == \A r \in Requests : outcome[r] # "twice"

\* Stop closes requestChannel only under the write lock (214-229), SendRequest
\* sends under the read lock after it saw running (246-251): no send ever meets a
\* closed or nil channel, which would panic or block for ever.
SendOnOpenChannel == \A r \in Requests : snd[r] = "send" => requestChannel = "open"

\* One request at a time (level-based dispatch guard, 363-365): whatever was put on
\* the wire and is not completed is the front of the queue and the pending request,
\* so nothing behind it can be sent or sent again.
OneInFlight ==
    \A i \in DOMAIN requestQueue :
        sent[requestQueue[i]] > 0 => i = 1 /\ pending = requestQueue[1]

\* No request is handed to the network twice, whatever tokens are left over in
\* readyForDispatch from timeouts, resumes or an earlier session (365, 415-417).
NeverRewritten == \A r \in Requests : sent[r] <= 1

\* a request that somebody is still going to report
InHand(r) ==
    \/ r \in Range(requestQueue) \cup Range(outstanding)
    \/ PumpOwns(r)
    \/ \E p \in Readers : ReaderOwns(p, r)

\* "If [...] the request couldn't be processed, an error is returned" (39-43): a
\* request for which SendRequest returned no error is reported or will be.  Once the
\* pump has gone (209-229, 291-322) it has been reported, or the read goroutine that
\* won it is about to.
AcceptedIsReported ==
    \A r \in Requests : snd[r] = "accepted" /\ outcome[r] = "none" =>
        IF pc = "off" THEN \E p \in Readers : ReaderOwns(p, r) ELSE InHand(r)

\* "Sets the maximum timeout to be considered after sending a request" (25-27): only
\* a request that was sent, or whose write was tried, is reported as timed out.
TimeoutAfterSending == \A r \in Requests : outcome[r] = "timeout" => sent[r] > 0

\* "In case of disconnection, the client handles re-connection automatically"
\* (client.go 126): reporting a lost connection never takes the process down.
DisconnectIsHandled == hook # "panicked"

-----------------------------------------------------------------------------
(* The inductive invariant behind the safety properties *)

\* the life of a session: who opened, closes and awaits requestChannel
Session ==
    /\ running <=> requestChannel = "open"
    /\ pc = "off" <=> requestChannel = "nil"
    /\ pc \in {"clear", "drain", "exit"} => requestChannel = "closed"
    /\ starter # "idle" =>
           pc = "off" /\ online /\ \A s \in Stoppers : stop[s] = "idle"
    /\ requestChannel = "closed" => \E s \in Stoppers : stop[s] = "wait"
    /\ running /\ ~online => \E s \in Stoppers : stop[s] \in {"isRunning", "lock"}
    /\ SendOnOpenChannel

\* a request before its Push
Fresh(r) == snd[r] \in {"idle", "push"}

\* the requests that somebody other than the queue is going to report
Claimed == {r \in Requests : \/ PumpOwns(r)
                             \/ \E p \in Readers : ReaderOwns(p, r)
                             \/ r \in Range(outstanding)}

\* every request is in at most one hand, and in none once it was reported
Ownership ==
    /\ IsInjective(requestQueue)
    /\ outstanding # << >> => pc \in {"clear", "drain"}
    /\ \A r \in Range(requestQueue) : ~Fresh(r) /\ r \notin Claimed /\ outcome[r] = "none"
    /\ \A r \in Claimed : ~Fresh(r) /\ outcome[r] = "none"
    /\ \A r \in Range(outstanding), p \in Readers : ~ReaderOwns(p, r)
    /\ \A r \in Requests, p \in Readers : ReaderOwns(p, r) => ~PumpOwns(r)
    /\ \A r \in Requests, p, q \in Readers : ReaderOwns(p, r) /\ ReaderOwns(q, r) => p = q
    /\ \A r \in Requests : Fresh(r) => outcome[r] = "none" /\ sent[r] = 0
    /\ SingleOutcome

\* a window of one on the wire
Window ==
    /\ OneInFlight
    /\ NeverRewritten
    /\ pc \in {"clear", "drain"} => \A r \in Range(requestQueue) : sent[r] = 0

\* Session, Ownership and Window are preserved together by every step: a request
\* moves from its sender to the queue (239-253), from there to the one goroutine
\* whose PopIf or DrainAll took it (291-298, 484-490), and is reported from there.
IndInv == TypeOK /\ Session /\ Ownership /\ Window

\* a dispatcher that is started once: IsRunning keeps senders out before that
OneSession ==
    /\ starts <= 1
    /\ starter # "idle" => starts = 1
    /\ starts = 0 \/ starter # "idle" =>
           pc = "off" /\ \A r \in Requests : snd[r] \in {"idle", "failed"}

\* the stop arm has drained the queue, or there is no pump
Ended == pc \in {"clear", "drain", "exit", "off"}

\* What comes into the queue after the drain has a sender that will find out or has
\* (246-251), and every other request that is accepted, or about to be, is in hand.
Reported ==
    /\ Ended => \A r \in Range(requestQueue) : snd[r] \in {"rlock", "failed"}
    /\ \A r \in Requests :
           /\ outcome[r] = "none"
           /\ snd[r] \in {"send", "accepted"} \/ (snd[r] = "rlock" /\ running)
           => InHand(r)

-----------------------------------------------------------------------------
(* Refinement *)

Lifecycle == INSTANCE RequestLifecycle WITH
    line        <- requestQueue,
    transmitted <- {r \in Requests : sent[r] > 0},
    claimed     <- Claimed,
    settled     <- {r \in Requests : outcome[r] # "none"}

\* The dispatcher with all its goroutines, tokens and timers does what
\* RequestLifecycle promises: FIFO order, a window of one (dispatchNextRequest,
\* 387-430), a single claim (CompleteRequest, 484-505) and a single report.
LifecycleSpec == Lifecycle!LSpec

-----------------------------------------------------------------------------
(* Liveness, under FairSpec *)

\* Stop blocks until the pump has gone (209-229) and the pump never needs d.mutex
\* in its loop (259-268): every Stop returns, also against blocked senders.
StopReturns == \A s \in Stoppers : stop[s] # "idle" ~> stop[s] = "idle"

\* The send under the read lock (246-251) is always drained: every SendRequest
\* returns, also when paused or stopping.
SendReturns == \A r \in Requests : snd[r] # "idle" ~> snd[r] \in {"accepted", "failed"}

\* No wake-up is lost between the coalesced readiness token, Pause/Resume and the
\* timer: unless the connection stays down, every accepted request is reported.
EveryRequestSettles ==
    <>[](~paused) =>
        \A r \in Requests : snd[r] = "accepted" ~> outcome[r] # "none"
=============================================================================

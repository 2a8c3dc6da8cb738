-------------------------- MODULE ServerDispatcher --------------------------
(***************************************************************************)
(* DefaultServerDispatcher (ocppj/dispatcher.go) together with the entry   *)
(* points of ocppj.Server (ocppj/server.go) that drive it.                 *)
(*                                                                         *)
(* Goroutines, each with a program counter:                                *)
(*   pc        messagePump, one per Start, serving every client            *)
(*   snd[r]    the caller of SendRequestCtx for request r                  *)
(*   rd[p]     a websocket read goroutine inside ocppMessageHandler        *)
(*   watch[r]  waitForTimeout, one per dispatched request                  *)
(*   conn[c]   the calls of onClientConnected for client c still to come    *)
(*   disc[c]   the websocket goroutine in onClientDisconnected             *)
(*   starter, stop[s]   the callers of Start and Stop                      *)
(* A FIFOClientQueue is an object: goroutines keep references to a queue   *)
(* that the map no longer holds.  queues is that heap, a reference is a    *)
(* number, 0 the missing one.                                              *)
(***************************************************************************)
EXTENDS RequestQueue, FiniteSets, Functions

CONSTANTS Clients, Requests,
          ClientOf,        \* the client each request is for
          Cancelable,      \* requests whose context may be canceled or expire
          Readers, Stoppers,
          Capacity,        \* capacity of a client's queue, 0 for unlimited
          HasTimeout,      \* d.timeout > 0
          SlowPump,        \* whether the pump may keep a disconnect waiting for 2s
          LateConnect,     \* whether a connection may be lost before onClientConnected runs
          ChannelCap,      \* capacity of requestChannel
          TokenCap,        \* capacity of timerC and of cancelC
          MaxStarts,       \* bound on the calls of Start
          MaxConns         \* bound on the connections of each client

ASSUME ServerAssumption ==
    /\ None \notin Requests /\ "inactive" \notin Requests
    /\ ClientOf \in [Requests -> Clients]
    /\ Cancelable \subseteq Requests
    /\ Capacity \in Nat /\ ChannelCap \in Nat \ {0} /\ TokenCap \in Nat \ {0}
    /\ HasTimeout \in BOOLEAN /\ SlowPump \in BOOLEAN /\ LateConnect \in BOOLEAN
    /\ MaxStarts \in Nat /\ MaxConns \in Nat

VARIABLES
    queues,            \* every queue ever created
    queueMap,          \* queueMap[c]: the queue of client c, or 0
    removed,           \* the queues that a disconnection took out of the map
    pending,           \* pendingRequestState: the pending request of each client
    requestChannel,    \* FIFO of [client, deleteAck]; deleteAck is 0 for nil
    running, stopped,  \* stopped: stoppedC of this session is closed
    readyForDispatch,  \* FIFO, one slot, of request IDs
    timerC, cancelC,   \* FIFOs of request IDs
    ctxDone,           \* requests whose context has fired
    watch,
    pc, clientID, rdy, clientQueue,   \* messagePump and its loop-persistent locals
    ctx,               \* clientContextMap[c]: None, "inactive" or the request it watches
    dispatched,        \* dispatchedRequestIDMap[c]
    cur,               \* dispatchNextRequest: the request being written
    detached,          \* the stop arm: the queues DrainAll detached
    snd, ref,          \* senders, and the queue each one has looked up
    rd, conn, disc, starter, stop,
    link,              \* the websocket server has a connection of this client
    conns, starts,     \* how often a client connected, Start was called
    sent,              \* how often each request was handed to the network
    outcome            \* what the application was told about each request

queueVars == <<queues, queueMap, removed>>
chanVars  == <<requestChannel, running, stopped>>
tokenVars == <<timerC, cancelC, watch>>
pumpVars  == <<pc, clientID, rdy, clientQueue, ctx, dispatched, cur, detached>>
linkVars  == <<conn, disc, link, conns>>
ctlVars   == <<starter, stop, starts>>

vars == <<queues, queueMap, removed, pending, requestChannel, running, stopped,
          readyForDispatch, timerC, cancelC, ctxDone, watch, pc, clientID, rdy,
          clientQueue, ctx, dispatched, cur, detached, snd, ref, rd, conn, disc,
          starter, stop, link, conns, starts, sent, outcome>>

-----------------------------------------------------------------------------
(* Types *)

QueueRef == 0 .. Len(queues)

Token == [client : Clients, deleteAck : Nat]

Outcomes == {"none", "response", "timeout", "ctx", "write", "stopped", "twice"}

\* Every variable has its type; the pump writes only a request it has in hand
\* (dispatchNextRequest 1122-1131), and a channel never exceeds its capacity.
TypeOK ==
    /\ queues \in Seq(Seq(Requests))
    /\ queueMap \in [Clients -> QueueRef]
    /\ removed \subseteq QueueRef
    /\ pending \in [Clients -> Requests \cup {None}]
    /\ requestChannel \in Seq(Token) /\ Len(requestChannel) <= ChannelCap
    /\ running \in BOOLEAN /\ stopped \in BOOLEAN
    /\ readyForDispatch \in Seq(Requests) /\ Len(readyForDispatch) <= 1
    /\ timerC \in Seq(Requests) /\ Len(timerC) <= TokenCap
    /\ cancelC \in Seq(Requests) /\ Len(cancelC) <= TokenCap
    /\ ctxDone \subseteq Cancelable
    /\ watch \in [Requests -> {"none", "watch", "expired", "reaped", "done"}]
    /\ pc \in {"off", "select", "guard", "loop", "write", "arm", "clear", "drain"}
    /\ clientID \in Clients \cup {None}
    /\ rdy \in BOOLEAN
    /\ clientQueue \in QueueRef
    /\ ctx \in [Clients -> Requests \cup {None, "inactive"}]
    /\ dispatched \in [Clients -> Requests \cup {None}]
    /\ cur \in Requests \cup {None}
    /\ pc \in {"write", "arm"} => cur # None /\ clientID = ClientOf[cur]
    /\ detached \subseteq QueueRef
    /\ snd \in [Requests -> {"idle", "get", "push", "rlock", "send", "accepted", "failed"}]
    /\ ref \in [Requests -> QueueRef]
    /\ rd \in [Readers -> [pc : {"idle", "pop", "delete", "signal"},
                           id : Requests \cup {None}, q : QueueRef]]
    /\ conn \in [Clients -> 0 .. MaxConns]
    /\ disc \in [Clients -> {"idle", "remove", "rlock", "send", "ack", "clear"}]
    /\ starter \in {"idle", "lock"}
    /\ stop \in [Stoppers -> {"idle", "lock", "wait"}]
    /\ link \in [Clients -> BOOLEAN]
    /\ conns \in [Clients -> 0 .. MaxConns]
    /\ starts \in 0 .. MaxStarts
    /\ sent \in [Requests -> Nat]
    /\ outcome \in [Requests -> Outcomes]

Init ==
    /\ queues = << >> /\ queueMap = [c \in Clients |-> 0] /\ removed = {}
    /\ pending = [c \in Clients |-> None]
    /\ requestChannel = << >> /\ running = FALSE /\ stopped = FALSE
    /\ readyForDispatch = << >> /\ timerC = << >> /\ cancelC = << >>
    /\ ctxDone = {} /\ watch = [r \in Requests |-> "none"]
    /\ pc = "off" /\ clientID = None /\ rdy = FALSE /\ clientQueue = 0
    /\ ctx = [c \in Clients |-> None] /\ dispatched = [c \in Clients |-> None]
    /\ cur = None /\ detached = {}
    /\ snd = [r \in Requests |-> "idle"] /\ ref = [r \in Requests |-> 0]
    /\ rd = [p \in Readers |-> [pc |-> "idle", id |-> None, q |-> 0]]
    /\ conn = [c \in Clients |-> 0] /\ disc = [c \in Clients |-> "idle"]
    /\ starter = "idle" /\ stop = [s \in Stoppers |-> "idle"] /\ starts = 0
    /\ link = [c \in Clients |-> FALSE] /\ conns = [c \in Clients |-> 0]
    /\ sent = [r \in Requests |-> 0]
    /\ outcome = [r \in Requests |-> "none"]

-----------------------------------------------------------------------------
(* d.mutex, a sync.RWMutex: SendRequest and DeleteClientAndWait hold the   *)
(* read lock across the send on requestChannel; a writer that waits blocks *)
(* new readers.                                                            *)

CanRLock == starter # "lock" /\ \A s \in Stoppers : stop[s] # "lock"

CanLock == /\ \A r \in Requests : snd[r] # "send"
           /\ \A c \in Clients : disc[c] # "send"

HasRoom == Len(requestChannel) < ChannelCap

Post(c, ack) == requestChannel' = Append(requestChannel, [client |-> c, deleteAck |-> ack])

Queue(q) == IF q = 0 THEN << >> ELSE queues[q]

Notify(r, k) ==
    outcome' = [outcome EXCEPT ![r] = IF @ = "none" THEN k ELSE "twice"]

-----------------------------------------------------------------------------
(* ocppj.Server.SendRequestCtx and DefaultServerDispatcher.SendRequest     *)

sendUnchanged == <<queueMap, removed, pending, running, stopped, readyForDispatch,
                   tokenVars, ctxDone, pumpVars, rd, linkVars, ctlVars, sent, outcome>>

\* s.dispatcher.IsRunning()
SendIsRunning(r) ==
    /\ snd[r] = "idle"
    /\ CanRLock
    /\ snd' = [snd EXCEPT ![r] = IF running THEN "get" ELSE "failed"]
    /\ UNCHANGED <<queues, ref, requestChannel, sendUnchanged>>

\* d.queueMap.Get(clientID)
SendGet(r) ==
    /\ snd[r] = "get"
    /\ ref' = [ref EXCEPT ![r] = queueMap[ClientOf[r]]]
    /\ snd' = [snd EXCEPT ![r] = IF ref'[r] = 0 THEN "failed" ELSE "push"]
    /\ UNCHANGED <<queues, requestChannel, sendUnchanged>>

\* q.Push(req), on a queue the map may no longer hold
SendPush(r) ==
    /\ snd[r] = "push"
    /\ ref' = [ref EXCEPT ![r] = 0]
    /\ IF IsFull(queues[ref[r]], Capacity)
       THEN snd' = [snd EXCEPT ![r] = "failed"] /\ UNCHANGED queues
       ELSE /\ queues' = [queues EXCEPT ![ref[r]] = Push(@, r)]
            /\ snd' = [snd EXCEPT ![r] = "rlock"]
    /\ UNCHANGED <<requestChannel, sendUnchanged>>

SendRLock(r) ==
    /\ snd[r] = "rlock"
    /\ CanRLock
    /\ snd' = [snd EXCEPT ![r] = IF running THEN "send" ELSE "failed"]
    /\ UNCHANGED <<queues, ref, requestChannel, sendUnchanged>>

\* d.requestChannel <- serverDispatchRequest{clientID}, with the read lock held
SendPost(r) ==
    /\ snd[r] = "send"
    /\ HasRoom
    /\ Post(ClientOf[r], 0)
    /\ snd' = [snd EXCEPT ![r] = "accepted"]
    /\ UNCHANGED <<queues, ref, sendUnchanged>>

SendStep(r) == SendGet(r) \/ SendPush(r) \/ SendRLock(r) \/ SendPost(r)

-----------------------------------------------------------------------------
(* ocppj.Server.ocppMessageHandler on a CALL_RESULT or CALL_ERROR          *)

readUnchanged == <<queueMap, removed, chanVars, tokenVars, ctxDone, pumpVars, snd,
                   ref, linkVars, ctlVars, sent>>

\* The ws server passes on messages of registered connections only, ParseMessage
\* accepts only a reply to the pending request, and CompleteRequest looks up the
\* queue.  A reply that fails one of these changes nothing.
ReadReply(p, c) ==
    /\ rd[p].pc = "idle"
    /\ link[c]
    /\ HasPendingRequest(pending[c]) /\ sent[pending[c]] > 0
    /\ queueMap[c] # 0
    /\ rd' = [rd EXCEPT ![p] = [pc |-> "pop", id |-> pending[c], q |-> queueMap[c]]]
    /\ UNCHANGED <<queues, pending, readyForDispatch, outcome, readUnchanged>>

\* PopIf decides who owns the completion
ReadPop(p) ==
    /\ rd[p].pc = "pop"
    /\ queues' = [queues EXCEPT ![rd[p].q] = PopIf(@, rd[p].id)]
    /\ rd' = [rd EXCEPT ![p] = IF FrontIs(queues[@.q], @.id)
                               THEN [pc |-> "delete", id |-> @.id, q |-> 0]
                               ELSE [pc |-> "idle", id |-> None, q |-> 0]]
    /\ UNCHANGED <<pending, readyForDispatch, outcome, readUnchanged>>

ReadDelete(p) ==
    /\ rd[p].pc = "delete"
    /\ pending' = [pending EXCEPT ![ClientOf[rd[p].id]] = DeletePendingRequest(@, rd[p].id)]
    /\ rd' = [rd EXCEPT ![p].pc = "signal"]
    /\ UNCHANGED <<queues, readyForDispatch, outcome, readUnchanged>>

\* the blocking send of the readiness token, then responseHandler or errorHandler
ReadSignal(p) ==
    /\ rd[p].pc = "signal"
    /\ readyForDispatch = << >>
    /\ readyForDispatch' = <<rd[p].id>>
    /\ Notify(rd[p].id, "response")
    /\ rd' = [rd EXCEPT ![p] = [pc |-> "idle", id |-> None, q |-> 0]]
    /\ UNCHANGED <<queues, pending, readUnchanged>>

ReadStep(p) == ReadPop(p) \/ ReadDelete(p) \/ ReadSignal(p)

-----------------------------------------------------------------------------
(* waitForTimeout and the contexts it watches.  A watcher is pinned to the *)
(* channels of its session: once the pump has gone nobody reads them, and  *)
(* PumpDrain retires every watcher.                                        *)

watchUnchanged == <<queueVars, pending, chanVars, readyForDispatch, pumpVars, snd,
                    ref, rd, linkVars, ctlVars, sent, outcome>>

\* the caller's context is canceled or expires
CtxFire(r) ==
    /\ r \in Cancelable \ ctxDone
    /\ snd[r] # "idle"
    /\ ctxDone' = ctxDone \cup {r}
    /\ UNCHANGED <<tokenVars, watchUnchanged>>

\* the deadline of clientCtx passes before anybody cancels it
DeadlineFire(r) ==
    /\ HasTimeout
    /\ watch[r] = "watch"
    /\ watch' = [watch EXCEPT ![r] = "expired"]
    /\ UNCHANGED <<timerC, cancelC, ctxDone, watchUnchanged>>

PostTimeout(r) ==
    /\ watch[r] = "expired"
    /\ Len(timerC) < TokenCap
    /\ timerC' = Append(timerC, r)
    /\ watch' = [watch EXCEPT ![r] = "done"]
    /\ UNCHANGED <<cancelC, ctxDone, watchUnchanged>>

\* also by a watcher whose clientCtx was canceled at the same time
PostCancel(r) ==
    /\ watch[r] \in {"watch", "expired", "reaped"}
    /\ r \in ctxDone
    /\ Len(cancelC) < TokenCap
    /\ cancelC' = Append(cancelC, r)
    /\ watch' = [watch EXCEPT ![r] = "done"]
    /\ UNCHANGED <<timerC, ctxDone, watchUnchanged>>

WatchStep(r) == DeadlineFire(r) \/ PostTimeout(r) \/ PostCancel(r)

\* clientCtx.cancel() of the context that clientContextMap holds for c
CancelCtx(c) ==
    watch' = IF ctx[c] \in Requests /\ watch[ctx[c]] = "watch"
             THEN [watch EXCEPT ![ctx[c]] = "reaped"] ELSE watch

-----------------------------------------------------------------------------
(* messagePump *)

pumpUnchanged == <<running, stopped, ctxDone, snd, ref, rd, conn, link, conns, ctlVars>>

\* the arms of the select that neither write nor drain
armUnchanged == <<cur, detached, removed, queueMap, sent, pumpUnchanged>>

\* completeRequestOwned called by the pump: does it win r?
Owned(c, r) == FrontIs(Queue(queueMap[c]), r)

\* ... and what it does when it wins, with the cancel callback that follows
Complete(c, r, k) ==
    /\ queues' = [queues EXCEPT ![queueMap[c]] = Tail(@)]
    /\ pending' = [pending EXCEPT ![c] = DeletePendingRequest(@, r)]
    /\ Notify(r, k)

\* DeleteClientAndWait returns if this is the ack it waits for
CloseAck(c, ack) ==
    disc' = IF disc[c] = "ack" /\ ack = conns[c]
            THEN [disc EXCEPT ![c] = "clear"] ELSE disc

\* case req = <-reqCh: the client is gone, or is being deleted, or wants to send
PumpRequest ==
    /\ pc = "select"
    /\ requestChannel # << >>
    /\ LET c   == Head(requestChannel).client
           ack == Head(requestChannel).deleteAck
           forget == queueMap[c] = 0 \/ ack # 0
       IN /\ clientID' = c
          /\ clientQueue' = queueMap[c]
          /\ IF forget THEN CancelCtx(c) ELSE UNCHANGED watch
          /\ ctx' = [ctx EXCEPT ![c] = IF forget THEN None ELSE @]
          /\ dispatched' = [dispatched EXCEPT ![c] = IF forget THEN None ELSE @]
          /\ CloseAck(c, ack)
          /\ IF queueMap[c] = 0
             THEN pc' = "select" /\ UNCHANGED rdy
             ELSE pc' = "guard" /\ rdy' = (ctx'[c] \notin Requests)
    /\ requestChannel' = Tail(requestChannel)
    /\ UNCHANGED <<queues, pending, readyForDispatch, timerC, cancelC, outcome, armUnchanged>>

CtxIsCurrent(c, r) == ctx[c] = r

\* case timeoutTok = <-d.timerC, of a context that clientContextMap no longer holds
PumpTimeoutStale ==
    /\ pc = "select"
    /\ timerC # << >>
    /\ ~CtxIsCurrent(ClientOf[Head(timerC)], Head(timerC))
    /\ clientID' = ClientOf[Head(timerC)]
    /\ timerC' = Tail(timerC)
    /\ UNCHANGED <<pc, rdy, clientQueue, ctx, dispatched, queues, pending, requestChannel,
                   readyForDispatch, cancelC, watch, disc, outcome, armUnchanged>>

\* case timeoutTok = <-d.timerC
PumpTimeout ==
    /\ pc = "select"
    /\ timerC # << >>
    /\ LET c == ClientOf[Head(timerC)]
           timedOut == dispatched[c]
       IN /\ CtxIsCurrent(c, Head(timerC))
          /\ clientID' = c
          /\ ctx' = [ctx EXCEPT ![c] = "inactive"]
          /\ dispatched' = [dispatched EXCEPT ![c] = None]
          /\ \/ /\ HasPendingRequest(pending[c])
                /\ timedOut # None /\ Owned(c, timedOut)
                /\ Complete(c, timedOut, "timeout")
                /\ clientQueue' = queueMap[c] /\ rdy' = TRUE
                /\ pc' = "guard"
             \/ /\ HasPendingRequest(pending[c])
                /\ timedOut = None \/ ~Owned(c, timedOut)
                /\ pc' = "select"
                /\ UNCHANGED <<rdy, clientQueue, queues, pending, outcome>>
             \/ /\ ~HasPendingRequest(pending[c])
                /\ IF queueMap[c] # 0
                   THEN clientQueue' = queueMap[c] /\ rdy' = TRUE
                   ELSE UNCHANGED <<clientQueue, rdy>>
                /\ pc' = "guard"
                /\ UNCHANGED <<queues, pending, outcome>>
    /\ timerC' = Tail(timerC)
    /\ UNCHANGED <<requestChannel, readyForDispatch, cancelC, watch, disc, armUnchanged>>

NeverStale(c, r) == FALSE

\* the token is about an earlier request than the one in flight
StaleReady(c, r) == dispatched[c] \notin {None, r}

ReadyAsBefore(c) == rdy

\* client can now transmit again
ReadyAgain(c) == rdy \/ queueMap[c] # 0

\* case readyTok = <-d.readyForDispatch
PumpReady ==
    /\ pc = "select"
    /\ readyForDispatch # << >>
    /\ LET r == Head(readyForDispatch)
           c == ClientOf[r]
       IN /\ clientID' = c
          /\ IF StaleReady(c, r)
             THEN pc' = "select" /\ UNCHANGED <<rdy, clientQueue, ctx, dispatched, watch>>
             ELSE /\ CancelCtx(c)
                  /\ ctx' = [ctx EXCEPT ![c] = IF @ \in Requests THEN "inactive" ELSE @]
                  /\ dispatched' = [dispatched EXCEPT ![c] = None]
                  /\ clientQueue' = queueMap[c]
                  /\ rdy' = ReadyAgain(c)
                  /\ pc' = "guard"
    /\ readyForDispatch' = << >>
    /\ UNCHANGED <<queues, pending, requestChannel, timerC, cancelC, disc, outcome, armUnchanged>>

\* case cancelTok := <-d.cancelC
PumpCtxCancel ==
    /\ pc = "select"
    /\ cancelC # << >>
    /\ LET r == Head(cancelC)
           c == ClientOf[r]
       IN /\ clientID' = c
          /\ IF dispatched[c] = r /\ Owned(c, r)
             THEN /\ Complete(c, r, "ctx")
                  /\ CancelCtx(c)
                  /\ ctx' = [ctx EXCEPT ![c] = "inactive"]
                  /\ dispatched' = [dispatched EXCEPT ![c] = None]
                  /\ clientQueue' = queueMap[c] /\ rdy' = TRUE
                  /\ pc' = "guard"
             ELSE /\ rdy' = FALSE /\ clientQueue' = 0
                  /\ pc' = "select"
                  /\ UNCHANGED <<ctx, dispatched, watch, queues, pending, outcome>>
    /\ cancelC' = Tail(cancelC)
    /\ UNCHANGED <<requestChannel, readyForDispatch, timerC, disc, armUnchanged>>

CanDispatchQueued == rdy /\ ~IsEmpty(Queue(clientQueue))

\* the guard of the dispatch loop
CanDispatch == /\ rdy /\ ~IsEmpty(Queue(clientQueue))
               /\ ~HasPendingRequest(pending[clientID])

CapturedQueue == Queue(clientQueue)

\* dispatchNextRequest looks the queue up again
NextQueue == Queue(queueMap[clientID])

\* bundle.Call == nil
NoBundle(r) == r = None

\* dispatchNextRequest up to the write: nothing to do, the front's context has fired,
\* or the front becomes the pending request
DispatchNextRequest ==
    LET c == clientID
        r == Peek(NextQueue)
    IN /\ ctx' = [ctx EXCEPT ![c] = "inactive"]
       /\ dispatched' = [dispatched EXCEPT ![c] = None]
       /\ rdy' = FALSE
       /\ \/ NoBundle(r) /\ pc' = "select" /\ UNCHANGED <<cur, queues, pending, outcome>>
          \/ /\ ~NoBundle(r) /\ r \in ctxDone
             /\ Complete(c, r, "ctx")
             /\ pc' = "loop"
             /\ UNCHANGED cur
          \/ /\ ~NoBundle(r) /\ r \notin ctxDone
             /\ pending' = [pending EXCEPT ![c] = AddPendingRequest(@, r)]
             /\ cur' = r
             /\ pc' = "write"
             /\ UNCHANGED <<queues, outcome>>

dispatchUnchanged == <<clientID, clientQueue, detached, removed, queueMap, requestChannel,
                       readyForDispatch, tokenVars, disc, sent, pumpUnchanged>>

PumpGuardRLock ==
    /\ pc = "guard"
    /\ CanRLock
    /\ IF CanDispatch THEN DispatchNextRequest
       ELSE pc' = "select" /\ UNCHANGED <<ctx, dispatched, rdy, cur, queues, pending, outcome>>
    /\ UNCHANGED dispatchUnchanged

\* the guard, evaluated without d.mutex
PumpGuard ==
    /\ pc = "guard"
    /\ IF CanDispatch THEN DispatchNextRequest
       ELSE pc' = "select" /\ UNCHANGED <<ctx, dispatched, rdy, cur, queues, pending, outcome>>
    /\ UNCHANGED dispatchUnchanged

\* status = dispatchCompletedNoWrite: the loop goes on with the next request
PumpLoop ==
    /\ pc = "loop"
    /\ DispatchNextRequest
    /\ UNCHANGED dispatchUnchanged

\* d.network.Write: only to a registered connection, and it may fail
PumpWrite ==
    /\ pc = "write"
    /\ \/ /\ link[clientID]
          /\ sent' = [sent EXCEPT ![cur] = @ + 1]
          /\ pc' = "arm"
          /\ UNCHANGED <<cur, queues, pending, outcome>>
       \/ /\ IF Owned(clientID, cur)
             THEN Complete(clientID, cur, "write")
             ELSE UNCHANGED <<queues, pending, outcome>>
          /\ cur' = None
          /\ pc' = "loop"
          /\ UNCHANGED sent
    /\ UNCHANGED <<clientID, rdy, clientQueue, ctx, dispatched, detached, removed, queueMap,
                   requestChannel, readyForDispatch, tokenVars, disc, pumpUnchanged>>

\* a request that was written gets its context and its watcher
PumpArm ==
    /\ pc = "arm"
    /\ dispatched' = [dispatched EXCEPT ![clientID] =
                          IF HasPendingRequest(pending[clientID]) THEN cur ELSE None]
    /\ IF HasTimeout \/ cur \in Cancelable
       THEN /\ ctx' = [ctx EXCEPT ![clientID] = cur]
            /\ watch' = [watch EXCEPT ![cur] = "watch"]
       ELSE UNCHANGED <<ctx, watch>>
    /\ cur' = None
    /\ pc' = "select"
    /\ UNCHANGED <<clientID, rdy, clientQueue, detached, queueVars, pending, requestChannel,
                   readyForDispatch, timerC, cancelC, disc, sent, outcome, pumpUnchanged>>

InMap == {queueMap[c] : c \in Clients} \ {0}

\* case <-d.stoppedC: detach every queue in one step
PumpStopped ==
    /\ pc = "select"
    /\ stopped
    /\ detached' = InMap
    /\ queueMap' = [c \in Clients |-> 0]
    /\ pc' = "clear"
    /\ UNCHANGED <<clientID, rdy, clientQueue, ctx, dispatched, cur, queues, removed, pending,
                   requestChannel, readyForDispatch, tokenVars, disc, sent, outcome,
                   pumpUnchanged>>

PumpClearAll ==
    /\ pc = "clear"
    /\ pending' = [c \in Clients |-> None]
    /\ pc' = "drain"
    /\ UNCHANGED <<clientID, rdy, clientQueue, ctx, dispatched, cur, detached, queueVars,
                   requestChannel, readyForDispatch, tokenVars, disc, sent, outcome,
                   pumpUnchanged>>

KeepDone == UNCHANGED disc

\* close(d.doneC) releases every DeleteClientAndWait that waits for its ack
CloseDone == disc' = [c \in Clients |-> IF disc[c] = "ack" THEN "clear" ELSE disc[c]]

KeepQueued == {}

\* what the drain of the detached queues finds
Outstanding == UNION {Range(queues[q]) : q \in detached}

\* drain each queue, fire one cancel per request, leave: the locals and the watchers
\* of this session are gone
PumpDrain ==
    /\ pc = "drain"
    /\ outcome' = [r \in Requests |->
                       IF r \notin Outstanding THEN outcome[r]
                       ELSE IF outcome[r] = "none" THEN "stopped" ELSE "twice"]
    /\ queues' = [q \in DOMAIN queues |-> IF q \in detached THEN << >> ELSE queues[q]]
    /\ detached' = {} /\ clientID' = None /\ rdy' = FALSE /\ clientQueue' = 0
    /\ ctx' = [c \in Clients |-> None] /\ dispatched' = [c \in Clients |-> None]
    /\ watch' = [r \in Requests |-> IF watch[r] = "none" THEN "none" ELSE "done"]
    /\ timerC' = << >> /\ cancelC' = << >>
    /\ CloseDone
    /\ pc' = "off"
    /\ UNCHANGED <<cur, queueMap, removed, pending, requestChannel, readyForDispatch, sent,
                   pumpUnchanged>>

Pump ==
    \/ PumpRequest \/ PumpTimeoutStale \/ PumpTimeout \/ PumpReady \/ PumpCtxCancel
    \/ PumpGuard \/ PumpLoop \/ PumpWrite \/ PumpArm
    \/ PumpStopped \/ PumpClearAll \/ PumpDrain

-----------------------------------------------------------------------------
(* onClientConnected and onClientDisconnected.  The ws server's gate keeps *)
(* a client from registering while a disconnect handler of it runs.        *)

linkUnchanged == <<running, stopped, readyForDispatch, tokenVars, ctxDone, pumpVars, snd,
                   ref, rd, ctlVars, sent, outcome>>

\* The ws server, which runs from the first Start on, registers a connection and starts
\* its pumps; onClientConnected is called afterwards, when it may already be lost.
Register(c) ==
    /\ starts > 0 /\ starter = "idle"
    /\ ~link[c] /\ disc[c] = "idle" /\ conns[c] < MaxConns
    /\ link' = [link EXCEPT ![c] = TRUE]
    /\ conn' = [conn EXCEPT ![c] = @ + 1]
    /\ conns' = [conns EXCEPT ![c] = @ + 1]
    /\ UNCHANGED <<disc, queueVars, pending, requestChannel, linkUnchanged>>

\* d.queueMap.GetOrCreate(clientID)
GetOrCreate(c) ==
    IF queueMap[c] # 0 THEN UNCHANGED <<queues, queueMap>>
    ELSE /\ queues' = Append(queues, << >>)
         /\ queueMap' = [queueMap EXCEPT ![c] = Len(queues) + 1]

CreateClientUnchecked(c) == CanRLock /\ GetOrCreate(c)

\* check and creation under one read lock
CreateClient(c) ==
    /\ CanRLock
    /\ IF running THEN GetOrCreate(c) ELSE UNCHANGED <<queues, queueMap>>

OnClientConnected(c) ==
    /\ conn[c] > 0
    /\ CreateClient(c)
    /\ conn' = [conn EXCEPT ![c] = @ - 1]
    /\ UNCHANGED <<disc, link, conns, removed, pending, requestChannel, linkUnchanged>>

\* the connection is lost: it is unregistered, onClientDisconnected is called
Unregister(c) ==
    /\ link[c]
    /\ LateConnect \/ conn[c] = 0
    /\ link' = [link EXCEPT ![c] = FALSE]
    /\ disc' = [disc EXCEPT ![c] = "remove"]
    /\ UNCHANGED <<conn, conns, queueVars, pending, requestChannel, linkUnchanged>>

\* DeleteClientAndWait: d.queueMap.Remove(clientID)
DeleteRemove(c) ==
    /\ disc[c] = "remove"
    /\ queueMap' = [queueMap EXCEPT ![c] = 0]
    /\ removed' = removed \cup ({queueMap[c]} \ {0})
    /\ disc' = [disc EXCEPT ![c] = "rlock"]
    /\ UNCHANGED <<conn, link, conns, queues, pending, requestChannel, linkUnchanged>>

DeleteRLock(c) ==
    /\ disc[c] = "rlock"
    /\ CanRLock
    /\ disc' = [disc EXCEPT ![c] = IF running THEN "send" ELSE "clear"]
    /\ UNCHANGED <<conn, link, conns, queueVars, pending, requestChannel, linkUnchanged>>

DeletePost(c) ==
    /\ disc[c] = "send"
    /\ HasRoom
    /\ Post(c, conns[c])
    /\ disc' = [disc EXCEPT ![c] = "ack"]
    /\ UNCHANGED <<conn, link, conns, queueVars, pending, linkUnchanged>>

\* time.After(2 * time.Second)
DeleteTimeout(c) ==
    /\ SlowPump
    /\ disc[c] = "ack"
    /\ disc' = [disc EXCEPT ![c] = "clear"]
    /\ UNCHANGED <<conn, link, conns, queueVars, pending, requestChannel, linkUnchanged>>

\* s.RequestState.ClearClientPendingRequest(ws.ID())
ClearClientPendingRequest(c) ==
    /\ disc[c] = "clear"
    /\ pending' = [pending EXCEPT ![c] = None]
    /\ disc' = [disc EXCEPT ![c] = "idle"]
    /\ UNCHANGED <<conn, link, conns, queueVars, requestChannel, linkUnchanged>>

DeleteClient(c) ==
    \/ DeleteRemove(c) \/ DeleteRLock(c) \/ DeletePost(c)
    \/ DeleteTimeout(c) \/ ClearClientPendingRequest(c)

-----------------------------------------------------------------------------
(* DefaultServerDispatcher.Start and Stop *)

ctlUnchanged == <<queueVars, pending, readyForDispatch, tokenVars, ctxDone, snd, ref, rd,
                  linkVars, sent, outcome>>

CallStart ==
    /\ starter = "idle" /\ ~running /\ starts < MaxStarts
    /\ \A s \in Stoppers : stop[s] = "idle"
    /\ starter' = "lock"
    /\ starts' = starts + 1
    /\ UNCHANGED <<chanVars, pumpVars, stop, ctlUnchanged>>

Start ==
    /\ starter = "lock"
    /\ CanLock
    /\ running' = TRUE /\ stopped' = FALSE
    /\ requestChannel' = << >>
    /\ pc' = "select"
    /\ starter' = "idle"
    /\ UNCHANGED <<clientID, rdy, clientQueue, ctx, dispatched, cur, detached, stop, starts,
                   ctlUnchanged>>

CallStop(s) ==
    /\ stop[s] = "idle" /\ starter = "idle" /\ running
    /\ stop' = [stop EXCEPT ![s] = "lock"]
    /\ UNCHANGED <<chanVars, pumpVars, starter, starts, ctlUnchanged>>

StopClose(s) ==
    /\ stop[s] = "lock"
    /\ CanLock
    /\ IF running
       THEN running' = FALSE /\ stopped' = TRUE /\ stop' = [stop EXCEPT ![s] = "wait"]
       ELSE stop' = [stop EXCEPT ![s] = "idle"] /\ UNCHANGED <<running, stopped>>
    /\ UNCHANGED <<requestChannel, pumpVars, starter, starts, ctlUnchanged>>

\* <-done
StopJoin(s) ==
    /\ stop[s] = "wait"
    /\ pc = "off"
    /\ stop' = [stop EXCEPT ![s] = "idle"]
    /\ UNCHANGED <<chanVars, pumpVars, starter, starts, ctlUnchanged>>

Stop(s) == StopClose(s) \/ StopJoin(s)

\* These requests were sent and these clients came and went n times; nothing is left to do.
Settled(requests, clients, n) ==
    /\ starts = MaxStarts /\ starter = "idle"
    /\ \A s \in Stoppers : stop[s] = "idle"
    /\ \A r \in requests : snd[r] \in {"accepted", "failed"}
    /\ \A c \in clients : conns[c] = n /\ ~link[c] /\ conn[c] = 0 /\ disc[c] = "idle"
    /\ \A p \in Readers : rd[p].pc \in {"idle", "signal"}
    /\ pc \in {"off", "select"}

\* what may still come is up to the peers and the application
Finished == Settled(Requests, Clients, MaxConns) /\ UNCHANGED vars

\* one step, with these of the requests, clients and callers of Stop taking part
Step(requests, clients, stoppers) ==
    \/ \E r \in requests : \/ CtxFire(r) \/ SendIsRunning(r) \/ SendStep(r) \/ WatchStep(r)
    \/ \E p \in Readers : ReadStep(p) \/ \E c \in clients : ReadReply(p, c)
    \/ Pump
    \/ \E c \in clients : \/ Register(c) \/ OnClientConnected(c)
                          \/ Unregister(c) \/ DeleteClient(c)
    \/ CallStart \/ Start
    \/ \E s \in stoppers : CallStop(s) \/ Stop(s)

Next == Step(Requests, Clients, Stoppers) \/ Finished

Spec == Init /\ [][Next]_vars

\* Goroutines that can run do run and deadlines pass.  Nothing is assumed of the
\* peers, the contexts, the application's calls or the 2s of DeleteClientAndWait.
Fairness ==
    /\ WF_vars(Pump) /\ WF_vars(Start)
    /\ \A r \in Requests : /\ WF_vars(SendStep(r))
                           /\ WF_vars(DeadlineFire(r) \/ PostTimeout(r))
    /\ \A p \in Readers : WF_vars(ReadStep(p))
    /\ \A c \in Clients : /\ WF_vars(OnClientConnected(c))
                          /\ WF_vars(\/ DeleteRemove(c) \/ DeleteRLock(c) \/ DeletePost(c)
                                     \/ ClearClientPendingRequest(c))
    /\ \A s \in Stoppers : WF_vars(Stop(s))

FairSpec == Spec /\ Fairness

-----------------------------------------------------------------------------
(* Safety *)

\* the read goroutine that has won CompleteRequest and not yet run the callback
ReaderOwns(p, r) == rd[p].id = r /\ rd[p].pc \in {"delete", "signal"}

\* Completion ownership (completeRequestOwned, dispatcher.go 1258-1275, and the stop
\* drain, 872-917): a response, a timeout, a context, a failed write and Stop may race
\* for a request, and still the application is told about it at most once.
SingleOutcome == \A r \in Requests : outcome[r] # "twice"

\* "the request was written to the network and is now in-flight (pending state set, and
\* a timeout watcher spawned if active)" (650-652): while its queue is in the map, the
\* front that was sent is the client's pending request, so its reply is recognised and
\* nothing else is sent to the client.
InFlightIsPending ==
    \A c \in Clients : LET r == Peek(Queue(queueMap[c])) IN
        r # None /\ sent[r] > 0 => pending[c] = r

\* "Only dispatch request if [...] no request is currently pending for this client"
\* (1073-1079): no request is handed to the network twice, whatever tokens of earlier
\* requests, connections or sessions are left over in the pump's channels.
NeverRewritten == \A r \in Requests : sent[r] <= 1

\* "the queue is either created in time to be drained [...] or never created at all"
\* (739-756): no client queue survives the pump, so nothing that a caller was told had
\* failed is sent by the next session.
NoQueueSurvivesStop == pc = "off" => \A c \in Clients : queueMap[c] = 0

\* The requests that somebody is still going to report, or that were thrown away
\* with the queue of a disconnected client.
InHand(r) ==
    \/ \E q \in DOMAIN queues : r \in Range(queues[q]) /\ q \in InMap \cup detached \cup removed
    \/ \E p \in Readers : ReaderOwns(p, r)

\* A request for which SendRequest returned no error is reported, will be, or went
\* with its client (823-841, 872-917).  Once the pump has gone, "callbacks for requests
\* still held in the dispatcher's queues" have been "fired exactly once [...] before
\* the dispatcher stops" (server.go 143-146).
AcceptedIsReported ==
    \A r \in Requests : snd[r] = "accepted" /\ outcome[r] = "none" =>
        IF pc = "off"
        THEN \/ \E q \in removed : r \in Range(queues[q])
             \/ \E p \in Readers : ReaderOwns(p, r)
        ELSE InHand(r)

\* "If a response to the request is not received within the specified period, the
\* request is discarded" (517-519): while a request is in flight its timeout is being
\* watched, is on its way to the pump, or somebody is completing it.
InFlightIsWatched ==
    HasTimeout =>
        \A c \in Clients : LET r == Peek(Queue(queueMap[c])) IN
            r # None /\ sent[r] > 0 /\ pc \notin {"arm", "off"} /\ ~stopped =>
                /\ ctx[c] = r
                /\ watch[r] \in {"watch", "expired"} \/ r \in Range(timerC) \cup Range(cancelC)

-----------------------------------------------------------------------------
(* The inductive invariants *)

\* One pump per session: Stop waits for it, and Start for Stop.
Session ==
    /\ running => ~stopped /\ pc \notin {"off", "clear", "drain"}
    /\ pc \in {"off", "clear", "drain"} => \A c \in Clients : queueMap[c] = 0
    /\ ~running /\ pc # "off" => \E s \in Stoppers : stop[s] = "wait"
    /\ starter = "lock" => ~running /\ pc = "off" /\ \A s \in Stoppers : stop[s] = "idle"

\* What each goroutine has in hand when it uses it; a client's queue holds its own requests.
Hands ==
    /\ pc \in {"guard", "loop", "write", "arm"} => clientID \in Clients
    /\ 0 \notin detached \cup removed
    /\ \A r \in Requests : snd[r] = "push" => ref[r] # 0
    /\ \A p \in Readers : /\ rd[p].pc # "idle" => rd[p].id # None
                          /\ rd[p].pc = "pop" => rd[p].q # 0
    /\ \A c \in Clients : conn[c] <= conns[c]
    /\ \A r \in Requests, c \in Clients : ref[r] # 0 /\ ref[r] = queueMap[c] => ClientOf[r] = c
    /\ \A c \in Clients : queueMap[c] # 0 => \A r \in Range(queues[queueMap[c]]) : ClientOf[r] = c
    /\ \A c, d \in Clients : queueMap[c] # 0 /\ queueMap[c] = queueMap[d] => c = d

\* The request has not been pushed yet.
Fresh(r) == snd[r] \in {"idle", "get", "push"}

\* The request is in a queue, also in one that the map no longer holds.
Queued(r) == \E q \in DOMAIN queues : r \in Range(queues[q])

(* A request has one owner: its sender, one place in one queue, or the read *)
(* goroutine that popped it; until it is reported by the one that takes it. *)
Ownership ==
    /\ \A q \in DOMAIN queues : IsInjective(queues[q])
    /\ \A q, t \in DOMAIN queues : \A r \in Requests : r \in Range(queues[q]) /\ r \in Range(queues[t]) => q = t
    /\ \A r \in Requests : Fresh(r) \/ Queued(r) \/ (\E p \in Readers : ReaderOwns(p, r)) => outcome[r] = "none"
    /\ \A r \in Requests : Queued(r) => ~Fresh(r)
    /\ \A r \in Requests, p \in Readers : ReaderOwns(p, r) => ~Fresh(r) /\ ~Queued(r)
    /\ \A r \in Requests, p, o \in Readers : ReaderOwns(p, r) /\ ReaderOwns(o, r) => p = o
    /\ SingleOutcome

IndInv == TypeOK /\ Session /\ Hands /\ Ownership

\* A disconnection is being dealt with and the client has no queue any more.
Deleting(c) == disc[c] \in {"rlock", "send", "ack", "clear"}

\* The queue of client c, nothing of which has been sent, or all but the front of it.
Unsent(c) == queueMap[c] # 0 => \A r \in Range(queues[queueMap[c]]) : sent[r] = 0
BackUnsent(c) == queueMap[c] # 0 =>
    \A i \in DOMAIN queues[queueMap[c]] : i # 1 => sent[queues[queueMap[c]][i]] = 0

(* What the guard of the dispatch loop relies on, when a connection is not  *)
(* lost before onClientConnected has run.                                   *)

\* A client that is being deleted has no connection and no queue.
Lines ==
    \A c \in Clients : /\ conn[c] > 0 => link[c]
                       /\ link[c] => disc[c] = "idle"
                       /\ Deleting(c) => queueMap[c] = 0

\* A pending request of a client without a queue is on its way out.
Leaving ==
    \A c \in Clients : pending[c] # None /\ queueMap[c] = 0 => Deleting(c) \/ pc = "clear"

\* What was sent is the front of its queue, and pending; the pump has not lost sight of
\* the request that it is about to write.
Written ==
    /\ \A c \in Clients : BackUnsent(c)
    /\ \A r \in Requests : Fresh(r) => sent[r] = 0
    /\ \A p \in Readers : rd[p].pc = "pop" => sent[rd[p].id] > 0
    /\ pc \in {"loop", "write"} => Unsent(clientID)
    /\ pc = "loop" /\ queueMap[clientID] # 0 => pending[clientID] = None
    /\ pc = "write" => /\ sent[cur] = 0 /\ ~Fresh(cur)
                       /\ queueMap[clientID] # 0 =>
                              \/ FrontIs(queues[queueMap[clientID]], cur) /\ pending[clientID] = cur
                              \/ cur \notin Range(queues[queueMap[clientID]]) /\ pending[clientID] = None
    /\ NeverRewritten /\ InFlightIsPending

Flight == Lines /\ Leaving /\ Written

\* The front of the queue of client c is r, and it is on the wire.
InFlight(c, r) == queueMap[c] # 0 /\ FrontIs(queues[queueMap[c]], r) /\ sent[r] > 0

\* The timeout of r is running, or the pump is going to hear of its end.
WatchedFor(r) == watch[r] \in {"watch", "expired"} \/ r \in Range(timerC) \cup Range(cancelC)

(* What the timeouts rely on, when moreover DeleteClientAndWait waits for   *)
(* its ack: the pump meets a delete token of a client only while that       *)
(* client is being deleted, and once.                                       *)
Acks ==
    pc # "off" =>
        /\ \A i \in DOMAIN requestChannel :
               requestChannel[i].deleteAck # 0 =>
                   /\ disc[requestChannel[i].client] = "ack"
                   /\ requestChannel[i].deleteAck = conns[requestChannel[i].client]
        /\ \A i, j \in DOMAIN requestChannel :
               /\ requestChannel[i].deleteAck # 0 /\ requestChannel[j].deleteAck # 0
               /\ requestChannel[i].client = requestChannel[j].client
               => i = j

(* The pump's books agree with what is in flight, except for the request    *)
(* that it has just written.                                                *)
Watched ==
    /\ \A c \in Clients : ctx[c] \in Requests => ClientOf[ctx[c]] = c
    /\ \A r \in Range(readyForDispatch) : ~Queued(r) /\ ~Fresh(r)
    /\ pc = "arm" => \A r \in Requests : InFlight(clientID, r) => r = cur
    /\ HasTimeout =>
           \A c \in Clients, r \in Requests :
               InFlight(c, r) /\ (pc = "arm" => c # clientID) =>
                   dispatched[c] = r /\ ctx[c] = r /\ WatchedFor(r)

\* Nobody sends before the first session, and a drained session has nothing detached.
OneSession ==
    /\ running \/ pc # "off" \/ starter = "lock" => starts > 0
    /\ starts = 0 \/ starter = "lock" => \A r \in Requests : snd[r] \in {"idle", "failed"}
    /\ pc \notin {"clear", "drain"} => detached = {}

(* What SendRequest has accepted, or is about to, is in a queue that the    *)
(* pump still serves or drains, or that a disconnection took away; a sender *)
(* that comes too late for the drain of its only session finds it stopped.  *)
Reported ==
    /\ \A r \in Requests : /\ snd[r] = "push" /\ running => ref[r] \in InMap \cup removed
                           /\ snd[r] = "send" => running
                           /\ snd[r] = "rlock" /\ running /\ outcome[r] = "none" => InHand(r)
                           /\ snd[r] = "send" /\ outcome[r] = "none" => InHand(r)
    /\ AcceptedIsReported

-----------------------------------------------------------------------------
(* Liveness, under FairSpec *)

\* Stop joins the pump (715-733), which never takes d.mutex: every Stop returns, also
\* against senders and disconnections that are blocked on the full channel.
StopReturns == \A s \in Stoppers : stop[s] # "idle" ~> stop[s] = "idle"

\* DeleteClientAndWait (775-793) holds up the ws server's gate for this client: every
\* disconnection is dealt with, also without its 2s timeout.
DisconnectReturns == \A c \in Clients : disc[c] # "idle" ~> disc[c] = "idle"

\* "Bounded by a single pump iteration" (CompleteRequest, 1295-1298): the send of the
\* readiness token goes through, so the response handler is called.
ReplyIsDelivered == \A p \in Readers : rd[p].pc = "signal" ~> rd[p].pc = "idle"

\* Readiness tokens carry a request ID and stale ones are dropped (1005-1024): no
\* wake-up is lost.  Every accepted request is reported, or goes with its client, or
\* its reply is held up by a pump that has stopped (see ReplyIsDelivered).
EveryRequestSettles ==
    \A r \in Requests :
        snd[r] = "accepted" ~> \/ outcome[r] # "none"
                               \/ \E q \in removed : r \in Range(queues[q])
                               \/ ~running /\ \E p \in Readers : ReaderOwns(p, r)
=============================================================================

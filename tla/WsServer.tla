------------------------------ MODULE WsServer ------------------------------
(***************************************************************************)
(* The websocket server (ws/server.go): the connections registry, the       *)
(* transition gate, duplicate connections, message and disconnect           *)
(* callbacks, StopConnection, Write and Shutdown, composed with the pumps   *)
(* of every socket (module WebSocket).                                      *)
(*                                                                          *)
(* connMutex: every critical section but one never waits, so it is a single *)
(* step, enabled while nobody holds the lock for longer.  The exception is  *)
(* stopConnections, which calls Close on every socket with the lock held:   *)
(* "locked" is TRUE from its Lock to its Unlock.                            *)
(***************************************************************************)
EXTENDS WebSocket, Sequences

CONSTANTS None,
          IdOf,       \* Conns -> the charge point ID each upgrade request names
          KeepNew,    \* duplicatePolicy
          Callers,    \* goroutines of the application that call StopConnection or Write
          Hook,       \* the goroutine of the RegisterOnShutdown hook
          Supported,  \* upgrader.Subprotocols
          Offers,     \* the subprotocol lists a client may ask for
          MayStop     \* whether the application calls Shutdown

ASSUME ServerAssumption == /\ None \notin Conns
                           /\ Conns \cup Callers \cup {Hook} \subseteq Actors

Ids == {IdOf[c] : c \in Conns}

VARIABLES connections,  \* [Ids -> Conns or None]
          gate,         \* [Ids -> Nat]
          stopped, locked,
          handler,      \* [Conns -> pc of wsHandler]
          evicted,      \* [Conns -> the socket its registration evicts]
          torn,         \* teardownDone closed
          caller,       \* [Callers -> the call in progress: its kind and the socket looked up]
          stopper, hook, toClose,
          announced,    \* sockets newClientHandler was called for
          gone          \* sockets disconnectedHandler was called for

registry == <<connections, gate, stopped, locked>>
shutdown == <<stopper, hook, toClose>>
events == <<announced, gone>>
vars == <<sock, registry, handler, evicted, torn, caller, shutdown, events>>

Init == /\ InitSockets
        /\ connections = [i \in Ids |-> None]
        /\ gate = [i \in Ids |-> 0]
        /\ stopped = FALSE /\ locked = FALSE
        /\ handler = [c \in Conns |-> "idle"]
        /\ evicted = [c \in Conns |-> None]
        /\ torn = [c \in Conns |-> FALSE]
        /\ caller = [a \in Callers |-> [kind |-> "none", conn |-> None]]
        /\ stopper = "idle" /\ hook = "off" /\ toClose = {}
        /\ announced = {} /\ gone = {}

Unlocked == ~locked

IsCurrent(c) == connections[IdOf[c]] = c

\* error(err): takes the read lock, then a send that never blocks.
CanReport == Unlocked

----------------------------------------------------------------------------
(* wsHandler                                                               *)

\* The first subprotocol the client asks for that the server supports.
Negotiated(offer) ==
    LET accepted == {i \in DOMAIN offer : Supported = {} \/ offer[i] \in Supported}
    IN IF accepted = {} THEN None
       ELSE offer[CHOOSE i \in accepted : \A j \in accepted : i <= j]

(* A request arrives while the listener is open.  ID resolver, basic auth,  *)
(* client check or upgrade may fail and no subprotocol may fit: the error   *)
(* is reported and the request refused.  Otherwise the socket is created.   *)
RefuseRequest(c) == /\ handler[c] = "idle"
                    /\ stopper = "idle"
                    /\ CanReport
                    /\ handler' = [handler EXCEPT ![c] = "refused"]
                    /\ UNCHANGED <<sock, registry, evicted, torn, caller, shutdown, events>>

Upgrade(c, offer) == /\ handler[c] = "idle"
                     /\ stopper = "idle"
                     /\ Negotiated(offer) # None
                     /\ handler' = [handler EXCEPT ![c] = "register"]
                     /\ sock' = NewWebSocket(c)
                     /\ UNCHANGED <<registry, evicted, torn, caller, shutdown, events>>

AcceptRequest(c) == RefuseRequest(c) \/ \E offer \in Offers : Upgrade(c, offer)

(* The refusals of registerNewConnection also report an error, which needs  *)
(* the read lock for a moment: that wait is merged with the critical        *)
(* section next to it.  run() only spawns the pumps, so it is merged with   *)
(* the step that ends the registration.                                     *)

(* registerNewConnection, up to its first unlock: refused, registered, or,  *)
(* with KeepNew, the gate raised and the old socket about to be evicted.   *)
RegisterUnless(c, refused) ==
    LET id == IdOf[c] IN
    /\ handler[c] = "register"
    /\ Unlocked
    /\ \/ /\ refused \/ (connections[id] # None /\ ~KeepNew)
          /\ handler' = [handler EXCEPT ![c] = "refused"]
          /\ UNCHANGED <<sock, connections, gate, evicted>>
       \/ /\ ~refused /\ connections[id] = None
          /\ connections' = [connections EXCEPT ![id] = c]
          /\ sock' = RunSocket(c)
          /\ handler' = [handler EXCEPT ![c] = "announce"]
          /\ UNCHANGED <<gate, evicted>>
       \/ /\ ~refused /\ connections[id] # None /\ KeepNew
          /\ gate' = [gate EXCEPT ![id] = @ + 1]
          /\ evicted' = [evicted EXCEPT ![c] = connections[id]]
          /\ handler' = [handler EXCEPT ![c] = "evict"]
          /\ UNCHANGED <<sock, connections>>
    /\ UNCHANGED <<stopped, locked, torn, caller, shutdown, events>>

\* Mutant of Register: the gate is not consulted.
UngatedRegister(c) == RegisterUnless(c, stopped)

Register(c) == RegisterUnless(c, stopped \/ gate[IdOf[c]] > 0)

\* old.Close("reconnected"): an error (already closed or closing) is ignored.
EvictOld(c) ==
    /\ handler[c] = "evict"
    /\ \/ /\ CloseReturns(c, evicted[c])
          /\ handler' = [handler EXCEPT ![c] = "wait"]
       \/ /\ CloseWaits(c, evicted[c])
          /\ UNCHANGED handler
    /\ UNCHANGED <<registry, evicted, torn, caller, shutdown, events>>

\* The old socket's teardown is over, or the eviction timer fires first.
AwaitTeardown(c) == /\ handler[c] = "wait"
                    /\ \/ /\ torn[evicted[c]]
                          /\ handler' = [handler EXCEPT ![c] = "replace"]
                       \/ handler' = [handler EXCEPT ![c] = "ungateRefused"]
                    /\ UNCHANGED <<sock, registry, evicted, torn, caller, shutdown, events>>

\* The second critical section of registerNewConnection.
ReplaceUnless(c, refused) ==
    LET id == IdOf[c] IN
    /\ handler[c] = "replace"
    /\ Unlocked
    /\ IF refused
       THEN /\ handler' = [handler EXCEPT ![c] = "ungateRefused"]
            /\ UNCHANGED connections
       ELSE /\ connections' = [connections EXCEPT ![id] = c]
            /\ handler' = [handler EXCEPT ![c] = "ungateRun"]
    /\ UNCHANGED <<sock, gate, stopped, locked, evicted, torn, caller, shutdown, events>>

\* Mutant of Replace: the stopped flag is not looked at again.
BlindReplace(c) == ReplaceUnless(c, connections[IdOf[c]] # None)

Replace(c) == ReplaceUnless(c, stopped \/ connections[IdOf[c]] # None)

\* Mutant of DecrementGate: lowered twice.
DecrementTwice(id) == gate' = [gate EXCEPT ![id] = @ - 2]

\* decrementGate: a count that reaches zero is deleted from the map.
DecrementGate(id) == gate' = [gate EXCEPT ![id] = @ - 1]

\* The deferred decrementGate of registerNewConnection, on both of its late returns.
UngateRegistration(c) ==
    /\ Unlocked
    /\ DecrementGate(IdOf[c])
    /\ \/ /\ handler[c] = "ungateRun"
          /\ sock' = RunSocket(c)
          /\ handler' = [handler EXCEPT ![c] = "announce"]
       \/ /\ handler[c] = "ungateRefused"
          /\ sock' = sock
          /\ handler' = [handler EXCEPT ![c] = "refused"]
    /\ UNCHANGED <<connections, stopped, locked, evicted, torn, caller, shutdown, events>>

\* newClientHandler(ws), on the http goroutine, with the pumps already running.
Announce(c) == /\ handler[c] = "announce"
               /\ announced' = announced \cup {c}
               /\ handler' = [handler EXCEPT ![c] = "served"]
               /\ UNCHANGED <<sock, registry, evicted, torn, caller, shutdown, gone>>

WsHandler(c) == \/ Register(c)
                \/ EvictOld(c)
                \/ AwaitTeardown(c)
                \/ Replace(c)
                \/ UngateRegistration(c)
                \/ Announce(c)

----------------------------------------------------------------------------
(* The callbacks the sockets were created with.                            *)

\* onError on the write goroutine: error(err) waits for the lock, then cleanup follows.
ReportWriteError(c) ==
    /\ sock[c].writer \in {"failed", "closeFailed"}
    /\ CanReport
    /\ sock' = AfterWriteError(c)
    /\ UNCHANGED <<registry, handler, evicted, torn, caller, shutdown, events>>

\* handleMessage: passed to the handler above, or dropped when the socket is stale.
HandleMessage(c) ==
    /\ sock[c].reader = "onMessage"
    /\ Unlocked
    /\ sock' = AfterMessage(c)
    /\ UNCHANGED <<registry, handler, evicted, torn, caller, shutdown, events>>

(* handleDisconnect, on the write goroutine.  The deferred calls run in     *)
(* reverse: the gate is lowered before teardownDone is closed.             *)
RemoveSocket(c) ==
    LET id == IdOf[c] IN
    /\ sock[c].writer = "onClosed"
    /\ Unlocked
    /\ gate' = [gate EXCEPT ![id] = @ + 1]
    /\ connections' = IF IsCurrent(c) THEN [connections EXCEPT ![id] = None] ELSE connections
    /\ sock' = [sock EXCEPT ![c].writer = IF IsCurrent(c) THEN "removed" ELSE "ungate"]
    /\ UNCHANGED <<stopped, locked, handler, evicted, torn, caller, shutdown, events>>

CheckSuperseded(c) ==
    /\ sock[c].writer = "removed"
    /\ Unlocked
    /\ sock' = [sock EXCEPT ![c].writer = IF connections[IdOf[c]] # None THEN "ungate" ELSE "emit"]
    /\ UNCHANGED <<registry, handler, evicted, torn, caller, shutdown, events>>

\* disconnectedHandler(w)
EmitDisconnect(c) ==
    /\ sock[c].writer = "emit"
    /\ gone' = gone \cup {c}
    /\ sock' = [sock EXCEPT ![c].writer = "ungate"]
    /\ UNCHANGED <<registry, handler, evicted, torn, caller, shutdown, announced>>

FinishDisconnect(c) ==
    /\ sock[c].writer = "ungate"
    /\ Unlocked
    /\ DecrementGate(IdOf[c])
    /\ torn' = [torn EXCEPT ![c] = TRUE]
    /\ sock' = [sock EXCEPT ![c].writer = "exit"]
    /\ UNCHANGED <<connections, stopped, locked, handler, evicted, caller, shutdown, events>>

HandleDisconnect(c) == \/ RemoveSocket(c)
                       \/ CheckSuperseded(c)
                       \/ EmitDisconnect(c)
                       \/ FinishDisconnect(c)

others == <<registry, handler, evicted, torn, caller, shutdown, events>>

WriteGoroutine(c) == \/ WritePump(c) /\ UNCHANGED others
                     \/ ReportWriteError(c)
                     \/ HandleDisconnect(c)

ReadGoroutine(c) == \/ ReadPump(c) /\ UNCHANGED others
                    \/ HandleMessage(c)

----------------------------------------------------------------------------
(* StopConnection and Write: look the socket up, then call it unlocked.    *)

LookUp(a, kind, id) ==
    /\ caller[a].kind = "none"
    /\ Unlocked
    /\ caller' = [caller EXCEPT ![a] = IF connections[id] = None
                                       THEN [kind |-> "done", conn |-> None]
                                       ELSE [kind |-> kind, conn |-> connections[id]]]
    /\ UNCHANGED <<sock, registry, handler, evicted, torn, shutdown, events>>

\* The call on the socket that was looked up, which may be gone by now.
StopConnectionCall(a) ==
    /\ caller[a].kind = "close"
    /\ \/ /\ CloseReturns(a, caller[a].conn)
          /\ caller' = [caller EXCEPT ![a] = [kind |-> "done", conn |-> None]]
       \/ /\ CloseWaits(a, caller[a].conn)
          /\ UNCHANGED caller
    /\ UNCHANGED <<registry, handler, evicted, torn, shutdown, events>>

WriteCall(a) ==
    /\ caller[a].kind = "write"
    /\ \/ /\ WriteReturns(a, caller[a].conn)
          /\ caller' = [caller EXCEPT ![a] = [kind |-> "done", conn |-> None]]
       \/ /\ WriteWaits(a, caller[a].conn)
          /\ UNCHANGED caller
    /\ UNCHANGED <<registry, handler, evicted, torn, shutdown, events>>

Caller(a) == \/ \E id \in Ids, kind \in {"close", "write"} : LookUp(a, kind, id)
             \/ StopConnectionCall(a)
             \/ WriteCall(a)

----------------------------------------------------------------------------
(* Shutdown.  http.Server.Shutdown closes the listener, spawns the hook in  *)
(* a goroutine nobody waits for, and returns when the requests in progress  *)
(* are hijacked or answered, or when ctx is done.  errC is closed last.     *)
CallShutdown == /\ MayStop
                /\ stopper = "idle"
                /\ stopper' = "http"
                /\ hook' = "start"
                /\ UNCHANGED <<sock, registry, handler, evicted, torn, caller, toClose, events>>

ShutdownEnds == /\ stopper = "http"
                /\ Unlocked
                /\ stopper' = "returned"
                /\ UNCHANGED <<sock, registry, handler, evicted, torn, caller, hook, toClose, events>>

\* stopConnections: the lock is held over the Close of every registered socket.
HookLocks == /\ hook = "start"
             /\ Unlocked
             /\ locked' = TRUE /\ stopped' = TRUE
             /\ toClose' = {connections[i] : i \in Ids} \ {None}
             /\ hook' = "loop"
             /\ UNCHANGED <<sock, connections, gate, handler, evicted, torn, caller, stopper, events>>

HookCloses(c) ==
    /\ hook = "loop"
    /\ c \in toClose
    /\ \A d \in toClose \ {c} : Hook \notin sock[d].inside
    /\ \/ /\ CloseReturns(Hook, c)
          /\ toClose' = toClose \ {c}
       \/ /\ CloseWaits(Hook, c)
          /\ UNCHANGED toClose
    /\ UNCHANGED <<registry, handler, evicted, torn, caller, stopper, hook, events>>

HookUnlocks == /\ hook = "loop"
               /\ toClose = {}
               /\ locked' = FALSE
               /\ hook' = "done"
               /\ UNCHANGED <<sock, connections, gate, stopped, handler, evicted, torn, caller, stopper, toClose, events>>

StopConnections == HookLocks \/ (\E c \in Conns : HookCloses(c)) \/ HookUnlocks

\* The network is lost under a running socket; before run() nobody would notice.
NetworkLoss(c) == /\ sock[c].writer # "off"
                  /\ PeerGoes(c)
                  /\ UNCHANGED <<registry, handler, evicted, torn, caller, shutdown, events>>

(* No goroutine has a step to take: only the network, a new request or a    *)
(* call of the application can change anything.                             *)
AtRest == /\ \A c \in Conns : /\ handler[c] \in {"idle", "refused", "served"}
                              /\ sock[c].writer \in {"off", "select", "exit"}
                              /\ sock[c].writer = "select" =>
                                     sock[c].outQ + sock[c].pingQ + sock[c].closeQ + sock[c].forceQ = 0
                              /\ sock[c].reader \in {"off", "read", "exit"}
                              /\ sock[c].reader = "read" => sock[c].peer = "up"
          /\ \A a \in Callers : caller[a].kind \in {"none", "done"}
          /\ hook \in {"off", "done"}
          /\ stopper \in {"idle", "returned"}

\* A panic on a goroutine nobody recovers ends the process.
Panicked == \E c \in Conns : sock[c].reader = "panic"

Finished == (AtRest \/ Panicked) /\ UNCHANGED vars

(* stopConnections holds the lock and waits in Close for a close slot that  *)
(* is taken, while the goroutine that would empty the slot, or start the    *)
(* one that does, waits for the lock: in error() after a failed write, or   *)
(* in the deferred decrementGate before run().                              *)
Wedged == \E c \in Conns : /\ Hook \in sock[c].inside
                           /\ sock[c].closeQ = 1
                           /\ \/ sock[c].writer \in {"failed", "closeFailed"}
                              \/ handler[c] = "ungateRun"

StayWedged == Wedged /\ UNCHANGED vars

Goroutines == \/ \E c \in Conns : AcceptRequest(c) \/ WsHandler(c) \/ WriteGoroutine(c) \/ ReadGoroutine(c) \/ NetworkLoss(c)
              \/ \E a \in Callers : Caller(a)
              \/ CallShutdown
              \/ ShutdownEnds
              \/ StopConnections

Next == \/ ~Panicked /\ Goroutines
        \/ Finished
        \/ StayWedged

Spec == Init /\ [][Next]_vars

(* Every goroutine that can go on eventually does, user callbacks return,   *)
(* and a read on a lost connection fails.  Requests, losses and the calls   *)
(* of the application are not obliged to happen.                            *)
ReaderRuns(c) == \/ ReaderStart(c) \/ OnPing(c) \/ ReaderFails(c) \/ ReaderCheck(c)
Fairness == /\ \A c \in Conns : /\ WF_vars(WsHandler(c))
                                /\ WF_vars(WriteGoroutine(c))
                                /\ WF_vars((ReaderRuns(c) /\ UNCHANGED others) \/ HandleMessage(c))
            /\ \A a \in Callers : WF_vars(StopConnectionCall(a) \/ WriteCall(a))
            /\ WF_vars(ShutdownEnds)
            /\ WF_vars(StopConnections)

FairSpec == Spec /\ Fairness

----------------------------------------------------------------------------
(* Properties                                                              *)

\* Every variable stays in its range.
TypeOK == /\ Sockets
          /\ connections \in [Ids -> Conns \cup {None}]
          /\ gate \in [Ids -> Nat]
          /\ {stopped, locked} \subseteq BOOLEAN
          /\ handler \in [Conns -> {"idle", "register", "refused", "evict", "wait", "replace",
                                    "ungateRun", "ungateRefused", "announce", "served"}]
          /\ evicted \in [Conns -> Conns \cup {None}]
          /\ torn \in [Conns -> BOOLEAN]
          /\ caller \in [Callers -> [kind : {"none", "close", "write", "done"}, conn : Conns \cup {None}]]
          /\ stopper \in {"idle", "http", "returned"}
          /\ hook \in {"off", "start", "loop", "done"}
          /\ toClose \subseteq Conns
          /\ announced \subseteq Conns /\ gone \subseteq Conns

\* The goroutine of c is between the removal of its socket and the end of its callback.
TearingDown(c) == sock[c].writer \in {"removed", "emit"}

(* While a socket is registered under an ID, no other socket of that ID is  *)
(* between its removal and the return of its disconnect callback: the gate  *)
(* of registerNewConnection and handleDisconnect keeps the two apart.       *)
NoOverlap == \A c, d \in Conns :
                 (c # d /\ IdOf[c] = IdOf[d] /\ IsCurrent(c)) => ~TearingDown(d)

(* handleDisconnect: a disconnect event of a socket never reaches the layer *)
(* above after the connect event of a newer socket with the same ID: when   *)
(* it is emitted, every other announced socket of the ID is already gone.   *)
NoLateDisconnect ==
    [][\A c \in gone' \ gone : \A d \in announced \ {c} : IdOf[d] = IdOf[c] => d \in gone]_vars

(* Once everything is at rest, a registered socket is a live one (both      *)
(* pumps run on a working connection), every socket that was closed has     *)
(* finished its teardown, and no ID is left gated: it can connect again.    *)
NoZombie == AtRest =>
    /\ \A c \in Conns : IsCurrent(c) =>
           sock[c].writer = "select" /\ sock[c].reader = "read" /\ sock[c].peer = "up"
    /\ \A c \in Conns : sock[c].done => torn[c]
    /\ \A i \in Ids : gate[i] = 0

\* readPump never sends on a channel that cleanup has closed.
NoPanic == ~Panicked

(* Stop: "All open channels will be forcefully closed".  Once the hook has  *)
(* run and everything is at rest, no socket is registered and every socket  *)
(* that was announced has been reported gone; a replacement that was        *)
(* waiting for an eviction does not slip in.                                *)
StopClosesAll == AtRest /\ hook = "done" =>
    /\ \A i \in Ids : connections[i] = None
    /\ announced \subseteq gone

(* error(): "the mutex is never held across a blocking channel operation",  *)
(* so a Shutdown that was called returns.                                   *)
ShutdownReturns == stopper = "http" ~> stopper = "returned"

----------------------------------------------------------------------------
(* The inductive invariant                                                 *)

\* The socket's write goroutine has yet to take it out of the registry.
Serving(c) == sock[c].writer \in Running \cup {"onClosed"}

\* The two holders of an ID's gate: a registration that evicts, and handleDisconnect.
Registering(c) == handler[c] \in {"evict", "wait", "replace", "ungateRun", "ungateRefused"}
Leaving(c) == sock[c].writer \in {"removed", "emit", "ungate"}

(* A socket's pumps run once its registration has succeeded; teardownDone   *)
(* is closed last, after the disconnect callback.                           *)
Life(c) ==
    /\ SocketLife(c)
    /\ sock[c].writer = "off" <=> handler[c] \notin {"announce", "served"}
    /\ handler[c] = "register" \/ Registering(c) => sock[c].conn = "open"
    /\ torn[c] <=> sock[c].writer = "exit"
    /\ sock[c].writer \in {"ungate", "exit"} => c \in gone
    /\ c \in announced => handler[c] = "served"

(* connections holds the sockets being served and a replacement that is     *)
(* about to run, under their own ID; while a socket leaves, nothing.        *)
Registry ==
    /\ \A i \in Ids : connections[i] # None => IdOf[connections[i]] = i
    /\ \A c \in Conns : IsCurrent(c) <=> Serving(c) \/ handler[c] = "ungateRun"
    /\ \A c \in Conns : Leaving(c) => connections[IdOf[c]] = None

\* The gate counts its holders: at most one of each kind for an ID.
GateCounts ==
    /\ \A c, d \in Conns : IdOf[c] = IdOf[d] /\ Registering(c) /\ Registering(d) => c = d
    /\ \A c, d \in Conns : IdOf[c] = IdOf[d] /\ Leaving(c) /\ Leaving(d) => c = d
    /\ \A i \in Ids : gate[i] = (IF \E c \in Conns : IdOf[c] = i /\ Registering(c) THEN 1 ELSE 0)
                              + (IF \E c \in Conns : IdOf[c] = i /\ Leaving(c) THEN 1 ELSE 0)

(* A registration that evicts waits for the only socket of its ID that can  *)
(* be registered or leaving, and takes its place after its teardown.        *)
Eviction == \A c \in Conns : Registering(c) /\ handler[c] # "ungateRun" =>
    /\ evicted[c] \in Conns /\ IdOf[evicted[c]] = IdOf[c]
    /\ connections[IdOf[c]] \in {evicted[c], None}
    /\ \A d \in Conns : IdOf[d] = IdOf[c] /\ Leaving(d) => d = evicted[c]
    /\ handler[c] = "replace" => torn[evicted[c]]

\* Stop closes every registered socket: each is still to be closed, told to close, or on its way out.
Stopping ==
    /\ stopper = "idle" <=> hook = "off"
    /\ locked <=> hook = "loop"
    /\ stopped <=> hook \in {"loop", "done"}
    /\ hook = "done" => toClose = {}
    /\ stopped => \A c \in Conns : IsCurrent(c) => \/ c \in toClose \/ sock[c].closeQ = 1
                                                   \/ sock[c].writer \notin {"off", "select"}

\* What StopConnection and Write have looked up is a socket.
LookedUp == \A a \in Callers : caller[a].kind \in {"close", "write"} => caller[a].conn \in Conns

IndInv == /\ TypeOK /\ \A c \in Conns : Life(c)
          /\ Registry /\ GateCounts /\ Eviction /\ Stopping /\ LookedUp

=============================================================================

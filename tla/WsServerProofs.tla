--------------------------- MODULE WsServerProofs ---------------------------
(* Proofs about WsServer, for any sockets, charge point IDs, callers, offers *)
(* and either duplicate policy.                                              *)
EXTENDS WsServer, WebSocketProofs

USE ServerAssumption
USE DEF registry, shutdown, events, others

\* A step under which the registry, the gate and the evictions stay what they are.
Steady ==
    /\ UNCHANGED <<connections, gate, evicted>>
    /\ \A d \in Conns :
           /\ Serving(d)' <=> Serving(d)
           /\ Leaving(d)' <=> Leaving(d)
           /\ Registering(d)' <=> Registering(d)
           /\ handler'[d] = "ungateRun" <=> handler[d] = "ungateRun"
           /\ handler'[d] = "replace" => handler[d] = "replace" \/ torn[evicted[d]]
           /\ torn[d] => torn'[d]

\* A step that neither starts nor advances Shutdown, registers nothing and takes back no request to close.
OutOfShutdown ==
    /\ UNCHANGED <<stopper, hook, locked, stopped, toClose>>
    /\ stopped => \A d \in Conns :
           /\ IsCurrent(d)' => IsCurrent(d)
           /\ IsCurrent(d) /\ sock[d].closeQ = 1 => sock'[d].closeQ = 1 \/ sock'[d].writer \notin {"off", "select"}
           /\ IsCurrent(d) /\ sock[d].writer \notin {"off", "select"} => sock'[d].writer \notin {"off", "select"}

\* What a step leaves alone for the socket d.
Still(d) == /\ sock'[d] = sock[d] /\ handler'[d] = handler[d] /\ torn'[d] = torn[d]
            /\ d \in gone' <=> d \in gone
            /\ d \in announced' <=> d \in announced

\* The registry and its gate only depend on who is serving, leaving and registering.
LEMMA SteadyKeeps == Registry /\ GateCounts /\ Eviction /\ Steady => (Registry /\ GateCounts /\ Eviction)'
PROOF
<1> SUFFICES ASSUME Registry, GateCounts, Eviction, Steady PROVE (Registry /\ GateCounts /\ Eviction)'
  BY Zenon
<1>1. Registry'
  BY Zenon DEF Registry, Steady, IsCurrent
<1>2. GateCounts'
  BY Zenon DEF GateCounts, Steady
<1>3. Eviction'
  BY Zenon DEF Eviction, Steady
<1> QED BY <1>1, <1>2, <1>3, Zenon

\* Outside Shutdown a registered socket that has been told to close stays told.
LEMMA ShutdownKept == Stopping /\ OutOfShutdown => Stopping'
PROOF
<1> SUFFICES ASSUME Stopping, OutOfShutdown PROVE Stopping'
  BY Zenon
<1>1. ASSUME stopped', NEW d \in Conns, IsCurrent(d)'
      PROVE  d \in toClose' \/ sock'[d].closeQ = 1 \/ sock'[d].writer \notin {"off", "select"}
  BY <1>1, Zenon DEF Stopping, OutOfShutdown
<1> QED BY <1>1, Zenon DEF Stopping, OutOfShutdown

\* A socket nobody touches keeps its life.
LEMMA StillLives == ASSUME NEW d \in Conns, Life(d), Still(d) PROVE Life(d)'
PROOF BY Zenon DEF Life, Still, SocketLife, Registering

\* What is left of the invariant once the socket and the registry are known to be in order.
LEMMA Assemble ==
    ASSUME IndInv, NEW c \in Conns, Steady, OutOfShutdown, \A d \in Conns \ {c} : Still(d), Life(c)',
           TypeOK', LookedUp'
    PROVE  IndInv'
PROOF
<1>1. \A d \in Conns : Life(d)'
  BY StillLives, Zenon DEF IndInv
<1>2. (Registry /\ GateCounts /\ Eviction)'
  BY SteadyKeeps, Zenon DEF IndInv
<1>3. Stopping'
  BY ShutdownKept, Zenon DEF IndInv
<1> QED BY <1>1, <1>2, <1>3, Zenon DEF IndInv

\* The pumps, their error callback, a message and the loss of the network change one socket only.
LEMMA PumpStep ==
    ASSUME IndInv, NEW c \in Conns,
           \/ WritePump(c) /\ UNCHANGED others
           \/ ReadPump(c) /\ UNCHANGED others
           \/ ReportWriteError(c) \/ HandleMessage(c) \/ NetworkLoss(c)
    PROVE  IndInv'
PROOF
<1> USE DEF Running
<1>1. UNCHANGED others
  BY Zenon DEF ReportWriteError, HandleMessage, NetworkLoss
<1>2. Sockets /\ Life(c) /\ SocketLife(c)
  BY Zenon DEF IndInv, TypeOK, Life
<1>3. /\ Sockets' /\ Aside(c) /\ SocketLife(c)'
      /\ \/ sock'[c].writer = sock[c].writer /\ sock'[c].conn = sock[c].conn /\ sock'[c].closeQ = sock[c].closeQ
         \/ /\ sock[c].writer \in Running /\ sock'[c].writer \in Running \cup {"onClosed"}
            /\ sock'[c].writer = "select" => sock[c].writer = "select" /\ sock'[c].closeQ = sock[c].closeQ
  <2>1. CASE WritePump(c)
    BY <1>2, <2>1, WritePumpEffect, Zenon
  <2>2. CASE ReadPump(c)
    BY <1>2, <2>2, ReadPumpEffect, Zenon
  <2>3. CASE ReportWriteError(c)
    <3>1. sock' = AfterWriteError(c) /\ sock[c].writer \in {"failed", "closeFailed"}
      BY <2>3, Zenon DEF ReportWriteError
    <3>2. SocketLife(c)'
      BY <1>2, <3>1, WriteErrorEffect, Zenon DEF SocketLife, Closed
    <3> QED BY <1>2, <3>1, <3>2, WriteErrorEffect, Zenon
  <2>4. CASE HandleMessage(c) \/ NetworkLoss(c)
    BY <1>2, <2>4, QuietEffect, Zenon DEF HandleMessage, NetworkLoss
  <2> QED BY <2>1, <2>2, <2>3, <2>4, Zenon
<1>4. \A d \in Conns \ {c} : Still(d)
  BY <1>1, <1>3, Zenon DEF Still, Aside
<1>5. Life(c)'
  BY <1>1, <1>2, <1>3, Zenon DEF Life, Registering
<1>6. Steady
  BY <1>1, <1>3, Zenon DEF Steady, Aside, Serving, Leaving, Registering
<1>7. OutOfShutdown
  BY <1>1, <1>3, Zenon DEF OutOfShutdown, Aside, IsCurrent
<1>8. TypeOK' /\ LookedUp'
  BY <1>1, <1>3, Zenon DEF IndInv, TypeOK, LookedUp
<1> QED BY <1>4, <1>5, <1>6, <1>7, <1>8, Assemble, Zenon

\* A call of Write or Close from outside leaves the goroutines of the socket where they are.
LEMMA CallStep ==
    ASSUME IndInv, NEW c \in Conns, NEW a \in Actors,
           \/ CloseReturns(a, c) \/ CloseWaits(a, c) \/ WriteReturns(a, c) \/ WriteWaits(a, c),
           UNCHANGED <<handler, torn, gone, announced, connections, gate, evicted>>
    PROVE  Sockets' /\ Steady /\ \A d \in Conns : Life(d)'
PROOF
<1>1. Sockets /\ Life(c) /\ SocketLife(c)
  BY Zenon DEF IndInv, TypeOK, Life
<1>2. /\ Sockets' /\ Aside(c)
      /\ sock'[c].writer = sock[c].writer /\ sock'[c].reader = sock[c].reader
      /\ sock'[c].conn = sock[c].conn /\ sock'[c].done = sock[c].done
      /\ sock'[c].forceQ = sock[c].forceQ
  BY <1>1, CallEffect, Zenon
<1>3. SocketLife(c)'
  BY <1>1, <1>2, Zenon DEF SocketLife
<1>4. Life(c)'
  BY <1>1, <1>2, <1>3, Zenon DEF Life, Registering
<1>5. \A d \in Conns \ {c} : Life(d)'
  BY <1>2, StillLives, Zenon DEF Still, Aside, IndInv
<1>6. Steady
  BY <1>2, Zenon DEF Steady, Aside, Serving, Leaving, Registering
<1> QED BY <1>2, <1>4, <1>5, <1>6, Zenon

\* StopConnection and Write touch the socket they looked up, which may have been replaced since.
LEMMA CallerStep ==
    ASSUME IndInv, NEW a \in Callers, Caller(a)
    PROVE  IndInv'
PROOF
<1>1. ASSUME NEW id \in Ids, NEW kind \in {"close", "write"}, LookUp(a, kind, id) PROVE IndInv'
  <2>1. sock' = sock /\ UNCHANGED <<registry, handler, evicted, torn, shutdown, events>>
    BY <1>1, Zenon DEF LookUp
  <2>2. Steady /\ OutOfShutdown /\ \A d \in Conns : Still(d)
    BY <2>1, Zenon DEF Steady, OutOfShutdown, Still, Serving, Leaving, Registering, IsCurrent
  <2>3. \A d \in Conns : Life(d)'
    BY <2>2, StillLives, Zenon DEF IndInv
  <2>4. connections[id] \in Conns \cup {None}
    BY Zenon DEF IndInv, TypeOK
  <2>5. TypeOK' /\ LookedUp'
    BY <1>1, <2>1, <2>4, Zenon DEF LookUp, IndInv, TypeOK, LookedUp, Sockets
  <2> QED BY <2>2, <2>3, <2>5, SteadyKeeps, ShutdownKept, Zenon DEF IndInv
<1>2. CASE StopConnectionCall(a) \/ WriteCall(a)
  <2> DEFINE c == caller[a].conn
  <2>1. c \in Conns /\ a \in Actors
    BY <1>2, Zenon DEF StopConnectionCall, WriteCall, IndInv, LookedUp
  <2>2. /\ \/ CloseReturns(a, c) \/ CloseWaits(a, c) \/ WriteReturns(a, c) \/ WriteWaits(a, c)
        /\ UNCHANGED <<registry, handler, evicted, torn, shutdown, events>>
        /\ caller' \in {caller, [caller EXCEPT ![a] = [kind |-> "done", conn |-> None]]}
    BY <1>2, Zenon DEF StopConnectionCall, WriteCall
  <2> HIDE DEF c
  <2>3. Sockets' /\ Steady /\ \A d \in Conns : Life(d)'
    BY <2>1, <2>2, CallStep, Zenon
  <2>4. /\ Aside(c) /\ sock'[c].writer = sock[c].writer /\ sock'[c].closeQ \in {sock[c].closeQ, 1}
    BY <2>1, <2>2, CallEffect, Zenon DEF IndInv, TypeOK
  <2>5. OutOfShutdown
    BY <2>2, <2>4, Zenon DEF OutOfShutdown, Aside, IsCurrent
  <2>6. TypeOK' /\ LookedUp'
    BY <2>2, <2>3 DEF IndInv, TypeOK, LookedUp
  <2> QED BY <2>3, <2>5, <2>6, SteadyKeeps, ShutdownKept, Zenon DEF IndInv
<1> QED BY <1>1, <1>2, Zenon DEF Caller

\* Shutdown: once the hook has locked, every registered socket is closed or on the hook's list.
LEMMA ShutdownStep ==
    ASSUME IndInv, CallShutdown \/ ShutdownEnds \/ StopConnections
    PROVE  IndInv'
PROOF
<1>1. ASSUME sock' = sock, UNCHANGED <<connections, gate, handler, evicted, torn, caller, events>>,
             TypeOK', Stopping'
      PROVE  IndInv'
  <2>1. Steady /\ \A d \in Conns : Still(d)
    BY <1>1, Zenon DEF Steady, Still, Serving, Leaving, Registering
  <2>2. \A d \in Conns : Life(d)'
    BY <2>1, StillLives, Zenon DEF IndInv
  <2> QED BY <1>1, <2>1, <2>2, SteadyKeeps, Zenon DEF IndInv, LookedUp
<1>2. CASE CallShutdown \/ ShutdownEnds
  <2>1. TypeOK'
    BY <1>2, Zenon DEF CallShutdown, ShutdownEnds, IndInv, TypeOK, Sockets
  <2>2. Stopping'
    <3>1. CASE CallShutdown
      BY <3>1, Zenon DEF CallShutdown, IndInv, Stopping, IsCurrent
    <3>2. CASE ShutdownEnds
      BY <3>2, Zenon DEF ShutdownEnds, IndInv, Stopping, IsCurrent
    <3> QED BY <1>2, <3>1, <3>2, Zenon
  <2> QED BY <1>1, <1>2, <2>1, <2>2, Zenon DEF CallShutdown, ShutdownEnds
<1>3. CASE HookLocks
  <2>1. TypeOK'
    BY <1>3 DEF HookLocks, IndInv, TypeOK, Sockets
  <2>2. \A c \in Conns : IsCurrent(c)' => c \in toClose'
    BY <1>3, Zenon DEF HookLocks, IsCurrent, Ids
  <2>3. Stopping'
    BY <1>3, <2>2, Zenon DEF HookLocks, IndInv, Stopping
  <2> QED BY <1>1, <1>3, <2>1, <2>3, Zenon DEF HookLocks
<1>4. CASE HookUnlocks
  <2>1. TypeOK'
    BY <1>4, Zenon DEF HookUnlocks, IndInv, TypeOK, Sockets
  <2>2. Stopping'
    BY <1>4, Zenon DEF HookUnlocks, IndInv, Stopping, IsCurrent
  <2> QED BY <1>1, <1>4, <2>1, <2>2, Zenon DEF HookUnlocks
<1>5. ASSUME NEW c \in Conns, HookCloses(c) PROVE IndInv'
  <2>1. /\ \/ CloseReturns(Hook, c) /\ toClose' = toClose \ {c}
           \/ CloseWaits(Hook, c) /\ toClose' = toClose
        /\ UNCHANGED <<registry, handler, evicted, torn, caller, stopper, hook, events>>
        /\ hook = "loop" /\ Hook \in Actors
    BY <1>5, Zenon DEF HookCloses
  <2>2. Sockets' /\ Steady /\ \A d \in Conns : Life(d)'
    BY <2>1, CallStep, Zenon
  <2>3. /\ Aside(c) /\ sock'[c].writer = sock[c].writer /\ sock'[c].closeQ \in {sock[c].closeQ, 1}
        /\ CloseReturns(Hook, c) => sock'[c].closeQ = 1 \/ ~IsOpen(c) \/ sock[c].done
    BY <2>1, CallEffect, Zenon DEF IndInv, TypeOK
  <2>4. ~IsOpen(c) \/ sock[c].done => (IsCurrent(c) => sock[c].writer \notin {"off", "select"})
    BY Zenon DEF IndInv, Life, SocketLife, Registry, Registering, Serving, IsOpen, Running, Closed
  <2>5. Stopping'
    <3>1. ASSUME NEW d \in Conns, IsCurrent(d)'
          PROVE  d \in toClose' \/ sock'[d].closeQ = 1 \/ sock'[d].writer \notin {"off", "select"}
      <4>1. IsCurrent(d) /\ (d \in toClose \/ sock[d].closeQ = 1 \/ sock[d].writer \notin {"off", "select"})
        BY <2>1, <3>1, Zenon DEF IndInv, Stopping, IsCurrent
      <4> QED BY <2>1, <2>3, <2>4, <4>1, Zenon DEF Aside
    <3> QED BY <2>1, <3>1, Zenon DEF IndInv, Stopping
  <2>6. TypeOK' /\ LookedUp'
    BY <2>1, <2>2, Zenon DEF IndInv, TypeOK, LookedUp
  <2> QED BY <2>2, <2>5, <2>6, SteadyKeeps, Zenon DEF IndInv
<1> QED BY <1>2, <1>3, <1>4, <1>5, Zenon DEF StopConnections

\* A request is refused, upgraded, waits for the eviction or is announced: the registry stays as it is.
LEMMA HandlerStep ==
    ASSUME IndInv, NEW c \in Conns,
           \/ AcceptRequest(c) \/ EvictOld(c) \/ AwaitTeardown(c) \/ Announce(c)
    PROVE  IndInv'
PROOF
<1>0. Sockets /\ Life(c) /\ SocketLife(c)
  BY Zenon DEF IndInv, TypeOK, Life
<1>1. CASE RefuseRequest(c) \/ AwaitTeardown(c) \/ Announce(c)
  <2> USE DEF RefuseRequest, AwaitTeardown, Announce
  <2>1. sock' = sock /\ UNCHANGED <<registry, evicted, torn, caller, shutdown, gone>>
    BY <1>1, Zenon
  <2>2. \A d \in Conns \ {c} : Still(d)
    BY <1>1, Zenon DEF Still, IndInv, TypeOK
  <2>3. TypeOK' /\ LookedUp'
    BY <1>1, Zenon DEF IndInv, TypeOK, LookedUp, Sockets
  <2>4. SocketLife(c)'
    BY <1>0, <2>1, Zenon DEF SocketLife
  <2>5. Life(c)'
    BY <1>0, <1>1, <2>1, <2>4 DEF Life, Registering, IndInv, TypeOK
  <2>6. Steady
    BY <1>1, <2>1, Zenon DEF Steady, Serving, Leaving, Registering, IndInv, TypeOK
  <2>7. OutOfShutdown
    BY <2>1, Zenon DEF OutOfShutdown, IsCurrent
  <2> QED BY <2>2, <2>3, <2>5, <2>6, <2>7, Assemble, Zenon
<1>2. ASSUME NEW offer \in Offers, Upgrade(c, offer) PROVE IndInv'
  <2>1. /\ UNCHANGED <<registry, evicted, torn, caller, shutdown, events>>
        /\ sock' = NewWebSocket(c) /\ handler[c] = "idle"
        /\ handler' = [handler EXCEPT ![c] = "register"]
    BY <1>2, Zenon DEF Upgrade
  <2>2. /\ Sockets' /\ Aside(c) /\ sock'[c].conn = "open"
        /\ sock'[c].writer = sock[c].writer /\ sock'[c].reader = sock[c].reader
        /\ sock'[c].done = sock[c].done /\ sock'[c].closeQ = sock[c].closeQ
    BY <1>0, <2>1, NewEffect, Zenon
  <2>3. \A d \in Conns \ {c} : Still(d)
    BY <2>1, <2>2, Zenon DEF Still, Aside, IndInv, TypeOK
  <2>4. TypeOK' /\ LookedUp'
    BY <2>1, <2>2, Zenon DEF IndInv, TypeOK, LookedUp
  <2>5. Life(c)'
    BY <1>0, <2>1, <2>2, Zenon DEF Life, SocketLife, Registering, IndInv, TypeOK, Running, Closed
  <2>6. Steady
    BY <2>1, <2>2, Zenon DEF Steady, Aside, Serving, Leaving, Registering, IndInv, TypeOK
  <2>7. OutOfShutdown
    BY <2>1, <2>2, Zenon DEF OutOfShutdown, Aside, IsCurrent
  <2> QED BY <2>3, <2>4, <2>5, <2>6, <2>7, Assemble, Zenon
<1>3. CASE EvictOld(c)
  <2> DEFINE old == evicted[c]
  <2>1. /\ handler[c] = "evict" /\ old \in Conns /\ c \in Actors
        /\ CloseReturns(c, old) \/ CloseWaits(c, old)
        /\ handler' \in {handler, [handler EXCEPT ![c] = "wait"]}
        /\ UNCHANGED <<registry, evicted, torn, caller, shutdown, events>>
    BY <1>3, Zenon DEF EvictOld, IndInv, Eviction, Registering
  <2> HIDE DEF old
  <2>2. /\ Sockets' /\ Aside(old)
        /\ sock'[old].writer = sock[old].writer /\ sock'[old].reader = sock[old].reader
        /\ sock'[old].conn = sock[old].conn /\ sock'[old].done = sock[old].done
        /\ sock'[old].forceQ = sock[old].forceQ
        /\ sock'[old].closeQ \in {sock[old].closeQ, 1}
    BY <1>0, <2>1, CallEffect, Zenon
  <2>3. handler \in [Conns -> {"idle", "register", "refused", "evict", "wait", "replace",
                               "ungateRun", "ungateRefused", "announce", "served"}]
    BY Zenon DEF IndInv, TypeOK
  <2>4. /\ handler' \in [Conns -> {"idle", "register", "refused", "evict", "wait", "replace",
                                   "ungateRun", "ungateRefused", "announce", "served"}]
        /\ \A d \in Conns : \/ handler'[d] = handler[d]
                            \/ handler[d] = "evict" /\ handler'[d] = "wait"
    BY <2>1, <2>3, Zenon
  <2>5. TypeOK' /\ LookedUp'
    BY <2>1, <2>2, <2>4, Zenon DEF IndInv, TypeOK, LookedUp
  <2>6. ASSUME NEW d \in Conns PROVE Life(d)'
    <3>1. Life(d) /\ SocketLife(d)
      BY Zenon DEF IndInv, Life
    <3>2. /\ sock'[d].writer = sock[d].writer /\ sock'[d].reader = sock[d].reader
          /\ sock'[d].conn = sock[d].conn /\ sock'[d].done = sock[d].done
          /\ sock'[d].forceQ = sock[d].forceQ
      BY <2>1, <2>2, Zenon DEF Aside
    <3>3. SocketLife(d)'
      BY <3>1, <3>2, Zenon DEF SocketLife
    <3> QED BY <2>1, <2>4, <3>1, <3>2, <3>3, Zenon DEF Life, Registering
  <2>7. Steady
    BY <2>1, <2>2, <2>4, Zenon DEF Steady, Aside, Serving, Leaving, Registering
  <2>8. OutOfShutdown
    BY <2>1, <2>2, Zenon DEF OutOfShutdown, Aside, IsCurrent
  <2> QED BY <2>5, <2>6, <2>7, <2>8, SteadyKeeps, ShutdownKept, Zenon DEF IndInv
<1> QED BY <1>1, <1>2, <1>3, Zenon DEF AcceptRequest

(* registerNewConnection, first critical section: with the gate down nobody *)
(* holds it, so a socket that is registered under the ID is being served.   *)
LEMMA RegisterStep ==
    ASSUME IndInv, NEW c \in Conns, Register(c)
    PROVE  IndInv'
PROOF
<1> DEFINE id == IdOf[c]
<1>1. /\ handler[c] = "register" /\ id \in Ids
      /\ UNCHANGED <<stopped, locked, torn, caller, shutdown, events>>
  BY Zenon DEF Register, RegisterUnless, Ids
<1>2. Sockets /\ Life(c) /\ SocketLife(c)
  BY Zenon DEF IndInv, TypeOK, Life
<1>3. sock[c].writer = "off" /\ sock[c].conn = "open" /\ sock[c].reader = "off" /\ ~sock[c].done /\ ~torn[c]
  BY <1>1, <1>2, Zenon DEF Life, SocketLife, Closed
<1>4. CASE /\ handler' = [handler EXCEPT ![c] = "refused"]
           /\ UNCHANGED <<sock, connections, gate, evicted>>
  <2>1. \A d \in Conns \ {c} : Still(d)
    BY <1>1, <1>4, Zenon DEF Still, IndInv, TypeOK
  <2>2. TypeOK' /\ LookedUp'
    BY <1>1, <1>4, Zenon DEF IndInv, TypeOK, LookedUp, Sockets
  <2>3. Life(c)'
    BY <1>1, <1>2, <1>4, Zenon DEF Life, SocketLife, Registering, IndInv, TypeOK
  <2>4. Steady
    BY <1>1, <1>4, Zenon DEF Steady, Serving, Leaving, Registering, IndInv, TypeOK
  <2>5. OutOfShutdown
    BY <1>1, <1>4, Zenon DEF OutOfShutdown, IsCurrent
  <2> QED BY <2>1, <2>2, <2>3, <2>4, <2>5, Assemble, Zenon
<1>5. ASSUME ~stopped, gate[id] = 0
      PROVE  \A d \in Conns : IdOf[d] = id => ~Registering(d) /\ ~Leaving(d)
  BY <1>1, <1>5 DEF IndInv, GateCounts
<1>6. CASE /\ ~stopped /\ ~(gate[id] > 0) /\ connections[id] = None
           /\ connections' = [connections EXCEPT ![id] = c]
           /\ sock' = RunSocket(c)
           /\ handler' = [handler EXCEPT ![c] = "announce"]
           /\ UNCHANGED <<gate, evicted>>
  <2>0. gate[id] = 0
    BY <1>1, <1>6 DEF IndInv, TypeOK
  <2>1. /\ Sockets' /\ Aside(c) /\ sock'[c].writer = "select" /\ sock'[c].reader = "start"
        /\ sock'[c].conn = sock[c].conn /\ sock'[c].done = sock[c].done /\ sock'[c].closeQ = sock[c].closeQ
    BY <1>2, <1>6, RunEffect, Zenon
  <2>2. TypeOK' /\ LookedUp'
    BY <1>1, <1>6, <2>1, Zenon DEF IndInv, TypeOK, LookedUp
  <2>3. Life(c)'
    BY <1>1, <1>2, <1>3, <1>6, <2>1, Zenon DEF Life, SocketLife, Registering, IndInv, TypeOK, Running, Closed
  <2>4. \A d \in Conns \ {c} : Life(d)'
    BY <1>1, <1>6, <2>1, StillLives, Zenon DEF Still, Aside, IndInv, TypeOK
  <2>5. /\ \A d \in Conns \ {c} : (Serving(d)' <=> Serving(d)) /\ handler'[d] = handler[d]
        /\ \A d \in Conns : (Leaving(d)' <=> Leaving(d)) /\ (Registering(d)' <=> Registering(d))
        /\ ~Leaving(c) /\ ~Registering(c) /\ Serving(c)'
    BY <1>1, <1>3, <1>6, <2>1, Zenon DEF Aside, Serving, Leaving, Registering, IndInv, TypeOK, Running
  <2>6. Registry'
    <3>1. \A i \in Ids : connections'[i] # None => IdOf[connections'[i]] = i
      BY <1>1, <1>6, Zenon DEF IndInv, TypeOK, Registry
    <3>2. ASSUME NEW d \in Conns PROVE IsCurrent(d)' <=> Serving(d)' \/ handler'[d] = "ungateRun"
      <4>1. CASE d = c
        BY <1>1, <1>6, <2>5, <4>1, Zenon DEF IsCurrent, IndInv, TypeOK
      <4>2. CASE d # c
        BY <1>1, <1>6, <2>5, <4>2 DEF IsCurrent, IndInv, TypeOK, Registry, Ids
      <4> QED BY <4>1, <4>2, Zenon
    <3>3. ASSUME NEW d \in Conns, Leaving(d)' PROVE connections'[IdOf[d]] = None
      BY <1>1, <1>5, <1>6, <2>0, <2>5, <3>3 DEF IndInv, TypeOK, Registry, Ids
    <3> QED BY <3>1, <3>2, <3>3, Zenon DEF Registry
  <2>7. GateCounts'
    BY <1>6, <2>5, Zenon DEF IndInv, GateCounts
  <2>8. Eviction'
    BY <1>1, <1>5, <1>6, <2>0, <2>5 DEF IndInv, TypeOK, Eviction, Registering, Ids
  <2>9. Stopping'
    BY <1>1, <1>6, Zenon DEF IndInv, Stopping
  <2> QED BY <2>2, <2>3, <2>4, <2>6, <2>7, <2>8, <2>9, Zenon DEF IndInv
<1>7. CASE /\ ~stopped /\ ~(gate[id] > 0) /\ connections[id] # None
           /\ gate' = [gate EXCEPT ![id] = @ + 1]
           /\ evicted' = [evicted EXCEPT ![c] = connections[id]]
           /\ handler' = [handler EXCEPT ![c] = "evict"]
           /\ UNCHANGED <<sock, connections>>
  <2>0. gate[id] = 0
    BY <1>1, <1>7 DEF IndInv, TypeOK
  <2>1. connections[id] \in Conns /\ IdOf[connections[id]] = id
    BY <1>1, <1>7 DEF IndInv, TypeOK, Registry
  <2>2. TypeOK' /\ LookedUp'
    BY <1>1, <1>7, <2>1 DEF IndInv, TypeOK, LookedUp, Sockets
  <2>3. Life(c)'
    BY <1>1, <1>2, <1>3, <1>7, Zenon DEF Life, SocketLife, IndInv, TypeOK
  <2>4. \A d \in Conns \ {c} : Life(d)'
    BY <1>1, <1>7, StillLives, Zenon DEF Still, IndInv, TypeOK
  <2>5. /\ \A d \in Conns \ {c} : handler'[d] = handler[d] /\ (Registering(d)' <=> Registering(d))
        /\ \A d \in Conns : (Serving(d)' <=> Serving(d)) /\ (Leaving(d)' <=> Leaving(d))
        /\ ~Registering(c) /\ Registering(c)' /\ handler'[c] = "evict"
    BY <1>1, <1>7, Zenon DEF Serving, Leaving, Registering, IndInv, TypeOK
  <2>6. Registry'
    BY <1>1, <1>7, <2>5, Zenon DEF IndInv, TypeOK, Registry, IsCurrent
  <2>7. GateCounts'
    <3>1. /\ \A x, y \in Conns : IdOf[x] = IdOf[y] /\ Registering(x)' /\ Registering(y)' => x = y
          /\ \A x, y \in Conns : IdOf[x] = IdOf[y] /\ Leaving(x)' /\ Leaving(y)' => x = y
      BY <1>5, <1>7, <2>0, <2>5, Zenon DEF IndInv, GateCounts
    <3>2. /\ gate'[id] = 1
          /\ \A i \in Ids \ {id} : gate'[i] = gate[i]
      BY <1>1, <1>7, <2>0 DEF IndInv, TypeOK
    <3>3. ~\E x \in Conns : IdOf[x] = id /\ Leaving(x)'
      BY <1>5, <1>7, <2>0, <2>5, Zenon
    <3>4. ASSUME NEW i \in Ids \ {id}
          PROVE  /\ (\E x \in Conns : IdOf[x] = i /\ Registering(x)')
                      <=> (\E x \in Conns : IdOf[x] = i /\ Registering(x))
                 /\ (\E x \in Conns : IdOf[x] = i /\ Leaving(x)') <=> (\E x \in Conns : IdOf[x] = i /\ Leaving(x))
      BY <2>5, Zenon
    <3>5. \E x \in Conns : IdOf[x] = id /\ Registering(x)'
      BY <2>5, Zenon
    <3> QED BY <3>1, <3>2, <3>3, <3>4, <3>5 DEF IndInv, GateCounts
  <2>8. Eviction'
    <3>1. ASSUME NEW d \in Conns \ {c}, Registering(d), handler[d] # "ungateRun"
          PROVE  evicted'[d] = evicted[d]
      BY <1>7, Zenon DEF IndInv, TypeOK
    <3>2. evicted'[c] = connections[id]
      BY <1>7, Zenon DEF IndInv, TypeOK
    <3> QED BY <1>1, <1>5, <1>7, <2>0, <2>1, <2>5, <3>1, <3>2 DEF IndInv, Eviction
  <2>9. Stopping'
    BY <1>1, <1>7, Zenon DEF IndInv, Stopping
  <2> QED BY <2>2, <2>3, <2>4, <2>6, <2>7, <2>8, <2>9, Zenon DEF IndInv
<1> QED BY <1>4, <1>6, <1>7, Zenon DEF Register, RegisterUnless

(* registerNewConnection, second critical section: the evicted socket is    *)
(* torn down, so nobody of the ID is leaving and the ID is free to take.    *)
LEMMA ReplaceStep ==
    ASSUME IndInv, NEW c \in Conns, Replace(c)
    PROVE  IndInv'
PROOF
<1> DEFINE id == IdOf[c]
<1>1. /\ handler[c] = "replace" /\ id \in Ids
      /\ UNCHANGED <<sock, gate, stopped, locked, evicted, torn, caller, shutdown, events>>
  BY Zenon DEF Replace, ReplaceUnless, Ids
<1>2. Sockets /\ Life(c) /\ SocketLife(c)
  BY Zenon DEF IndInv, TypeOK, Life
<1>3. ASSUME NEW pc \in {"ungateRefused", "ungateRun"}, handler' = [handler EXCEPT ![c] = pc]
      PROVE  /\ \A d \in Conns : Life(d)'
             /\ \A d \in Conns : /\ Serving(d)' <=> Serving(d)
                                 /\ Leaving(d)' <=> Leaving(d)
                                 /\ Registering(d)' <=> Registering(d)
             /\ \A d \in Conns \ {c} : handler'[d] = handler[d]
             /\ handler'[c] = pc /\ LookedUp' /\ GateCounts'
  <2>1. \A d \in Conns \ {c} : Still(d)
    BY <1>1, <1>3, Zenon DEF Still, IndInv, TypeOK
  <2>2. Life(c)'
    BY <1>1, <1>2, <1>3, Zenon DEF Life, SocketLife, Registering, IndInv, TypeOK
  <2>3. \A d \in Conns : /\ Serving(d)' <=> Serving(d)
                         /\ Leaving(d)' <=> Leaving(d)
                         /\ Registering(d)' <=> Registering(d)
    BY <1>1, <1>3, Zenon DEF Serving, Leaving, Registering, IndInv, TypeOK
  <2>4. GateCounts'
    BY <1>1, <2>3, Zenon DEF IndInv, GateCounts
  <2> QED BY <1>1, <1>3, <2>1, <2>2, <2>3, <2>4, StillLives, Zenon DEF IndInv, TypeOK, LookedUp
<1>4. CASE handler' = [handler EXCEPT ![c] = "ungateRefused"] /\ UNCHANGED connections
  <2>1. Steady
    BY <1>1, <1>3, <1>4, Zenon DEF Steady
  <2>2. OutOfShutdown
    BY <1>1, <1>4, Zenon DEF OutOfShutdown, IsCurrent
  <2>3. TypeOK'
    BY <1>1, <1>4, Zenon DEF IndInv, TypeOK, Sockets
  <2> QED BY <1>3, <1>4, <2>1, <2>2, <2>3, SteadyKeeps, ShutdownKept, Zenon DEF IndInv
<1>5. CASE /\ ~stopped /\ connections[id] = None
           /\ connections' = [connections EXCEPT ![id] = c]
           /\ handler' = [handler EXCEPT ![c] = "ungateRun"]
  <2>1. \A d \in Conns : IdOf[d] = id => ~Leaving(d)
    BY <1>1 DEF IndInv, Eviction, Life, Leaving, Registering
  <2>2. TypeOK'
    BY <1>1, <1>5, Zenon DEF IndInv, TypeOK, Sockets
  <2>3. ~Serving(c)
    BY <1>1, <1>2, Zenon DEF Life, Serving, Running
  <2>4. Registry'
    <3>1. \A i \in Ids : connections'[i] # None => IdOf[connections'[i]] = i
      BY <1>1, <1>5, Zenon DEF IndInv, TypeOK, Registry
    <3>2. ASSUME NEW d \in Conns PROVE IsCurrent(d)' <=> Serving(d)' \/ handler'[d] = "ungateRun"
      <4>1. CASE d = c
        BY <1>1, <1>3, <1>5, <4>1, Zenon DEF IsCurrent, IndInv, TypeOK
      <4>2. CASE d # c
        BY <1>1, <1>3, <1>5, <4>2 DEF IsCurrent, IndInv, TypeOK, Registry, Ids
      <4> QED BY <4>1, <4>2, Zenon
    <3>3. ASSUME NEW d \in Conns, Leaving(d)' PROVE connections'[IdOf[d]] = None
      BY <1>1, <1>3, <1>5, <2>1, <3>3 DEF IndInv, TypeOK, Registry, Ids
    <3> QED BY <3>1, <3>2, <3>3, Zenon DEF Registry
  <2>5. Eviction'
    <3>1. ASSUME NEW d \in Conns, Registering(d)', handler'[d] # "ungateRun"
          PROVE  d # c /\ IdOf[d] # id /\ IdOf[d] \in Ids /\ Registering(d) /\ handler[d] # "ungateRun"
      BY <1>1, <1>3, <1>5, <3>1 DEF IndInv, GateCounts, Registering, Ids
    <3>2. \A i \in Ids \ {id} : connections'[i] = connections[i]
      BY <1>5, Zenon DEF IndInv, TypeOK
    <3> QED BY <1>1, <1>3, <1>5, <3>1, <3>2 DEF IndInv, Eviction
  <2>6. Stopping'
    BY <1>1, <1>5, Zenon DEF IndInv, Stopping
  <2> QED BY <1>3, <1>5, <2>2, <2>4, <2>5, <2>6, Zenon DEF IndInv
<1> QED BY <1>4, <1>5, Zenon DEF Replace, ReplaceUnless

(* The deferred decrementGate: the registration is the only one of its ID,  *)
(* so the gate is left to a socket that leaves, if there is one.            *)
LEMMA UngateStep ==
    ASSUME IndInv, NEW c \in Conns, UngateRegistration(c)
    PROVE  IndInv'
PROOF
<1> DEFINE id == IdOf[c]
<1>1. /\ gate' = [gate EXCEPT ![id] = @ - 1] /\ id \in Ids
      /\ UNCHANGED <<connections, stopped, locked, evicted, torn, caller, shutdown, events>>
      /\ \/ /\ handler[c] = "ungateRun" /\ sock' = RunSocket(c)
            /\ handler' = [handler EXCEPT ![c] = "announce"]
         \/ /\ handler[c] = "ungateRefused" /\ sock' = sock
            /\ handler' = [handler EXCEPT ![c] = "refused"]
  BY Zenon DEF UngateRegistration, DecrementGate, Ids
<1>2. Sockets /\ Life(c) /\ SocketLife(c)
  BY Zenon DEF IndInv, TypeOK, Life
<1>3. /\ Registering(c) /\ sock[c].writer = "off" /\ sock[c].conn = "open" /\ sock[c].reader = "off"
      /\ ~sock[c].done /\ ~torn[c]
  BY <1>1, <1>2, Zenon DEF Life, SocketLife, Closed, Registering
<1>4. /\ Sockets' /\ Aside(c)
      /\ \/ sock' = sock /\ handler'[c] = "refused"
         \/ /\ sock'[c].writer = "select" /\ sock'[c].reader = "start" /\ handler'[c] = "announce"
            /\ sock'[c].conn = sock[c].conn /\ sock'[c].done = sock[c].done /\ sock'[c].closeQ = sock[c].closeQ
  BY <1>1, <1>2, RunEffect, Zenon DEF Aside, IndInv, TypeOK, Sockets
<1>5. Life(c)'
  BY <1>1, <1>2, <1>3, <1>4, Zenon DEF Life, SocketLife, Registering, Running, Closed
<1>6. \A d \in Conns \ {c} : Life(d)'
  BY <1>1, <1>4, StillLives, Zenon DEF Still, Aside, IndInv, TypeOK
<1>7. /\ \A d \in Conns \ {c} : /\ Serving(d)' <=> Serving(d)
                                /\ Registering(d)' <=> Registering(d)
                                /\ handler'[d] = handler[d]
      /\ \A d \in Conns : Leaving(d)' <=> Leaving(d)
      /\ ~Registering(c)' /\ handler'[c] # "ungateRun"
      /\ Serving(c)' <=> handler[c] = "ungateRun"
      /\ ~Serving(c)
  BY <1>1, <1>3, <1>4 DEF Aside, Serving, Leaving, Registering, IndInv, TypeOK, Running
<1>8. /\ gate[id] \in {1, 2}
      /\ gate'[id] = gate[id] - 1
      /\ \A i \in Ids \ {id} : gate'[i] = gate[i]
  <2>1. \E x \in Conns : IdOf[x] = id /\ Registering(x)
    BY <1>3, Zenon
  <2> QED BY <1>1, <2>1 DEF IndInv, TypeOK, GateCounts
<1>9. TypeOK' /\ LookedUp'
  <2>1. gate' \in [Ids -> Nat]
    BY <1>1, <1>8 DEF IndInv, TypeOK
  <2> QED BY <1>1, <1>4, <2>1 DEF IndInv, TypeOK, LookedUp
<1>10. Registry'
  BY <1>1, <1>7 DEF IndInv, Registry, IsCurrent
<1>11. GateCounts'
  <2>1. /\ \A x, y \in Conns : IdOf[x] = IdOf[y] /\ Registering(x)' /\ Registering(y)' => x = y
        /\ \A x, y \in Conns : IdOf[x] = IdOf[y] /\ Leaving(x)' /\ Leaving(y)' => x = y
    BY <1>7, Zenon DEF IndInv, GateCounts
  <2>2. ~\E x \in Conns : IdOf[x] = id /\ Registering(x)'
    BY <1>3, <1>7, Zenon DEF IndInv, GateCounts
  <2>3. \E x \in Conns : IdOf[x] = id /\ Registering(x)
    BY <1>3, Zenon
  <2>4. \A i \in Ids : (\E x \in Conns : IdOf[x] = i /\ Leaving(x)') <=> (\E x \in Conns : IdOf[x] = i /\ Leaving(x))
    BY <1>7, Zenon
  <2>5. \A i \in Ids \ {id} :
            (\E x \in Conns : IdOf[x] = i /\ Registering(x)') <=> (\E x \in Conns : IdOf[x] = i /\ Registering(x))
    BY <1>7, Zenon
  <2> QED BY <1>1, <1>8, <2>1, <2>2, <2>3, <2>4, <2>5 DEF IndInv, GateCounts
<1>12. Eviction'
  BY <1>1, <1>7, Zenon DEF IndInv, Eviction
<1>13. Stopping'
  <2>1. OutOfShutdown
    BY <1>1, <1>3, <1>4 DEF OutOfShutdown, Aside, IsCurrent
  <2> QED BY <2>1, ShutdownKept, Zenon DEF IndInv
<1> QED BY <1>5, <1>6, <1>9, <1>10, <1>11, <1>12, <1>13, Zenon DEF IndInv

(* handleDisconnect, first critical section: the socket is the registered   *)
(* one, so nobody of its ID is leaving and the gate counts it alone.        *)
LEMMA RemoveStep ==
    ASSUME IndInv, NEW c \in Conns, RemoveSocket(c)
    PROVE  IndInv'
PROOF
<1> DEFINE id == IdOf[c]
<1>1. Sockets /\ Life(c) /\ SocketLife(c) /\ sock[c].writer = "onClosed" /\ Serving(c)
  BY Zenon DEF RemoveSocket, IndInv, TypeOK, Life, Serving
<1>2. IsCurrent(c) /\ id \in Ids
  BY <1>1, Zenon DEF IndInv, Registry, Ids
<1>3. /\ gate' = [gate EXCEPT ![id] = @ + 1]
      /\ connections' = [connections EXCEPT ![id] = None]
      /\ sock' = [sock EXCEPT ![c].writer = "removed"]
      /\ UNCHANGED <<stopped, locked, handler, evicted, torn, caller, shutdown, events>>
  BY <1>2, Zenon DEF RemoveSocket
<1>4. /\ Sockets' /\ Aside(c) /\ sock'[c].writer = "removed"
      /\ sock'[c].reader = sock[c].reader /\ sock'[c].conn = sock[c].conn
      /\ sock'[c].done = sock[c].done /\ sock'[c].closeQ = sock[c].closeQ
  <2>1. "removed" \in WriterPCs
    BY Zenon DEF WriterPCs
  <2> QED BY <1>1, <1>3, <2>1, WriterEffect, Zenon
<1>5. Life(c)'
  BY <1>1, <1>3, <1>4, Zenon DEF Life, SocketLife, Registering, Running, Closed
<1>6. \A d \in Conns \ {c} : Life(d)'
  BY <1>3, <1>4, StillLives, Zenon DEF Still, Aside, IndInv
<1>7. TypeOK' /\ LookedUp'
  BY <1>2, <1>3, <1>4 DEF IndInv, TypeOK, LookedUp
<1>8. /\ \A d \in Conns \ {c} : (Serving(d)' <=> Serving(d)) /\ (Leaving(d)' <=> Leaving(d))
      /\ \A d \in Conns : Registering(d)' <=> Registering(d)
      /\ ~Leaving(c) /\ Leaving(c)' /\ ~Serving(c)'
  BY <1>1, <1>3, <1>4, Zenon DEF Aside, Serving, Leaving, Registering, Running
<1>9. \A d \in Conns : IdOf[d] = id => ~Leaving(d)
  BY <1>2, Zenon DEF IndInv, Registry, IsCurrent
<1>10. connections'[id] = None /\ \A i \in Ids \ {id} : connections'[i] = connections[i]
  BY <1>2, <1>3, Zenon DEF IndInv, TypeOK
<1>11. Registry'
  <2>1. \A i \in Ids : connections'[i] # None => IdOf[connections'[i]] = i
    BY <1>10, Zenon DEF IndInv, Registry
  <2>2. ASSUME NEW d \in Conns PROVE IsCurrent(d)' <=> Serving(d)' \/ handler'[d] = "ungateRun"
    <3>1. CASE d = c
      BY <1>1, <1>3, <1>8, <1>10, <3>1, Zenon DEF IsCurrent, Life
    <3>2. CASE d # c
      BY <1>2, <1>3, <1>8, <1>10, <3>2 DEF IsCurrent, IndInv, Registry, Ids
    <3> QED BY <3>1, <3>2, Zenon
  <2>3. ASSUME NEW d \in Conns, Leaving(d)' PROVE connections'[IdOf[d]] = None
    BY <1>8, <1>10, <2>3, Zenon DEF IndInv, Registry, Ids
  <2> QED BY <2>1, <2>2, <2>3, Zenon DEF Registry
<1>12. GateCounts'
  <2>1. /\ \A x, y \in Conns : IdOf[x] = IdOf[y] /\ Registering(x)' /\ Registering(y)' => x = y
        /\ \A x, y \in Conns : IdOf[x] = IdOf[y] /\ Leaving(x)' /\ Leaving(y)' => x = y
    BY <1>8, <1>9, Zenon DEF IndInv, GateCounts
  <2>2. /\ gate'[id] = gate[id] + 1
        /\ \A i \in Ids \ {id} : gate'[i] = gate[i]
    BY <1>2, <1>3, Zenon DEF IndInv, TypeOK
  <2>3. (\E x \in Conns : IdOf[x] = id /\ Leaving(x)') /\ ~(\E x \in Conns : IdOf[x] = id /\ Leaving(x))
    BY <1>8, <1>9, Zenon
  <2>4. \A i \in Ids : (\E x \in Conns : IdOf[x] = i /\ Registering(x)')
                      <=> (\E x \in Conns : IdOf[x] = i /\ Registering(x))
    BY <1>8, Zenon
  <2>5. \A i \in Ids \ {id} :
            (\E x \in Conns : IdOf[x] = i /\ Leaving(x)') <=> (\E x \in Conns : IdOf[x] = i /\ Leaving(x))
    BY <1>8, Zenon
  <2> QED BY <1>2, <2>1, <2>2, <2>3, <2>4, <2>5 DEF IndInv, GateCounts
<1>13. Eviction'
  <2>1. ASSUME NEW d \in Conns, Registering(d), handler[d] # "ungateRun", IdOf[d] = id
        PROVE  evicted[d] = c
    BY <1>2, <2>1 DEF IndInv, Eviction, IsCurrent
  <2>2. ASSUME NEW d \in Conns, Registering(d), handler[d] # "ungateRun"
        PROVE  IdOf[d] \in Ids /\ connections'[IdOf[d]] \in {evicted[d], None}
    BY <1>10, <2>2 DEF IndInv, Eviction, Ids
  <2> QED BY <1>3, <1>8, <2>1, <2>2, Zenon DEF IndInv, Eviction
<1>14. Stopping'
  <2>1. \A d \in Conns : IsCurrent(d)' => d # c /\ IsCurrent(d)
    BY <1>10, Zenon DEF IsCurrent, IndInv, Ids
  <2> QED BY <1>3, <1>4, <2>1, Zenon DEF IndInv, Stopping, Aside
<1> QED BY <1>5, <1>6, <1>7, <1>11, <1>12, <1>13, <1>14, Zenon DEF IndInv

\* handleDisconnect, second critical section and callback: nothing took the ID meanwhile.
LEMMA EmitStep ==
    ASSUME IndInv, NEW c \in Conns, CheckSuperseded(c) \/ EmitDisconnect(c)
    PROVE  IndInv'
PROOF
<1>1. /\ Sockets /\ Life(c) /\ SocketLife(c)
      /\ Leaving(c) /\ connections[IdOf[c]] = None
  BY Zenon DEF CheckSuperseded, EmitDisconnect, IndInv, TypeOK, Life, Leaving, Registry
<1>2. /\ UNCHANGED <<registry, handler, evicted, torn, caller, shutdown, announced>>
      /\ \/ sock' = [sock EXCEPT ![c].writer = "emit"] /\ gone' = gone
         \/ sock' = [sock EXCEPT ![c].writer = "ungate"] /\ gone' = gone \cup {c}
  BY <1>1, Zenon DEF CheckSuperseded, EmitDisconnect
<1>3. /\ Sockets' /\ Aside(c)
      /\ sock'[c].writer = "emit" \/ (sock'[c].writer = "ungate" /\ c \in gone')
      /\ sock'[c].reader = sock[c].reader /\ sock'[c].conn = sock[c].conn
      /\ sock'[c].done = sock[c].done /\ sock'[c].closeQ = sock[c].closeQ
  <2>1. "emit" \in WriterPCs /\ "ungate" \in WriterPCs
    BY Zenon DEF WriterPCs
  <2> QED BY <1>1, <1>2, <2>1, WriterEffect, Zenon
<1>4. Life(c)'
  BY <1>1, <1>2, <1>3, Zenon DEF Life, SocketLife, Leaving, Registering, Running, Closed
<1>5. \A d \in Conns \ {c} : Still(d)
  BY <1>2, <1>3, Zenon DEF Still, Aside
<1>6. TypeOK' /\ LookedUp'
  BY <1>2, <1>3, Zenon DEF IndInv, TypeOK, LookedUp
<1>7. Steady
  BY <1>1, <1>2, <1>3, Zenon DEF Steady, Aside, Serving, Leaving, Registering, Running
<1>8. OutOfShutdown
  BY <1>2, <1>3, Zenon DEF OutOfShutdown, Aside, IsCurrent
<1> QED BY <1>4, <1>5, <1>6, <1>7, <1>8, Assemble, Zenon

\* handleDisconnect, deferred calls: the socket is the only one of its ID that leaves.
LEMMA FinishStep ==
    ASSUME IndInv, NEW c \in Conns, FinishDisconnect(c)
    PROVE  IndInv'
PROOF
<1> DEFINE id == IdOf[c]
<1>1. /\ Sockets /\ Life(c) /\ SocketLife(c) /\ Leaving(c) /\ sock[c].writer = "ungate"
      /\ connections[id] = None /\ id \in Ids
  BY Zenon DEF FinishDisconnect, IndInv, TypeOK, Life, Leaving, Registry, Ids
<1>2. /\ gate' = [gate EXCEPT ![id] = @ - 1] /\ torn' = [torn EXCEPT ![c] = TRUE]
      /\ sock' = [sock EXCEPT ![c].writer = "exit"]
      /\ UNCHANGED <<connections, stopped, locked, handler, evicted, caller, shutdown, events>>
  BY Zenon DEF FinishDisconnect, DecrementGate
<1>3. /\ Sockets' /\ Aside(c) /\ sock'[c].writer = "exit"
      /\ sock'[c].reader = sock[c].reader /\ sock'[c].conn = sock[c].conn
      /\ sock'[c].done = sock[c].done /\ sock'[c].closeQ = sock[c].closeQ
  <2>1. "exit" \in WriterPCs
    BY Zenon DEF WriterPCs
  <2> QED BY <1>1, <1>2, <2>1, WriterEffect, Zenon
<1>4. torn'[c] /\ \A d \in Conns \ {c} : torn'[d] = torn[d]
  BY <1>2, Zenon DEF IndInv, TypeOK
<1>5. Life(c)'
  BY <1>1, <1>2, <1>3, <1>4, Zenon DEF Life, SocketLife, Registering, Running, Closed
<1>6. \A d \in Conns \ {c} : Life(d)'
  BY <1>2, <1>3, <1>4, StillLives, Zenon DEF Still, Aside, IndInv
<1>7. /\ \A d \in Conns \ {c} : Leaving(d)' <=> Leaving(d)
      /\ \A d \in Conns : (Serving(d)' <=> Serving(d)) /\ (Registering(d)' <=> Registering(d))
      /\ ~Leaving(c)'
  BY <1>1, <1>2, <1>3, Zenon DEF Aside, Serving, Leaving, Registering, Running
<1>8. /\ gate[id] \in {1, 2}
      /\ gate'[id] = gate[id] - 1
      /\ \A i \in Ids \ {id} : gate'[i] = gate[i]
  <2>1. \E x \in Conns : IdOf[x] = id /\ Leaving(x)
    BY <1>1, Zenon
  <2> QED BY <1>1, <1>2, <2>1 DEF IndInv, TypeOK, GateCounts
<1>9. TypeOK' /\ LookedUp'
  <2>1. gate' \in [Ids -> Nat]
    BY <1>2, <1>8 DEF IndInv, TypeOK
  <2>2. torn' \in [Conns -> BOOLEAN]
    BY <1>2, Zenon DEF IndInv, TypeOK
  <2> QED BY <1>2, <1>3, <2>1, <2>2, Zenon DEF IndInv, TypeOK, LookedUp
<1>10. Registry'
  BY <1>2, <1>7, Zenon DEF IndInv, Registry, IsCurrent
<1>11. GateCounts'
  <2>1. /\ \A x, y \in Conns : IdOf[x] = IdOf[y] /\ Registering(x)' /\ Registering(y)' => x = y
        /\ \A x, y \in Conns : IdOf[x] = IdOf[y] /\ Leaving(x)' /\ Leaving(y)' => x = y
    BY <1>7, Zenon DEF IndInv, GateCounts
  <2>2. (\E x \in Conns : IdOf[x] = id /\ Leaving(x)) /\ ~(\E x \in Conns : IdOf[x] = id /\ Leaving(x)')
    BY <1>1, <1>7, Zenon DEF IndInv, GateCounts
  <2>3. \A i \in Ids : (\E x \in Conns : IdOf[x] = i /\ Registering(x)')
                      <=> (\E x \in Conns : IdOf[x] = i /\ Registering(x))
    BY <1>7, Zenon
  <2>4. \A i \in Ids \ {id} :
            (\E x \in Conns : IdOf[x] = i /\ Leaving(x)') <=> (\E x \in Conns : IdOf[x] = i /\ Leaving(x))
    BY <1>7, Zenon
  <2> QED BY <1>1, <1>8, <2>1, <2>2, <2>3, <2>4 DEF IndInv, GateCounts
<1>12. Eviction'
  BY <1>2, <1>4, <1>7 DEF IndInv, Eviction
<1>13. Stopping'
  <2>1. OutOfShutdown
    BY <1>2, <1>3, Zenon DEF OutOfShutdown, Aside, IsCurrent
  <2> QED BY <2>1, ShutdownKept, Zenon DEF IndInv
<1> QED BY <1>5, <1>6, <1>9, <1>10, <1>11, <1>12, <1>13, Zenon DEF IndInv

\* Every step of every goroutine keeps the invariant.
LEMMA StepIndInv == IndInv /\ [Next]_vars => IndInv'
PROOF
<1> SUFFICES ASSUME IndInv, [Next]_vars PROVE IndInv'
  BY Zenon
<1>1. ASSUME NEW c \in Conns, AcceptRequest(c) \/ WsHandler(c) PROVE IndInv'
  BY <1>1, HandlerStep, RegisterStep, ReplaceStep, UngateStep, Zenon DEF WsHandler
<1>2. ASSUME NEW c \in Conns, WriteGoroutine(c) \/ ReadGoroutine(c) \/ NetworkLoss(c) PROVE IndInv'
  BY <1>2, PumpStep, RemoveStep, EmitStep, FinishStep, Zenon DEF WriteGoroutine, ReadGoroutine, HandleDisconnect
<1>3. ASSUME NEW a \in Callers, Caller(a) PROVE IndInv'
  BY <1>3, CallerStep, Zenon
<1>4. CASE CallShutdown \/ ShutdownEnds \/ StopConnections
  BY <1>4, ShutdownStep, Zenon
<1>5. CASE UNCHANGED vars
  <2>1. UNCHANGED <<sock, connections, gate, stopped, locked, handler, evicted, torn, caller,
                    stopper, hook, toClose, announced, gone>>
    BY <1>5, Zenon DEF vars
  <2>2. Steady /\ OutOfShutdown /\ \A d \in Conns : Still(d)
    BY <2>1, Zenon DEF Steady, OutOfShutdown, Still, Serving, Leaving, Registering, IsCurrent
  <2>3. TypeOK' /\ LookedUp'
    BY <2>1, Zenon DEF IndInv, TypeOK, LookedUp, Sockets
  <2>4. \A d \in Conns : Life(d)'
    BY <2>2, StillLives, Zenon DEF IndInv
  <2> QED BY <2>2, <2>3, <2>4, SteadyKeeps, ShutdownKept, Zenon DEF IndInv
<1> QED BY <1>1, <1>2, <1>3, <1>4, <1>5, Zenon DEF Next, Goroutines, Finished, StayWedged

\* A server that has served nobody yet satisfies the invariant.
LEMMA InitIndInv == Init => IndInv
PROOF
<1> SUFFICES ASSUME Init PROVE IndInv
  BY Zenon
<1>1. \A c \in Conns : Unborn(c) \in SocketType
  BY SocketAssumption DEF Unborn, SocketType, OutCap, ReaderPCs, WriterPCs
<1>2. Sockets
  BY <1>1, Zenon DEF Init, InitSockets, Sockets
<1>3. \A c \in Conns : /\ sock[c].writer = "off" /\ sock[c].reader = "off" /\ ~sock[c].done
                       /\ handler[c] = "idle" /\ ~torn[c] /\ connections[IdOf[c]] = None
  BY Zenon DEF Init, InitSockets, Unborn, Ids
<1>4. TypeOK
  BY <1>2, Zenon DEF Init, TypeOK
<1>5. \A c \in Conns : Life(c)
  BY <1>3, Zenon DEF Init, Life, SocketLife, Registering, Running, Closed
<1>6. \A c \in Conns : ~Serving(c) /\ ~Leaving(c) /\ ~Registering(c) /\ ~IsCurrent(c)
  BY <1>3, Zenon DEF Serving, Leaving, Registering, IsCurrent, Running
<1>7. Registry /\ GateCounts /\ Eviction
  BY <1>3, <1>6 DEF Init, Registry, GateCounts, Eviction
<1>8. Stopping /\ LookedUp
  BY Zenon DEF Init, Stopping, LookedUp
<1> QED BY <1>4, <1>5, <1>7, <1>8, Zenon DEF IndInv

(* In every reachable state the registry holds exactly the sockets being    *)
(* served, the gate of an ID counts the goroutines that hold it, and a      *)
(* registration that evicts waits for the only socket in its way.           *)
THEOREM IndInvHolds == Spec => []IndInv
PROOF BY InitIndInv, StepIndInv, PTL DEF Spec

\* The sockets, the registry, the gate and every goroutine of the server stay in their ranges.
THEOREM TypeCorrect == Spec => []TypeOK
PROOF
<1>1. IndInv => TypeOK
  BY Zenon DEF IndInv
<1> QED BY <1>1, IndInvHolds, PTL

(* registerNewConnection and handleDisconnect: while a socket is registered *)
(* under an ID, no other socket of the ID is in its disconnect callback.    *)
THEOREM NoOverlapHolds == Spec => []NoOverlap
PROOF
<1>1. IndInv => NoOverlap
  BY DEF IndInv, Registry, NoOverlap, TearingDown, Leaving, IsCurrent
<1> QED BY <1>1, IndInvHolds, PTL

(* handleDisconnect: when the disconnect of a socket is reported, every     *)
(* other socket of its ID that was ever announced is already gone.          *)
THEOREM NoLateDisconnectHolds == Spec => NoLateDisconnect
PROOF
<1> DEFINE A == \A c \in gone' \ gone : \A d \in announced \ {c} : IdOf[d] = IdOf[c] => d \in gone
<1>1. IndInv /\ [Next]_vars => [A]_vars
  <2> SUFFICES ASSUME IndInv, Next, NEW c \in gone' \ gone, NEW d \in announced \ {c}, IdOf[d] = IdOf[c]
               PROVE  d \in gone
    BY Zenon
  <2>1. c \in Conns /\ sock[c].writer = "emit"
    <3>1. PICK e \in Conns : EmitDisconnect(e)
      BY Zenon DEF Next, Goroutines, AcceptRequest, RefuseRequest, Upgrade, WsHandler, Register, RegisterUnless,
             EvictOld, AwaitTeardown, Replace, ReplaceUnless, UngateRegistration, Announce, WriteGoroutine,
             ReportWriteError, HandleDisconnect, RemoveSocket, CheckSuperseded, FinishDisconnect, ReadGoroutine,
             HandleMessage, NetworkLoss, Caller, LookUp, StopConnectionCall, WriteCall, CallShutdown, ShutdownEnds,
             StopConnections, HookLocks, HookCloses, HookUnlocks, Finished, StayWedged, vars
    <3> QED BY <3>1, Zenon DEF EmitDisconnect
  <2>2. d \in Conns /\ Life(d) /\ handler[d] = "served"
    BY Zenon DEF IndInv, TypeOK, Life
  <2>3. connections[IdOf[c]] = None /\ Leaving(c)
    BY <2>1, Zenon DEF IndInv, Registry, Leaving
  <2>4. ~Serving(d) /\ ~Leaving(d)
    BY <2>1, <2>2, <2>3 DEF IndInv, Registry, GateCounts, IsCurrent
  <2>5. sock[d].writer \in WriterPCs \ {"off"}
    BY <2>2, Zenon DEF IndInv, TypeOK, Sockets, SocketType, Life
  <2>6. sock[d].writer = "exit"
    BY <2>4, <2>5, Zenon DEF Serving, Leaving, Running, WriterPCs
  <2> QED BY <2>2, <2>6, Zenon DEF Life
<1> QED BY <1>1, IndInvHolds, PTL DEF Spec, NoLateDisconnect

(* Once no goroutine has a step to take, a registered socket has both pumps *)
(* running on a working connection, a closed one is torn down, and no gate  *)
(* is left up: its ID can connect again.                                    *)
LEMMA RestIsClean == IndInv => NoZombie
PROOF
<1> SUFFICES ASSUME IndInv, AtRest
             PROVE  /\ \A c \in Conns : IsCurrent(c) =>
                           sock[c].writer = "select" /\ sock[c].reader = "read" /\ sock[c].peer = "up"
                    /\ \A c \in Conns : sock[c].done => torn[c]
                    /\ \A i \in Ids : gate[i] = 0
  BY Zenon DEF NoZombie
<1>1. ASSUME NEW c \in Conns, IsCurrent(c)
      PROVE  sock[c].writer = "select" /\ sock[c].reader = "read" /\ sock[c].peer = "up"
  <2>1. sock[c].writer = "select"
    BY <1>1, Zenon DEF AtRest, IndInv, Registry, Serving, Running
  <2>2. sock[c].forceQ = 0
    BY <2>1 DEF AtRest, IndInv, TypeOK, Sockets, SocketType
  <2> QED BY <2>1, <2>2 DEF AtRest, IndInv, Life, SocketLife
<1>2. ASSUME NEW c \in Conns, sock[c].done PROVE torn[c]
  BY <1>2, Zenon DEF AtRest, IndInv, Life, SocketLife, Closed
<1>3. \A c \in Conns : ~Registering(c) /\ ~Leaving(c)
  BY Zenon DEF AtRest, Registering, Leaving
<1>4. \A i \in Ids : gate[i] = 0
  BY <1>3 DEF IndInv, GateCounts
<1> QED BY <1>1, <1>2, <1>4, Zenon

(* No connection is left half-dead: what is registered once everything is   *)
(* at rest works, and no ID is locked out.                                  *)
THEOREM NoZombieHolds == Spec => []NoZombie
PROOF BY RestIsClean, IndInvHolds, PTL

(* Stop: once the hook has run and everything is at rest, no socket is      *)
(* registered and every announced one was reported gone.                    *)
THEOREM StopClosesAllHolds == Spec => []StopClosesAll
PROOF
<1>1. IndInv => StopClosesAll
  <2> SUFFICES ASSUME IndInv, AtRest, hook = "done"
               PROVE  /\ \A i \in Ids : connections[i] = None
                      /\ announced \subseteq gone
    BY Zenon DEF StopClosesAll
  <2>1. ASSUME NEW c \in Conns, IsCurrent(c) PROVE FALSE
    <3>1. sock[c].writer = "select"
      BY <2>1, RestIsClean, Zenon DEF NoZombie
    <3>2. sock[c].closeQ = 1
      BY <2>1, <3>1, Zenon DEF IndInv, Stopping
    <3> QED BY <3>1, <3>2 DEF AtRest, IndInv, TypeOK, Sockets, SocketType
  <2>2. \A i \in Ids : connections[i] = None
    BY <2>1 DEF IndInv, TypeOK, Registry, IsCurrent
  <2>3. ASSUME NEW c \in announced PROVE c \in gone
    <3>1. c \in Conns /\ Life(c) /\ ~IsCurrent(c)
      BY <2>1, Zenon DEF IndInv, TypeOK
    <3>2. sock[c].writer # "select"
      BY <3>1, Zenon DEF IndInv, Registry, Serving, Running
    <3> QED BY <3>1, <3>2, Zenon DEF AtRest, Life
  <2> QED BY <2>2, <2>3, Zenon
<1> QED BY <1>1, IndInvHolds, PTL

=============================================================================

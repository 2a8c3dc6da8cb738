-------------------------- MODULE WebSocketProofs --------------------------
(* Lemmas about the operations of one websocket, for the proofs about the   *)
(* server and the client that wrap it.                                      *)
EXTENDS WebSocket, TLAPS

USE SocketAssumption

\* A socket record stays one when a field is assigned a value of its range.
LEMMA FieldTypes ==
    ASSUME NEW s \in SocketType
    PROVE  /\ \A v \in WriterPCs : [s EXCEPT !.writer = v] \in SocketType
           /\ \A v \in ReaderPCs : [s EXCEPT !.reader = v] \in SocketType
           /\ \A v \in {"none", "open", "nil"} : [s EXCEPT !.conn = v] \in SocketType
           /\ \A v \in {"up", "down"} : [s EXCEPT !.peer = v] \in SocketType
           /\ \A v \in {"nil", "err"} : [s EXCEPT !.cause = v] \in SocketType
           /\ \A v \in 0..1 : /\ [s EXCEPT !.closeQ = v] \in SocketType
                              /\ [s EXCEPT !.forceQ = v] \in SocketType
                              /\ [s EXCEPT !.pingQ = v] \in SocketType
           /\ \A v \in 0..OutCap : [s EXCEPT !.outQ = v] \in SocketType
           /\ \A v \in Nat : [s EXCEPT !.input = v] \in SocketType
           /\ \A v \in SUBSET Actors : [s EXCEPT !.inside = v] \in SocketType
           /\ [s EXCEPT !.done = TRUE] \in SocketType
PROOF BY Zenon DEF SocketType

USE DEF Sockets

\* A step of the socket c, or of a caller inside it, leaves the other sockets alone.
Aside(c) == \A d \in Conns \ {c} : sock'[d] = sock[d]

\* A socket is assigned as a whole.
LEMMA Assigned ==
    ASSUME Sockets, NEW c \in Conns, NEW s \in SocketType, sock' = [sock EXCEPT ![c] = s]
    PROVE  Sockets' /\ Aside(c) /\ sock'[c] = s
PROOF BY Zenon DEF Aside

\* run() spawns both pumps.
LEMMA RunEffect ==
    ASSUME Sockets, NEW c \in Conns, sock' = RunSocket(c)
    PROVE  /\ Sockets' /\ Aside(c)
           /\ sock'[c].writer = "select" /\ sock'[c].reader = "start"
           /\ sock'[c].conn = sock[c].conn /\ sock'[c].done = sock[c].done /\ sock'[c].closeQ = sock[c].closeQ
PROOF
<1>1. "start" \in ReaderPCs /\ "select" \in WriterPCs
  BY Zenon DEF ReaderPCs, WriterPCs
<1>2. [[sock[c] EXCEPT !.reader = "start"] EXCEPT !.writer = "select"] \in SocketType
  BY <1>1, FieldTypes, Zenon
<1>3. sock' = [sock EXCEPT ![c] = [[sock[c] EXCEPT !.reader = "start"] EXCEPT !.writer = "select"]]
  BY Zenon DEF RunSocket
<1>4. Sockets'
  BY <1>2, <1>3, Zenon
<1> QED BY <1>4 DEF RunSocket, Aside, SocketType

\* newWebSocket only opens the connection.
LEMMA NewEffect ==
    ASSUME Sockets, NEW c \in Conns, sock' = NewWebSocket(c)
    PROVE  /\ Sockets' /\ Aside(c) /\ sock'[c].conn = "open"
           /\ sock'[c].writer = sock[c].writer /\ sock'[c].reader = sock[c].reader
           /\ sock'[c].done = sock[c].done /\ sock'[c].closeQ = sock[c].closeQ
PROOF BY DEF NewWebSocket, Aside, SocketType

\* The write goroutine moves on inside the callbacks of its owner.
LEMMA WriterEffect ==
    ASSUME Sockets, NEW c \in Conns, NEW v \in WriterPCs, sock' = [sock EXCEPT ![c].writer = v]
    PROVE  /\ Sockets' /\ Aside(c) /\ sock'[c].writer = v
           /\ sock'[c].reader = sock[c].reader /\ sock'[c].conn = sock[c].conn
           /\ sock'[c].done = sock[c].done /\ sock'[c].closeQ = sock[c].closeQ
PROOF BY DEF Aside, SocketType

\* After onError the write goroutine goes to cleanup.
LEMMA WriteErrorEffect ==
    ASSUME Sockets, NEW c \in Conns, sock' = AfterWriteError(c)
    PROVE  /\ Sockets' /\ Aside(c) /\ sock'[c].writer = "cleanup"
           /\ sock'[c].reader = sock[c].reader /\ sock'[c].conn = sock[c].conn
           /\ sock'[c].done = sock[c].done /\ sock'[c].closeQ = sock[c].closeQ
PROOF
<1> DEFINE cause == IF sock[c].writer = "failed" THEN "err" ELSE sock[c].cause
<1>1. "cleanup" \in WriterPCs /\ cause \in {"nil", "err"}
  BY Zenon DEF WriterPCs, SocketType
<1> HIDE DEF cause
<1>2. [[sock[c] EXCEPT !.writer = "cleanup"] EXCEPT !.cause = cause] \in SocketType
  BY <1>1, FieldTypes, Zenon
<1>3. sock' = [sock EXCEPT ![c] = [[sock[c] EXCEPT !.writer = "cleanup"] EXCEPT !.cause = cause]]
  BY Zenon DEF AfterWriteError, cause
<1>4. Sockets'
  BY <1>2, <1>3, Zenon
<1> QED BY <1>4 DEF AfterWriteError, Aside, SocketType

\* The network is lost, or a message has been handled: neither is noticed by the writer.
LEMMA QuietEffect ==
    ASSUME Sockets, NEW c \in Conns,
           PeerGoes(c) \/ (sock[c].reader = "onMessage" /\ sock' = AfterMessage(c))
    PROVE  /\ Sockets' /\ Aside(c)
           /\ sock'[c].writer = sock[c].writer /\ sock'[c].conn = sock[c].conn
           /\ sock'[c].done = sock[c].done /\ sock'[c].closeQ = sock[c].closeQ /\ sock'[c].cause = sock[c].cause
           /\ SocketLife(c) => SocketLife(c)'
PROOF
<1>1. CASE PeerGoes(c)
  BY <1>1 DEF PeerGoes, Aside, SocketType, SocketLife
<1>2. CASE sock[c].reader = "onMessage" /\ sock' = AfterMessage(c)
  BY <1>2 DEF AfterMessage, Aside, SocketType, ReaderPCs, SocketLife
<1> QED BY <1>1, <1>2, Zenon

\* Write and Close put a token into their channel, wait, or give up; Close gives up only on a
\* socket that is closed or closing.
LEMMA CallEffect ==
    ASSUME Sockets, NEW c \in Conns, NEW a \in Actors,
           \/ CloseReturns(a, c) \/ CloseWaits(a, c)
           \/ WriteReturns(a, c) \/ WriteWaits(a, c)
    PROVE  /\ Sockets' /\ Aside(c)
           /\ sock'[c].writer = sock[c].writer /\ sock'[c].reader = sock[c].reader
           /\ sock'[c].conn = sock[c].conn /\ sock'[c].done = sock[c].done
           /\ sock'[c].forceQ = sock[c].forceQ
           /\ sock'[c].closeQ \in {sock[c].closeQ, 1}
           /\ CloseReturns(a, c) => sock'[c].closeQ = 1 \/ ~IsOpen(c) \/ sock[c].done
PROOF
<1> DEFINE Out(t) == [t EXCEPT !.inside = sock[c].inside \ {a}]
           In(t) == [t EXCEPT !.inside = sock[c].inside \cup {a}]
<1>1. /\ sock[c] \in SocketType /\ sock[c].inside \ {a} \in SUBSET Actors
      /\ sock[c].inside \cup {a} \in SUBSET Actors
  BY Zenon DEF SocketType
<1>2. ASSUME NEW t \in SocketType,
             /\ t.writer = sock[c].writer /\ t.reader = sock[c].reader /\ t.conn = sock[c].conn
             /\ t.done = sock[c].done /\ t.forceQ = sock[c].forceQ /\ t.inside = sock[c].inside,
             sock' = [sock EXCEPT ![c] = Out(t)] \/ sock' = [sock EXCEPT ![c] = In(t)]
      PROVE  /\ Sockets' /\ Aside(c)
             /\ sock'[c].writer = sock[c].writer /\ sock'[c].reader = sock[c].reader
             /\ sock'[c].conn = sock[c].conn /\ sock'[c].done = sock[c].done
             /\ sock'[c].forceQ = sock[c].forceQ /\ sock'[c].closeQ = t.closeQ
  <2>1. Out(t) \in SocketType /\ In(t) \in SocketType
    BY <1>1, FieldTypes, Zenon
  <2>2. Sockets' /\ Aside(c) /\ sock'[c] \in {Out(t), In(t)}
    BY <1>2, <2>1, Assigned, Zenon
  <2> QED BY <1>2, <2>2 DEF SocketType
<1> HIDE DEF Out, In
<1>3. CASE CloseReturns(a, c)
  <2> DEFINE t == [sock[c] EXCEPT !.closeQ = 1]
  <2>1. /\ t \in SocketType /\ t.closeQ = 1
        /\ t.writer = sock[c].writer /\ t.reader = sock[c].reader /\ t.conn = sock[c].conn
        /\ t.done = sock[c].done /\ t.forceQ = sock[c].forceQ /\ t.inside = sock[c].inside
    <3>1. 1 \in 0..1
      OBVIOUS
    <3>2. t \in SocketType
      BY <1>1, <3>1, FieldTypes, Zenon
    <3> QED BY <1>1, <3>2, Zenon DEF SocketType
  <2>2. CASE ~IsOpen(c) /\ sock' = sock
    BY <2>2, Zenon DEF Aside
  <2>3. CASE sock' = [[sock EXCEPT ![c].closeQ = 1] EXCEPT ![c].inside = @ \ {a}]
    <3>1. sock' = [sock EXCEPT ![c] = Out(t)]
      BY <1>1, <2>1, <2>3, Zenon DEF Out
    <3> HIDE DEF t
    <3> QED BY <1>2, <2>1, <3>1, Zenon
  <2>4. CASE sock[c].done /\ sock' = [sock EXCEPT ![c].inside = @ \ {a}]
    <3>1. sock' = [sock EXCEPT ![c] = Out(sock[c])]
      BY <2>4, Zenon DEF Out
    <3> QED BY <1>1, <1>2, <2>4, <3>1, Zenon
  <2> QED BY <1>3, <2>2, <2>3, <2>4, Zenon DEF CloseReturns, CallReturns
<1>4. CASE WriteReturns(a, c) /\ ~CloseReturns(a, c)
  <2> DEFINE t == [sock[c] EXCEPT !.outQ = sock[c].outQ + 1]
  <2>1. CASE sock' = sock
    BY <1>4, <2>1, Zenon DEF Aside
  <2>2. CASE sock[c].outQ < OutCap /\ sock' = [[sock EXCEPT ![c].outQ = @ + 1] EXCEPT ![c].inside = @ \ {a}]
    <3>1. sock[c].outQ + 1 \in 0..OutCap
      BY <1>1, <2>2 DEF SocketType, OutCap
    <3>2. /\ t \in SocketType /\ t.closeQ = sock[c].closeQ
          /\ t.writer = sock[c].writer /\ t.reader = sock[c].reader /\ t.conn = sock[c].conn
          /\ t.done = sock[c].done /\ t.forceQ = sock[c].forceQ /\ t.inside = sock[c].inside
      <4>1. t \in SocketType
        BY <1>1, <3>1, FieldTypes, Zenon
      <4> QED BY <1>1, <4>1, Zenon DEF SocketType
    <3>3. sock' = [sock EXCEPT ![c] = Out(t)]
      BY <1>1, <2>2, <3>2, Zenon DEF Out
    <3> HIDE DEF t
    <3> QED BY <1>2, <1>4, <3>2, <3>3, Zenon
  <2>3. CASE sock' = [sock EXCEPT ![c].inside = @ \ {a}]
    <3>1. sock' = [sock EXCEPT ![c] = Out(sock[c])]
      BY <2>3, Zenon DEF Out
    <3> QED BY <1>1, <1>2, <1>4, <3>1, Zenon
  <2> QED BY <1>4, <2>1, <2>2, <2>3, Zenon DEF WriteReturns, CallReturns
<1>5. CASE (CloseWaits(a, c) \/ WriteWaits(a, c)) /\ ~CloseReturns(a, c)
  <2>1. sock' = [sock EXCEPT ![c] = In(sock[c])]
    BY <1>5, Zenon DEF CloseWaits, WriteWaits, CallWaits, In
  <2> QED BY <1>1, <1>2, <1>5, <2>1, Zenon
<1> QED BY <1>3, <1>4, <1>5, Zenon

\* readPump moves no field of the writer's but forceQ.
LEMMA ReadPumpEffect ==
    ASSUME Sockets, NEW c \in Conns, ReadPump(c)
    PROVE  /\ Sockets' /\ Aside(c)
           /\ sock'[c].writer = sock[c].writer /\ sock'[c].conn = sock[c].conn
           /\ sock'[c].done = sock[c].done /\ sock'[c].closeQ = sock[c].closeQ /\ sock'[c].cause = sock[c].cause
           /\ SocketLife(c) => SocketLife(c)'
PROOF
<1>1. CASE ReaderCheck(c)
  <2> DEFINE force == IF IsOpen(c) THEN 1 ELSE sock[c].forceQ
             s == [[[sock[c] EXCEPT !.reader = "exit"] EXCEPT !.input = 0] EXCEPT !.forceQ = force]
  <2>1. force \in 0..1 /\ "exit" \in ReaderPCs /\ 0 \in Nat /\ sock[c] \in SocketType
    BY DEF SocketType, ReaderPCs
  <2> HIDE DEF force
  <2>2. s \in SocketType
    BY <2>1, FieldTypes, Zenon
  <2>3. sock' = [sock EXCEPT ![c] = s]
    BY <1>1, Zenon DEF ReaderCheck, force
  <2>4. /\ s.reader = "exit" /\ s.forceQ = force /\ s.writer = sock[c].writer /\ s.done = sock[c].done
        /\ s.conn = sock[c].conn /\ s.closeQ = sock[c].closeQ /\ s.cause = sock[c].cause
    BY <2>1, Zenon DEF SocketType
  <2>5. Sockets' /\ Aside(c) /\ sock'[c] = s
    BY <2>2, <2>3, Assigned, Zenon
  <2> QED BY <1>1, <2>4, <2>5 DEF force, ReaderCheck, IsOpen, SocketLife, Running, Closed
<1> USE DEF Aside, SocketType, ReaderPCs
<1>2. CASE ReaderStart(c)
  BY <1>2 DEF ReaderStart, IsOpen, SocketLife, Running, Closed
<1>3. CASE ReaderMessage(c)
  BY <1>3 DEF ReaderMessage, SocketLife
<1>4. CASE ReaderPing(c)
  BY <1>4 DEF ReaderPing, SocketLife
<1>5. CASE OnPing(c)
  BY <1>5 DEF OnPing, SocketLife
<1>6. CASE ReaderFails(c)
  BY <1>6 DEF ReaderFails, SocketLife
<1> QED BY <1>1, <1>2, <1>3, <1>4, <1>5, <1>6, Zenon DEF ReadPump

\* writePump leaves its select for good, closes done and then the connection.
LEMMA WritePumpEffect ==
    ASSUME Sockets, NEW c \in Conns, WritePump(c)
    PROVE  /\ Sockets' /\ Aside(c)
           /\ sock[c].writer \in Running /\ sock'[c].writer \in Running \cup {"onClosed"}
           /\ sock'[c].writer = "select" => sock[c].writer = "select" /\ sock'[c].closeQ = sock[c].closeQ
           /\ sock'[c].conn \in {sock[c].conn, "nil"}
           /\ SocketLife(c) => SocketLife(c)'
PROOF
<1>1. CASE CleanupLocked(c)
  <2> DEFINE r == [[[sock[c] EXCEPT !.conn = "nil"] EXCEPT !.peer = "down"] EXCEPT !.writer = "onClosed"]
             s == [[[[r EXCEPT !.outQ = 0] EXCEPT !.pingQ = 0] EXCEPT !.closeQ = 0] EXCEPT !.forceQ = 0]
  <2>1. "onClosed" \in WriterPCs /\ 0 \in 0..OutCap /\ 0 \in 0..1 /\ sock[c] \in SocketType
    BY DEF WriterPCs, OutCap
  <2>2. r \in SocketType /\ s \in SocketType
    <3>1. r \in SocketType
      BY <2>1, FieldTypes, Zenon
    <3> HIDE DEF r
    <3> QED BY <2>1, <3>1, FieldTypes, Zenon
  <2>3. sock' = [sock EXCEPT ![c] = s]
    BY <1>1, Zenon DEF CleanupLocked
  <2>4. s.writer = "onClosed" /\ s.conn = "nil" /\ s.done = sock[c].done /\ s.reader = sock[c].reader
    BY <2>1, Zenon DEF SocketType
  <2>5. Sockets' /\ Aside(c) /\ sock'[c] = s
    BY <2>2, <2>3, Assigned, Zenon
  <2> HIDE DEF s
  <2> QED BY <1>1, <2>4, <2>5, Zenon DEF CleanupLocked, SocketLife, Running, Closed
<1> USE DEF Aside, SocketType, WriterPCs, Running
<1>2. CASE WriterPing(c)
  BY <1>2 DEF WriterPing, SocketLife, Closed
<1>3. CASE WriterPong(c)
  BY <1>3 DEF WriterPong, WriteOutcome, SocketLife, Closed
<1>4. CASE WriterSend(c)
  BY <1>4 DEF WriterSend, WriteOutcome, SocketLife, Closed, OutCap
<1>5. CASE WriterClose(c)
  BY <1>5 DEF WriterClose, Leave, SocketLife, Closed
<1>6. CASE WriterForced(c)
  BY <1>6 DEF WriterForced, Leave, SocketLife, Closed
<1>7. CASE CleanupSignal(c)
  BY <1>7 DEF CleanupSignal, SocketLife, Closed
<1> QED BY <1>1, <1>2, <1>3, <1>4, <1>5, <1>6, <1>7, Zenon DEF WritePump

=============================================================================

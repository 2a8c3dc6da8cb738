--------------------------- MODULE WsClientProofs ---------------------------
(* Proofs about WsClient, for any sockets, numbers of starts and refused     *)
(* dials, with and without automatic reconnection.                           *)
EXTENDS WsClient, WebSocketProofs

USE ClientAssumption
USE DEF link, disp, calls, history, others

\* The types of everything but the sockets.
LinkTypes ==
    /\ webSocket \in Conns \cup {None}
    /\ reconnectC \in 0..1 /\ cleanupC \in 0..1
    /\ onDisconnected \in {"pause", "cleanup"}
    /\ dispatcher \in {"new", "running", "stopped"}
    /\ loop \in [Loopers -> {"none", "backoff", "dial", "reconnected"}]

CallTypes ==
    /\ app \in {"idle", "start", "startWithRetries", "retrying", "startDispatcher"}
    /\ stopper \in {"idle", "setHandler", "wsStop", "token", "dispatcher", "await"}
    /\ paused \in BOOLEAN /\ awaits \in BOOLEAN /\ crashed \in BOOLEAN /\ wanted \in BOOLEAN
    /\ staleToken \in BOOLEAN /\ stalePause \in BOOLEAN /\ overlapped \in BOOLEAN
    /\ starts \in 0..MaxStarts /\ fails \in 0..MaxFails

\* The two together are TypeOK.
LEMMA Types == TypeOK <=> Sockets /\ LinkTypes /\ CallTypes
PROOF
<1>1. {paused, awaits, crashed, wanted, staleToken, stalePause, overlapped} \subseteq BOOLEAN
      <=> /\ paused \in BOOLEAN /\ awaits \in BOOLEAN /\ crashed \in BOOLEAN /\ wanted \in BOOLEAN
          /\ staleToken \in BOOLEAN /\ stalePause \in BOOLEAN /\ overlapped \in BOOLEAN
  OBVIOUS
<1> QED BY <1>1, Zenon DEF TypeOK, LinkTypes, CallTypes

\* Sessions that have not overlapped.
Orderly == Chain /\ Resumes /\ Stopped

-----------------------------------------------------------------------------
(* Steps of one socket *)

(* What a step of the goroutines of socket c may do to it: it does not come  *)
(* to life, it does not reopen, and it leaves its select for good.           *)
Ages(c) ==
    /\ Sockets' /\ Aside(c) /\ SocketLife(c)'
    /\ sock'[c].conn = "none" => sock[c].conn = "none" /\ sock'[c].closeQ = sock[c].closeQ
    /\ sock'[c].conn = "open" => sock[c].conn = "open"
    /\ sock[c].writer \in {"off", "exit"} => sock'[c].writer = sock[c].writer
    /\ sock[c].writer = "onClosed" => sock'[c].writer = "onClosed"
    /\ sock'[c].writer = "select" => sock[c].writer = "select" /\ (sock[c].closeQ = 1 => sock'[c].closeQ = 1)

\* Sockets that age leave the socket invariants alone.
LEMMA LifeFrame ==
    ASSUME Life, NEW c \in Conns, Ages(c)
    PROVE  Life'
PROOF
<1>1. ASSUME NEW d \in Conns PROVE SocketLife(d)' /\ (sock'[d].conn = "none" => sock'[d].closeQ = 0)
  <2>1. CASE d = c
    BY <2>1, Zenon DEF Ages, Life
  <2>2. CASE d # c
    <3>1. sock'[d] = sock[d]
      BY <2>2, Zenon DEF Ages, Aside
    <3> QED BY <3>1, Zenon DEF Life, SocketLife
  <2> QED BY <2>1, <2>2, Zenon
<1> QED BY <1>1, Zenon DEF Life

\* What a socket that ages does to the published one and to the teardowns.
LEMMA AgeFrame ==
    ASSUME LinkTypes, NEW c \in Conns, Ages(c), webSocket' = webSocket
    PROVE  /\ IsConnected' => IsConnected
           /\ TearingDown' => TearingDown
PROOF
<1>1. ASSUME NEW d \in Conns, sock'[d].writer \notin {"off", "exit"} PROVE sock[d].writer \notin {"off", "exit"}
  BY <1>1, Zenon DEF Ages, Aside
<1>2. ASSUME NEW d \in Conns, sock'[d].conn = "open" PROVE sock[d].conn = "open"
  BY <1>2, Zenon DEF Ages, Aside
<1>3. IsConnected' => IsConnected
  BY <1>2, Zenon DEF IsConnected, IsOpen, LinkTypes
<1>4. TearingDown' => TearingDown
  BY <1>1, Zenon DEF TearingDown
<1> QED BY <1>3, <1>4

\* A step of one socket that touches nothing else.
LEMMA SocketStep ==
    ASSUME IndInv, NEW c \in Conns, Ages(c), UNCHANGED others, wanted /\ Unclosed(c) => Unclosed(c)'
    PROVE  IndInv'
PROOF
<1>1. Sockets /\ LinkTypes /\ CallTypes
  BY Types, Zenon DEF IndInv
<1>2. TypeOK'
  <2>1. Sockets'
    BY Zenon DEF Ages
  <2>2. LinkTypes'
    BY <1>1 DEF LinkTypes
  <2>3. CallTypes'
    BY <1>1 DEF CallTypes
  <2> QED BY <2>1, <2>2, <2>3, Types, PTL
<1>3. Life'
  BY LifeFrame, Zenon DEF IndInv
<1>4. (IsConnected' => IsConnected) /\ (TearingDown' => TearingDown)
  BY <1>1, AgeFrame, Zenon
<1>5. \A d \in Conns : /\ sock[d].writer \in {"off", "exit"} => sock'[d].writer = sock[d].writer
                       /\ sock[d].writer = "onClosed" => sock'[d].writer = "onClosed"
                       /\ wanted /\ Unclosed(d) => Unclosed(d)'
                       /\ sock'[d].writer = "select" =>
                              sock[d].writer = "select" /\ (sock[d].closeQ = 1 => sock'[d].closeQ = 1)
  <2>1. ASSUME NEW d \in Conns \ {c} PROVE sock'[d] = sock[d]
    BY Zenon DEF Ages, Aside
  <2> QED BY <2>1, Zenon DEF Ages, Unclosed
<1>6. Loops'
  BY <1>5, Zenon DEF IndInv, Loops
<1>7. Session'
  BY Zenon DEF IndInv, Session
<1>8. Kept'
  BY <1>1, <1>5, Zenon DEF IndInv, Kept, Attended, LinkTypes
<1>9. overlapped' \/ Orderly'
  <2>1. ASSUME Chain PROVE Chain'
    BY <1>4, <1>5, <2>1, Zenon DEF Chain, Dialing
  <2>2. ASSUME Resumes PROVE Resumes'
    BY <1>4, <2>2, Zenon DEF Resumes
  <2>3. ASSUME Stopped PROVE Stopped'
    BY <1>1, <1>5, <2>3, Zenon DEF Stopped, LinkTypes
  <2> QED BY <2>1, <2>2, <2>3, Zenon DEF IndInv, Orderly
<1> QED BY <1>2, <1>3, <1>6, <1>7, <1>8, <1>9, Zenon DEF IndInv, Orderly

\* A socket that writePump leaves is lost to a failed write or read, unless it was asked to close.
LEMMA UnclosedPump ==
    ASSUME Sockets, NEW c \in Conns, WritePump(c), Unclosed(c)
    PROVE  Unclosed(c)'
PROOF
<1> DEFINE Same == sock'[c].writer = sock[c].writer /\ sock'[c].closeQ = sock[c].closeQ
           Forced == sock'[c].writer \in {"cleanup", "lock", "onClosed"} /\ sock'[c].cause = "err"
<1>1. CASE WriterPing(c)
  <2>1. sock'[c].writer = "failed"
    BY <1>1 DEF WriterPing, Sockets, SocketType
  <2> QED BY <2>1, Zenon DEF Unclosed
<1>2. CASE WriterPong(c)
  <2>1. sock'[c].writer = "failed" \/ Same
    BY <1>2 DEF WriterPong, WriteOutcome, Sockets, SocketType
  <2> QED BY <1>2, <2>1, Zenon DEF WriterPong, Unclosed
<1>3. CASE WriterSend(c)
  <2>1. sock'[c].writer = "failed" \/ Same
    BY <1>3 DEF WriterSend, WriteOutcome, Sockets, SocketType
  <2> QED BY <1>3, <2>1, Zenon DEF WriterSend, Unclosed
<1>4. CASE WriterClose(c)
  BY <1>4 DEF WriterClose, Unclosed
<1>5. CASE WriterForced(c)
  <2>1. Forced
    BY <1>5 DEF WriterForced, Leave, Sockets, SocketType
  <2> QED BY <2>1, Zenon DEF Unclosed
<1>6. CASE CleanupSignal(c)
  <2>1. sock[c].cause = "err"
    BY <1>6, Zenon DEF CleanupSignal, Unclosed
  <2>2. Forced
    BY <1>6, <2>1 DEF CleanupSignal, Sockets, SocketType
  <2> QED BY <2>2, Zenon DEF Unclosed
<1>7. CASE CleanupLocked(c)
  <2>1. sock[c].cause = "err"
    BY <1>7, Zenon DEF CleanupLocked, Unclosed
  <2>2. Forced
    BY <1>7, <2>1 DEF CleanupLocked, Sockets, SocketType
  <2> QED BY <2>2, Zenon DEF Unclosed
<1> QED BY <1>1, <1>2, <1>3, <1>4, <1>5, <1>6, <1>7, Zenon DEF WritePump

\* writePump, up to the disconnect callback.
LEMMA PumpStep ==
    ASSUME IndInv, NEW c \in Conns, WritePump(c), UNCHANGED others
    PROVE  IndInv'
PROOF
<1>1. Sockets /\ SocketLife(c)
  BY Zenon DEF IndInv, TypeOK, Life
<1>2. /\ Sockets' /\ Aside(c) /\ SocketLife(c)'
      /\ sock[c].writer \in Running /\ sock'[c].writer \in Running \cup {"onClosed"}
      /\ sock'[c].writer = "select" => sock[c].writer = "select" /\ sock'[c].closeQ = sock[c].closeQ
      /\ sock'[c].conn \in {sock[c].conn, "nil"}
  BY <1>1, WritePumpEffect, Zenon
<1>3. sock[c].conn = "open"
  BY <1>1, <1>2, Zenon DEF SocketLife
<1>4. sock[c].writer \notin {"off", "exit", "onClosed"}
  BY <1>2 DEF Running
<1>5. Ages(c)
  BY <1>2, <1>3, <1>4 DEF Ages
<1> QED BY <1>1, <1>5, UnclosedPump, SocketStep, Zenon

\* error() has returned.
LEMMA ErrorStep ==
    ASSUME IndInv, NEW c \in Conns, ReportError(c)
    PROVE  IndInv'
PROOF
<1>1. Sockets /\ SocketLife(c)
  BY Zenon DEF IndInv, TypeOK, Life
<1>2. /\ sock[c].writer \in {"failed", "closeFailed"} /\ sock' = AfterWriteError(c) /\ UNCHANGED others
  BY Zenon DEF ReportError
<1>3. /\ Sockets' /\ Aside(c) /\ sock'[c].writer = "cleanup"
      /\ sock'[c].reader = sock[c].reader /\ sock'[c].conn = sock[c].conn
      /\ sock'[c].done = sock[c].done /\ sock'[c].closeQ = sock[c].closeQ
  BY <1>1, <1>2, WriteErrorEffect, Zenon
<1>4. SocketLife(c)'
  BY <1>1, <1>2, <1>3 DEF SocketLife, Running, Closed
<1>5. Ages(c)
  BY <1>2, <1>3, <1>4 DEF Ages
<1>6. Unclosed(c) => Unclosed(c)'
  <2>1. Unclosed(c) => sock[c].writer = "failed"
    BY <1>2, Zenon DEF Unclosed
  <2>2. sock[c].writer = "failed" => sock'[c].cause = "err"
    BY <1>1, <1>2 DEF AfterWriteError, Sockets, SocketType
  <2> QED BY <1>3, <2>1, <2>2, Zenon DEF Unclosed
<1> QED BY <1>2, <1>5, <1>6, SocketStep, Zenon

\* readPump, a message handled, and the loss of the network.
LEMMA ReadStep ==
    ASSUME IndInv, NEW c \in Conns, ReadGoroutine(c) \/ NetworkLoss(c)
    PROVE  IndInv'
PROOF
<1>1. Sockets /\ SocketLife(c)
  BY Zenon DEF IndInv, TypeOK, Life
<1>2. /\ UNCHANGED others
      /\ ReadPump(c) \/ PeerGoes(c) \/ (sock[c].reader = "onMessage" /\ sock' = AfterMessage(c))
  BY Zenon DEF ReadGoroutine, HandleMessage, NetworkLoss
<1>3. /\ Sockets' /\ Aside(c) /\ sock'[c].writer = sock[c].writer /\ sock'[c].conn = sock[c].conn
      /\ sock'[c].closeQ = sock[c].closeQ /\ sock'[c].cause = sock[c].cause /\ SocketLife(c)'
  BY <1>1, <1>2, ReadPumpEffect, QuietEffect, Zenon
<1>4. Ages(c)
  BY <1>3, Zenon DEF Ages
<1>5. Unclosed(c) => Unclosed(c)'
  BY <1>3, Zenon DEF Unclosed
<1> QED BY <1>2, <1>4, <1>5, SocketStep, Zenon

-----------------------------------------------------------------------------
(* The end of a socket and the birth of the next *)

\* What every step starts from.
LEMMA Before ==
    ASSUME IndInv
    PROVE  /\ Sockets /\ LinkTypes /\ CallTypes /\ Life /\ Loops /\ Session /\ Kept
           /\ overlapped \/ (Chain /\ Resumes /\ Stopped)
PROOF BY Types, Zenon DEF IndInv

\* What every step has to establish.
LEMMA After ==
    ASSUME Sockets', LinkTypes', CallTypes', Life', Loops', Session', Kept',
           overlapped' \/ (Chain' /\ Resumes' /\ Stopped')
    PROVE  IndInv'
PROOF
<1>1. TypeOK'
  BY Types, PTL
<1> QED BY <1>1, Zenon DEF IndInv

\* A write goroutine ends after its callbacks; the application's goroutine leaves no trace.
LEMMA EndsEffect ==
    ASSUME Sockets, Life, NEW l \in Loopers, l \in Conns => sock[l].writer = "onClosed", sock' = Ends(l)
    PROVE  /\ Sockets' /\ Life'
           /\ \A d \in Conns : d # l => sock'[d] = sock[d]
           /\ \A d \in Conns : sock'[d].conn = sock[d].conn
           /\ l \in Conns => sock'[l].writer = "exit" /\ sock[l].conn = "nil"
PROOF
<1>1. CASE l \in Conns
  <2>1. sock' = [sock EXCEPT ![l].writer = "exit"] /\ "exit" \in WriterPCs
    BY <1>1, Zenon DEF Ends, WriterPCs
  <2>2. /\ Sockets' /\ Aside(l) /\ sock'[l].writer = "exit"
        /\ sock'[l].reader = sock[l].reader /\ sock'[l].conn = sock[l].conn
        /\ sock'[l].done = sock[l].done /\ sock'[l].closeQ = sock[l].closeQ
    BY <1>1, <2>1, WriterEffect, Zenon
  <2>3. sock[l].conn = "nil" /\ SocketLife(l)
    BY <1>1 DEF Life, SocketLife, Closed
  <2>4. SocketLife(l)'
    BY <1>1, <2>2, <2>3 DEF SocketLife, Running, Closed
  <2>5. Life'
    <3>1. ASSUME NEW d \in Conns \ {l} PROVE SocketLife(d)' /\ (sock'[d].conn = "none" => sock'[d].closeQ = 0)
      <4>1. sock'[d] = sock[d]
        BY <2>2, Zenon DEF Aside
      <4> QED BY <4>1, Zenon DEF Life, SocketLife
    <3>2. sock'[l].conn = "none" => sock'[l].closeQ = 0
      BY <1>1, <2>2, Zenon DEF Life
    <3> QED BY <2>4, <3>1, <3>2, Zenon DEF Life
  <2> QED BY <2>2, <2>3, <2>5, Zenon DEF Aside
<1>2. CASE l \notin Conns
  <2>1. sock' = sock
    BY <1>2, Zenon DEF Ends
  <2> QED BY <1>2, <2>1, Zenon DEF Sockets, Life, SocketLife
<1> QED BY <1>1, <1>2, Zenon

\* A dial that succeeds publishes a socket that did not exist before.
LEMMA DialEffect ==
    ASSUME Sockets, Life, NEW l \in Loopers, NEW after, DialSucceeds(l, after)
    PROVE  /\ Sockets' /\ Life' /\ loop' = [loop EXCEPT ![l] = after]
           /\ \E c \in Conns : /\ webSocket' = c /\ \A d \in Conns \ {c} : sock'[d] = sock[d]
                               /\ sock[c].writer = "off" /\ Unclosed(c)'
PROOF
<1>1. PICK c \in Conns :
          /\ sock[c].conn = "none" /\ webSocket' = c /\ loop' = [loop EXCEPT ![l] = after]
          /\ sock' = [sock EXCEPT ![c] = [@ EXCEPT !.conn = "open", !.reader = "start", !.writer = "select"]]
  BY Zenon DEF DialSucceeds
<1>2. SocketLife(c) /\ sock[c].closeQ = 0 /\ sock[c] \in SocketType
  BY <1>1, Zenon DEF Life, Sockets
<1>3. sock[c].writer = "off" /\ sock[c].done = FALSE
  BY <1>1, <1>2 DEF SocketLife, SocketType, WriterPCs, Running, Closed
<1> DEFINE s == [[[sock[c] EXCEPT !.conn = "open"] EXCEPT !.reader = "start"] EXCEPT !.writer = "select"]
<1>4. s \in SocketType
  <2>1. "open" \in {"none", "open", "nil"} /\ "start" \in ReaderPCs /\ "select" \in WriterPCs
    BY Zenon DEF ReaderPCs, WriterPCs
  <2> QED BY <1>2, <2>1, FieldTypes, Zenon
<1>5. s.conn = "open" /\ s.reader = "start" /\ s.writer = "select" /\ s.closeQ = 0 /\ s.done = FALSE
  BY <1>2, <1>3, Zenon DEF SocketType
<1>6. sock' = [sock EXCEPT ![c] = s]
  BY <1>1, Zenon
<1> HIDE DEF s
<1>7. Sockets' /\ Aside(c) /\ sock'[c] = s
  BY <1>4, <1>6, Assigned, Zenon
<1>8. SocketLife(c)'
  BY <1>5, <1>7 DEF SocketLife, Running, Closed
<1>9. Life'
  <2>1. ASSUME NEW d \in Conns \ {c} PROVE SocketLife(d)' /\ (sock'[d].conn = "none" => sock'[d].closeQ = 0)
    <3>1. sock'[d] = sock[d]
      BY <1>7, Zenon DEF Aside
    <3> QED BY <3>1, Zenon DEF Life, SocketLife
  <2>2. sock'[c].conn = "none" => sock'[c].closeQ = 0
    BY <1>5, <1>7, Zenon
  <2> QED BY <1>8, <2>1, <2>2, Zenon DEF Life
<1>10. Unclosed(c)'
  BY <1>5, <1>7, Zenon DEF Unclosed
<1> QED BY <1>1, <1>3, <1>7, <1>9, <1>10, Zenon DEF Aside

-----------------------------------------------------------------------------
(* The disconnect callback and the reconnection loop *)

\* handleDisconnect: the handler of the day, then the loop or the end of the goroutine.
LEMMA DisconnectStep ==
    ASSUME IndInv, NEW c \in Conns, HandleDisconnect(c)
    PROVE  IndInv'
PROOF
<1>0. /\ Sockets /\ LinkTypes /\ CallTypes /\ Life /\ Loops /\ Session /\ Kept
      /\ overlapped \/ (Chain /\ Resumes /\ Stopped)
  BY Before
<1>1. /\ sock[c].writer = "onClosed" /\ loop[c] = "none" /\ c \in Loopers
      /\ UNCHANGED <<webSocket, reconnectC, onDisconnected, dispatcher, calls, history>>
  BY Zenon DEF HandleDisconnect, Loopers
<1>2. paused' \in {paused, TRUE} /\ crashed' \in {crashed, TRUE} /\ cleanupC' \in {cleanupC, 1}
  BY Zenon DEF HandleDisconnect, NotifyDisconnect
<1>3. \/ Reconnects(c) /\ loop' = [loop EXCEPT ![c] = "backoff"] /\ sock' = sock
      \/ ~Reconnects(c) /\ loop' = loop /\ sock' = Ends(c)
  BY Zenon DEF HandleDisconnect
<1>4. /\ Sockets' /\ Life' /\ sock[c].conn = "nil"
      /\ \A d \in Conns : sock'[d].conn = sock[d].conn
      /\ \A d \in Conns : d # c => sock'[d] = sock[d]
      /\ sock'[c].writer \in {"onClosed", "exit"}
  <2>1. CASE sock' = sock
    BY <1>0, <1>1, <2>1 DEF Sockets, Life, SocketLife, Closed
  <2>2. CASE sock' = Ends(c)
    BY <1>0, <1>1, <2>2, EndsEffect, Zenon
  <2> QED BY <1>3, <2>1, <2>2, Zenon
<1>5. LinkTypes'
  BY <1>0, <1>1, <1>2, <1>3 DEF LinkTypes
<1>6. CallTypes'
  <2>1. paused' \in BOOLEAN /\ crashed' \in BOOLEAN
    BY <1>0, <1>2, Zenon DEF CallTypes
  <2> QED BY <1>0, <1>1, <2>1, Zenon DEF CallTypes
<1>l. /\ \A l \in Loopers \ {c} : loop'[l] = loop[l]
      /\ loop'[c] \in {"none", "backoff"} /\ (loop'[c] # "none" => sock' = sock)
      /\ App \in Loopers \ {c}
  <2>1. App \in Loopers \ {c}
    BY DEF Loopers
  <2>2. CASE loop' = loop
    BY <1>1, <2>1, <2>2, Zenon
  <2>3. CASE loop' = [loop EXCEPT ![c] = "backoff"] /\ sock' = sock
    BY <1>0, <1>1, <2>1, <2>3, Zenon DEF LinkTypes
  <2> QED BY <1>3, <2>2, <2>3, Zenon
<1>7. Loops'
  <2>1. ASSUME NEW d \in Conns, loop'[d] # "none" PROVE sock'[d].writer = "onClosed"
    BY <1>0, <1>1, <1>4, <1>l, <2>1, Zenon DEF Loops, Loopers
  <2>2. ASSUME NEW d \in Conns, loop'[d] = "reconnected" PROVE webSocket # d
    BY <1>0, <1>l, <2>2, Zenon DEF Loops, Loopers
  <2> QED BY <1>0, <1>1, <1>l, <2>1, <2>2, Zenon DEF Loops
<1>8. Session'
  BY <1>0, <1>1, Zenon DEF Session
<1>9. Kept'
  <2> SUFFICES ASSUME wanted, ~staleToken, AutoReconnect PROVE Attended'
    BY <1>1, Zenon DEF Kept
  <2>1. Attended
    BY <1>0, Zenon DEF Kept
  <2>2. CASE Reconnects(c)
    BY <1>0, <1>1, <1>3, <2>2, Zenon DEF Attended, LinkTypes
  <2>3. CASE ~Reconnects(c) /\ webSocket = c
    <3>1. sock[c].cause # "err"
      BY <2>3, Zenon DEF Reconnects
    <3>2. ~Unclosed(webSocket)
      BY <1>1, <2>3, <3>1 DEF Unclosed
    <3> QED BY <1>1, <1>3, <2>1, <2>3, <3>2, Zenon DEF Attended
  <2>4. CASE ~Reconnects(c) /\ webSocket # c
    BY <1>0, <1>1, <1>3, <1>4, <2>1, <2>4, Zenon DEF Attended, Unclosed, LinkTypes
  <2> QED BY <2>2, <2>3, <2>4, Zenon
<1>10. ASSUME Chain, Resumes, Stopped PROVE Chain' /\ Resumes' /\ Stopped'
  <2>1. c = webSocket /\ ~Dialing
    BY <1>1, <1>10, Zenon DEF Chain, TearingDown
  <2>2. ~Dialing'
    BY <1>1, <1>l, <2>1, Zenon DEF Dialing
  <2>3. Chain'
    BY <1>1, <1>4, <1>10, <1>l, <2>1, <2>2, Zenon DEF Chain, Loopers
  <2>4. ~IsConnected'
    BY <1>1, <1>4, <2>1, Zenon DEF IsConnected, IsOpen
  <2>5. Stopped'
    BY <1>1, <1>4, <1>10, <2>1, Zenon DEF Stopped
  <2> QED BY <2>3, <2>4, <2>5, Zenon DEF Resumes
<1> QED BY <1>0, <1>1, <1>4, <1>5, <1>6, <1>7, <1>8, <1>9, <1>10, After, Zenon

\* The select of handleReconnection.
LEMMA BackoffStep ==
    ASSUME IndInv, NEW l \in Loopers, Backoff(l)
    PROVE  IndInv'
PROOF
<1>0. /\ Sockets /\ LinkTypes /\ CallTypes /\ Life /\ Loops /\ Session /\ Kept
      /\ overlapped \/ (Chain /\ Resumes /\ Stopped)
  BY Before
<1>1. /\ loop[l] = "backoff"
      /\ UNCHANGED <<webSocket, onDisconnected, cleanupC, disp, calls, crashed,
                     starts, fails, wanted, staleToken, stalePause>>
  BY Zenon DEF Backoff
<1>2. CASE loop' = [loop EXCEPT ![l] = "dial"] /\ overlapped' = (overlapped \/ ~wanted) /\ UNCHANGED <<sock, reconnectC>>
  <2>1. Sockets' /\ Life'
    BY <1>0, <1>2, Zenon DEF Sockets, Life, SocketLife
  <2>2. LinkTypes'
    BY <1>0, <1>1, <1>2 DEF LinkTypes
  <2>3. CallTypes'
    BY <1>0, <1>1, <1>2 DEF CallTypes
  <2>4. loop'[l] = "dial" /\ \A m \in Loopers \ {l} : loop'[m] = loop[m]
    BY <1>0, <1>2, Zenon DEF LinkTypes
  <2>5. Loops'
    BY <1>0, <1>1, <1>2, <2>4, Zenon DEF Loops, Loopers
  <2>6. Session' /\ Kept'
    BY <1>0, <1>1, <1>2, <2>4, Zenon DEF Session, Kept, Attended
  <2>7. ASSUME ~overlapped', Chain, Resumes, Stopped PROVE Chain' /\ Resumes' /\ Stopped'
    <3>1. wanted'
      BY <1>1, <1>2, <2>7, Zenon
    <3>2. Dialing' => Dialing
      BY <1>1, <2>4, Zenon DEF Dialing, Loopers
    <3>3. Chain'
      BY <1>1, <1>2, <2>4, <2>7, <3>1, <3>2, Zenon DEF Chain, Loopers, TearingDown
    <3>4. Resumes'
      BY <2>4, Zenon DEF Resumes
    <3>5. Stopped'
      BY <1>1, <1>2, <2>7, <3>1, Zenon DEF Stopped
    <3> QED BY <3>3, <3>4, <3>5
  <2>8. overlapped => overlapped'
    BY <1>2, Zenon
  <2> QED BY <1>0, <2>1, <2>2, <2>3, <2>5, <2>6, <2>7, <2>8, After, Zenon
<1>3. CASE /\ reconnectC = 1 /\ reconnectC' = 0
           /\ loop' = [loop EXCEPT ![l] = "none"] /\ sock' = Ends(l) /\ UNCHANGED overlapped
  <2>1. /\ Sockets' /\ Life'
        /\ \A d \in Conns : d # l => sock'[d] = sock[d]
        /\ \A d \in Conns : sock'[d].conn = sock[d].conn
        /\ l \in Conns => sock'[l].writer = "exit" /\ sock[l].conn = "nil" /\ sock[l].writer = "onClosed"
    BY <1>0, <1>1, <1>3, EndsEffect, Zenon DEF Loops
  <2>2. LinkTypes'
    BY <1>0, <1>1, <1>3 DEF LinkTypes
  <2>3. CallTypes'
    BY <1>0, <1>1, <1>3 DEF CallTypes
  <2>4. loop'[l] = "none" /\ \A m \in Loopers \ {l} : loop'[m] = loop[m]
    BY <1>0, <1>3, Zenon DEF LinkTypes
  <2>5. Loops'
    BY <1>0, <1>1, <2>1, <2>4, Zenon DEF Loops, Loopers
  <2>6. Session' /\ ~(wanted /\ ~staleToken)
    BY <1>0, <1>1, <1>3 DEF Session
  <2>7. ASSUME Chain, Resumes, Stopped PROVE Chain' /\ Resumes' /\ Stopped'
    <3>1. Dialing' => Dialing
      BY <1>1, <2>4, Zenon DEF Dialing, Loopers
    <3>2. TearingDown' => TearingDown
      BY <2>1, Zenon DEF TearingDown
    <3>3. Chain'
      BY <1>1, <2>1, <2>4, <2>7, <3>1, <3>2, Zenon DEF Chain, Loopers
    <3>4. Resumes'
      <4>1. CASE l = App
        BY <1>1, <2>7, <4>1, Zenon DEF Chain, Dialing, Resumes
      <4>2. CASE l \in Conns
        <5>1. webSocket = l
          BY <1>1, <2>1, <2>7, <4>2 DEF Chain
        <5> QED BY <1>1, <2>1, <4>2, <5>1 DEF Resumes, IsConnected, IsOpen
      <4> QED BY <4>1, <4>2, Zenon DEF Loopers
    <3>5. Stopped'
      BY <1>0, <1>1, <2>1, <2>7 DEF Stopped, LinkTypes
    <3> QED BY <3>3, <3>4, <3>5
  <2> QED BY <1>0, <1>1, <1>3, <2>1, <2>2, <2>3, <2>5, <2>6, <2>7, After, Zenon DEF Kept
<1> QED BY <1>2, <1>3, Zenon DEF Backoff

\* The loop dials again: a new socket replaces the one it runs on, or the delay starts over.
LEMMA RedialStep ==
    ASSUME IndInv, NEW l \in Loopers, Redial(l)
    PROVE  IndInv'
PROOF
<1>0. /\ Sockets /\ LinkTypes /\ CallTypes /\ Life /\ Loops /\ Session /\ Kept
      /\ overlapped \/ (Chain /\ Resumes /\ Stopped)
  BY Before
<1>1. /\ loop[l] = "dial"
      /\ UNCHANGED <<reconnectC, onDisconnected, cleanupC, disp, calls, crashed,
                     starts, wanted, staleToken, stalePause, overlapped>>
  BY Zenon DEF Redial
<1>2. ASSUME Chain PROVE wanted
  BY <1>1, <1>2, Zenon DEF Chain
<1>3. CASE DialSucceeds(l, "reconnected") /\ UNCHANGED fails
  <2>1. PICK c \in Conns : /\ webSocket' = c /\ \A d \in Conns \ {c} : sock'[d] = sock[d]
                           /\ sock[c].writer = "off" /\ Unclosed(c)'
    BY <1>0, <1>3, DialEffect, Zenon
  <2>2. Sockets' /\ Life' /\ loop' = [loop EXCEPT ![l] = "reconnected"]
    BY <1>0, <1>3, DialEffect, Zenon
  <2>3. LinkTypes'
    BY <1>0, <1>1, <2>1, <2>2 DEF LinkTypes
  <2>4. CallTypes'
    BY <1>0, <1>1, <1>3, Zenon DEF CallTypes
  <2>5. loop'[l] = "reconnected" /\ \A m \in Loopers \ {l} : loop'[m] = loop[m]
    BY <1>0, <2>2, Zenon DEF LinkTypes
  <2>6. Loops'
    <3>1. \A d \in Conns : loop'[d] # "none" => sock[d].writer = "onClosed" /\ d # c
      BY <1>0, <1>1, <2>1, <2>5, Zenon DEF Loops, Loopers
    <3>2. loop'[App] # "none" => app = "retrying"
      BY <1>0, <1>1, <2>5, Zenon DEF Loops, Loopers
    <3> QED BY <1>1, <2>1, <3>1, <3>2, Zenon DEF Loops
  <2>7. Session'
    BY <1>0, <1>1, Zenon DEF Session
  <2>8. Kept'
    <3>1. webSocket' # None /\ Unclosed(webSocket)'
      BY <2>1, Zenon DEF Unclosed
    <3> QED BY <3>1, Zenon DEF Kept, Attended
  <2>9. ASSUME Chain, Resumes, Stopped PROVE Chain' /\ Resumes' /\ Stopped'
    <3>1. l = App \/ (l \in Conns /\ sock[l].writer = "onClosed" /\ l = webSocket /\ ~Dialing)
      BY <1>0, <1>1, <2>9, Zenon DEF Chain, Loops, Loopers, TearingDown
    <3>2. ~Dialing'
      <4>1. CASE l = App
        BY <1>0, <1>1, <2>5, <4>1 DEF Dialing, Loops, Loopers
      <4>2. CASE l \in Conns /\ ~Dialing
        BY <1>1, <2>5, <4>2, Zenon DEF Dialing, Loopers
      <4> QED BY <3>1, <4>1, <4>2, Zenon
    <3>3. ASSUME NEW d \in Conns PROVE d = c \/ sock'[d].writer \in {"off", "exit"} \/ loop'[d] = "reconnected"
      <4>1. CASE l = App
        <5>1. sock[d].writer \in {"off", "exit"}
          BY <1>1, <2>9, <4>1, Zenon DEF Chain, Dialing, TearingDown
        <5> QED BY <2>1, <5>1, Zenon
      <4>2. CASE l \in Conns /\ l = webSocket
        BY <2>1, <2>5, <2>9, <4>2, Zenon DEF Chain, Loopers
      <4> QED BY <3>1, <4>1, <4>2, Zenon
    <3>4. Chain'
      BY <1>1, <1>2, <2>1, <2>9, <3>2, <3>3, Zenon DEF Chain
    <3>5. Resumes'
      BY <2>5, Zenon DEF Resumes
    <3>6. Stopped'
      BY <1>1, <1>2, <2>9, Zenon DEF Stopped
    <3> QED BY <3>4, <3>5, <3>6
  <2> QED BY <1>0, <1>1, <2>2, <2>3, <2>4, <2>6, <2>7, <2>8, <2>9, After, Zenon
<1>4. CASE DialFails(l, "backoff") /\ UNCHANGED <<sock, webSocket>>
  <2>1. fails < MaxFails /\ fails' = fails + 1 /\ loop' = [loop EXCEPT ![l] = "backoff"]
    BY <1>4, Zenon DEF DialFails
  <2>2. Sockets' /\ Life'
    BY <1>0, <1>4, Zenon DEF Sockets, Life, SocketLife
  <2>3. LinkTypes'
    BY <1>0, <1>1, <1>4, <2>1 DEF LinkTypes
  <2>4. CallTypes'
    <3>1. fails' \in 0..MaxFails
      BY <1>0, <2>1 DEF CallTypes
    <3> QED BY <1>0, <1>1, <3>1, Zenon DEF CallTypes
  <2>5. loop'[l] = "backoff" /\ \A m \in Loopers \ {l} : loop'[m] = loop[m]
    BY <1>0, <2>1, Zenon DEF LinkTypes
  <2>6. Loops'
    BY <1>0, <1>1, <1>4, <2>5, Zenon DEF Loops, Loopers
  <2>7. Session' /\ Kept'
    BY <1>0, <1>1, <2>5, Zenon DEF Session, Kept, Attended
  <2>8. ASSUME Chain, Resumes, Stopped PROVE Chain' /\ Resumes' /\ Stopped'
    <3>1. Dialing' => Dialing
      BY <1>1, <2>5, Zenon DEF Dialing, Loopers
    <3>2. Chain'
      BY <1>1, <1>2, <1>4, <2>5, <2>8, <3>1, Zenon DEF Chain, Loopers, TearingDown
    <3>3. Resumes'
      BY <2>5, Zenon DEF Resumes
    <3>4. Stopped'
      BY <1>1, <1>4, <2>8, Zenon DEF Stopped
    <3> QED BY <3>2, <3>3, <3>4
  <2> QED BY <1>0, <1>1, <2>2, <2>3, <2>4, <2>6, <2>7, <2>8, After, Zenon
<1> QED BY <1>3, <1>4, Zenon DEF Redial

\* onReconnected: the dispatcher is resumed and the loop is over.
LEMMA ReconnectedStep ==
    ASSUME IndInv, NEW l \in Loopers, OnReconnected(l)
    PROVE  IndInv'
PROOF
<1>0. /\ Sockets /\ LinkTypes /\ CallTypes /\ Life /\ Loops /\ Session /\ Kept
      /\ overlapped \/ (Chain /\ Resumes /\ Stopped)
  BY Before
<1>1. /\ loop[l] = "reconnected" /\ paused' = FALSE /\ loop' = [loop EXCEPT ![l] = "none"] /\ sock' = Ends(l)
      /\ UNCHANGED <<link, dispatcher, calls, crashed, history>>
  BY Zenon DEF OnReconnected, Resume
<1>2. /\ Sockets' /\ Life'
      /\ \A d \in Conns : d # l => sock'[d] = sock[d]
      /\ l \in Conns => sock'[l].writer = "exit" /\ sock[l].writer = "onClosed" /\ l # webSocket
  BY <1>0, <1>1, EndsEffect, Zenon DEF Loops
<1>3. LinkTypes'
  BY <1>0, <1>1 DEF LinkTypes
<1>4. CallTypes'
  <2>1. paused' \in BOOLEAN
    BY <1>1, Zenon
  <2> QED BY <1>0, <1>1, <2>1, Zenon DEF CallTypes
<1>5. loop'[l] = "none" /\ \A m \in Loopers \ {l} : loop'[m] = loop[m]
  BY <1>0, <1>1, Zenon DEF LinkTypes
<1>6. Loops'
  BY <1>0, <1>1, <1>2, <1>5, Zenon DEF Loops, Loopers
<1>7. Session'
  BY <1>0, <1>1, Zenon DEF Session
<1>8. Kept'
  <2>1. ASSUME Attended PROVE Attended'
    <3>1. CASE app \in {"start", "startWithRetries"}
      BY <1>1, <3>1, Zenon DEF Attended
    <3>2. CASE \E m \in Loopers : loop[m] \in {"backoff", "dial"}
      BY <1>1, <1>5, <3>2 DEF Attended
    <3>3. CASE webSocket # None /\ Unclosed(webSocket)
      <4>1. sock'[webSocket] = sock[webSocket] /\ webSocket' = webSocket
        BY <1>0, <1>1, <1>2, <3>3, Zenon DEF LinkTypes
      <4> QED BY <3>3, <4>1, Zenon DEF Attended, Unclosed
    <3> QED BY <2>1, <3>1, <3>2, <3>3, Zenon DEF Attended
  <2> QED BY <1>0, <1>1, <2>1, Zenon DEF Kept
<1>9. ASSUME Chain, Resumes, Stopped PROVE Chain' /\ Resumes' /\ Stopped'
  <2>1. ~Dialing
    <3>1. CASE l = App
      BY <1>0, <1>1, <3>1 DEF Dialing, Loops
    <3>2. CASE l \in Conns
      BY <1>2, <1>9, <3>2 DEF Chain, TearingDown
    <3> QED BY <3>1, <3>2, Zenon DEF Loopers
  <2>2. ~Dialing'
    BY <1>1, <1>5, <2>1, Zenon DEF Dialing, Loopers
  <2>3. Chain'
    <3>1. \A m \in Loopers : loop'[m] \in {loop[m], "none"}
      BY <1>5, Zenon
    <3>2. ASSUME NEW d \in Conns PROVE d = webSocket \/ sock'[d].writer \in {"off", "exit"} \/ loop'[d] = "reconnected"
      BY <1>2, <1>5, <1>9, Zenon DEF Chain, Loopers
    <3>3. ~wanted => app = "idle" /\ \A m \in Loopers : loop'[m] \notin {"dial", "reconnected"}
      BY <1>9, <3>1 DEF Chain
    <3> QED BY <1>1, <2>2, <3>2, <3>3, Zenon DEF Chain
  <2>4. Resumes'
    BY <1>1, Zenon DEF Resumes
  <2>5. Stopped'
    BY <1>0, <1>1, <1>2, <1>9, Zenon DEF Stopped, LinkTypes
  <2> QED BY <2>3, <2>4, <2>5
<1> QED BY <1>0, <1>1, <1>2, <1>3, <1>4, <1>6, <1>7, <1>8, <1>9, After, Zenon

-----------------------------------------------------------------------------
(* Start, StartWithRetries and Stop *)

\* The application starts a client that is down.
LEMMA StartCallStep ==
    ASSUME IndInv, NEW kind \in {"start", "startWithRetries"}, StartCall(kind)
    PROVE  IndInv'
PROOF
<1>0. /\ Sockets /\ LinkTypes /\ CallTypes /\ Life /\ Loops /\ Session /\ Kept
      /\ overlapped \/ (Chain /\ Resumes /\ Stopped)
  BY Before
<1>1. /\ app = "idle" /\ stopper = "idle" /\ ~wanted /\ ~overlapped /\ starts < MaxStarts /\ starts' = starts + 1
      /\ app' = kind /\ onDisconnected' = "pause" /\ wanted' = TRUE
      /\ staleToken' = (reconnectC = 1) /\ stalePause' = paused /\ overlapped' = (overlapped \/ TearingDown)
      /\ UNCHANGED <<sock, webSocket, reconnectC, cleanupC, disp, loop, stopper, awaits, crashed, fails>>
  BY Zenon DEF StartCall
<1>2. Sockets' /\ Life'
  BY <1>0, <1>1, Zenon DEF Sockets, Life, SocketLife
<1>3. LinkTypes'
  BY <1>0, <1>1 DEF LinkTypes
<1>4. CallTypes'
  <2>1. starts' \in 0..MaxStarts
    BY <1>0, <1>1 DEF CallTypes
  <2>2. wanted' \in BOOLEAN /\ staleToken' \in BOOLEAN /\ stalePause' \in BOOLEAN /\ overlapped' \in BOOLEAN
    BY <1>0, <1>1, Zenon DEF CallTypes
  <2>3. app' \in {"idle", "start", "startWithRetries", "retrying", "startDispatcher"}
    BY <1>1
  <2> QED BY <1>0, <1>1, <2>1, <2>2, <2>3, Zenon DEF CallTypes
<1>5. loop[App] = "none"
  BY <1>0, <1>1 DEF Loops
<1>6. Loops'
  BY <1>0, <1>1, <1>5, Zenon DEF Loops
<1>7. Session'
  <2>1. ~staleToken' => reconnectC = 0
    <3>1. reconnectC = 0 \/ reconnectC = 1
      BY <1>0 DEF LinkTypes
    <3> QED BY <1>1, <3>1, Zenon
  <2>2. app' # "idle"
    BY <1>1
  <2> QED BY <1>1, <2>1, <2>2, Zenon DEF Session
<1>8. Kept'
  BY <1>1, Zenon DEF Kept, Attended
<1>9. ASSUME ~overlapped' PROVE Chain' /\ Resumes' /\ Stopped'
  <2>1. Chain /\ Stopped /\ ~TearingDown
    BY <1>0, <1>1, <1>9, Zenon
  <2>2. Chain'
    BY <1>1, <2>1, Zenon DEF Chain, TearingDown
  <2>3. Resumes'
    BY <1>1, Zenon DEF Resumes
  <2>4. Stopped'
    BY <1>1, <2>1, Zenon DEF Stopped
  <2> QED BY <2>2, <2>3, <2>4
<1> QED BY <1>2, <1>3, <1>4, <1>6, <1>7, <1>8, <1>9, After, Zenon

\* The first dial of a session.
LEMMA FirstDialStep ==
    ASSUME IndInv, FirstDial
    PROVE  IndInv'
PROOF
<1>0. /\ Sockets /\ LinkTypes /\ CallTypes /\ Life /\ Loops /\ Session /\ Kept
      /\ overlapped \/ (Chain /\ Resumes /\ Stopped)
  BY Before
<1>1. /\ app \in {"start", "startWithRetries"}
      /\ UNCHANGED <<reconnectC, onDisconnected, cleanupC, disp, stopper, awaits, crashed,
                     starts, staleToken, stalePause, overlapped>>
  BY Zenon DEF FirstDial
<1>2. loop[App] = "none" /\ App \in Loopers
  BY <1>0, <1>1 DEF Loops, Loopers
<1>3. ASSUME Chain PROVE wanted /\ ~TearingDown /\ paused = stalePause
  <2>1. app # "idle" /\ Dialing
    BY <1>1 DEF Dialing
  <2> QED BY <1>3, <2>1, Zenon DEF Chain
<1>4. CASE DialSucceeds(App, "none") /\ app' = "startDispatcher" /\ UNCHANGED <<fails, wanted>>
  <2>1. PICK c \in Conns : /\ webSocket' = c /\ \A d \in Conns \ {c} : sock'[d] = sock[d]
                           /\ sock[c].writer = "off" /\ Unclosed(c)'
    BY <1>0, <1>2, <1>4, DialEffect, Zenon
  <2>2. Sockets' /\ Life' /\ loop' = [loop EXCEPT ![App] = "none"]
    BY <1>0, <1>2, <1>4, DialEffect, Zenon
  <2>3. LinkTypes'
    BY <1>0, <1>1, <2>1, <2>2, Zenon DEF LinkTypes
  <2>4. CallTypes'
    <3>1. app' \in {"idle", "start", "startWithRetries", "retrying", "startDispatcher"}
      BY <1>4, Zenon
    <3> QED BY <1>0, <1>1, <1>4, <3>1, Zenon DEF CallTypes
  <2>5. \A m \in Loopers : loop'[m] = loop[m]
    BY <1>0, <1>2, <2>2, Zenon DEF LinkTypes
  <2>6. Loops'
    <3>1. \A d \in Conns : loop'[d] # "none" => sock[d].writer = "onClosed" /\ d # c
      BY <1>0, <2>1, <2>5, Zenon DEF Loops, Loopers
    <3> QED BY <1>2, <2>1, <2>5, <3>1, Zenon DEF Loops
  <2>7. Session'
    BY <1>0, <1>1, <1>4, Zenon DEF Session
  <2>8. Kept'
    <3>1. webSocket' # None /\ Unclosed(webSocket)'
      BY <2>1, Zenon DEF Unclosed
    <3> QED BY <3>1, Zenon DEF Kept, Attended
  <2>9. ASSUME Chain, Stopped PROVE Chain' /\ Resumes' /\ Stopped'
    <3>1. ~Dialing'
      BY <1>2, <1>4, <2>5 DEF Dialing
    <3>2. \A d \in Conns : d = c \/ sock'[d].writer \in {"off", "exit"}
      BY <1>3, <2>1, <2>9, Zenon DEF TearingDown
    <3>3. wanted' /\ paused' = stalePause'
      BY <1>1, <1>3, <1>4, <2>9, Zenon
    <3>4. Chain'
      BY <2>1, <3>1, <3>2, <3>3, Zenon DEF Chain
    <3>5. Resumes'
      BY <3>3, Zenon DEF Resumes
    <3>6. Stopped'
      BY <1>1, <1>3, <1>4, <2>9 DEF Stopped
    <3> QED BY <3>4, <3>5, <3>6
  <2> QED BY <1>0, <1>1, <2>2, <2>3, <2>4, <2>6, <2>7, <2>8, <2>9, After, Zenon
<1>5. CASE app = "start" /\ DialFails(App, "none") /\ app' = "idle" /\ wanted' = FALSE /\ UNCHANGED <<sock, webSocket>>
  <2>1. fails < MaxFails /\ fails' = fails + 1 /\ loop' = [loop EXCEPT ![App] = "none"]
    BY <1>5, Zenon DEF DialFails
  <2>2. Sockets' /\ Life'
    BY <1>0, <1>5, Zenon DEF Sockets, Life, SocketLife
  <2>3. LinkTypes'
    BY <1>0, <1>1, <1>5, <2>1, Zenon DEF LinkTypes
  <2>4. CallTypes'
    <3>1. fails' \in 0..MaxFails
      BY <1>0, <2>1 DEF CallTypes
    <3>2. app' \in {"idle", "start", "startWithRetries", "retrying", "startDispatcher"} /\ wanted' \in BOOLEAN
      BY <1>5, Zenon
    <3> QED BY <1>0, <1>1, <3>1, <3>2, Zenon DEF CallTypes
  <2>5. \A m \in Loopers : loop'[m] = loop[m]
    BY <1>0, <1>2, <2>1, Zenon DEF LinkTypes
  <2>6. Loops'
    BY <1>0, <1>2, <1>5, <2>5, Zenon DEF Loops, Loopers
  <2>7. Session' /\ Kept'
    BY <1>5, Zenon DEF Session, Kept
  <2>8. ASSUME Chain, Stopped PROVE Chain' /\ Resumes' /\ Stopped'
    <3>1. ~Dialing'
      BY <1>2, <1>5, <2>5 DEF Dialing
    <3>2. \A m \in Loopers : loop'[m] = "none"
      <4>1. \A d \in Conns : sock[d].writer # "onClosed"
        BY <1>3, <2>8 DEF TearingDown
      <4> QED BY <1>0, <1>2, <2>5, <4>1, Zenon DEF Loops, Loopers
    <3>3. Chain'
      BY <1>1, <1>5, <2>5, <2>8, <3>1, <3>2 DEF Chain, Loopers
    <3>4. Resumes'
      BY <1>5, Zenon DEF Resumes
    <3>5. Stopped'
      <4>1. webSocket # None => sock[webSocket].writer # "select"
        BY <1>0, <1>3, <2>8 DEF TearingDown, LinkTypes
      <4>2. dispatcher # "running"
        BY <1>5, <2>8 DEF Stopped
      <4> QED BY <1>1, <1>5, <4>1, <4>2, Zenon DEF Stopped
    <3> QED BY <3>3, <3>4, <3>5
  <2> QED BY <1>0, <1>1, <2>2, <2>3, <2>4, <2>6, <2>7, <2>8, After, Zenon
<1>6. CASE DialFails(App, "backoff") /\ app' = "retrying" /\ UNCHANGED <<sock, webSocket, wanted>>
  <2>1. fails < MaxFails /\ fails' = fails + 1 /\ loop' = [loop EXCEPT ![App] = "backoff"]
    BY <1>6, Zenon DEF DialFails
  <2>2. Sockets' /\ Life'
    BY <1>0, <1>6, Zenon DEF Sockets, Life, SocketLife
  <2>3. LinkTypes'
    BY <1>0, <1>1, <1>6, <2>1, Zenon DEF LinkTypes
  <2>4. CallTypes'
    <3>1. fails' \in 0..MaxFails
      BY <1>0, <2>1 DEF CallTypes
    <3>2. app' \in {"idle", "start", "startWithRetries", "retrying", "startDispatcher"}
      BY <1>6, Zenon
    <3> QED BY <1>0, <1>1, <1>6, <3>1, <3>2, Zenon DEF CallTypes
  <2>5. loop'[App] = "backoff" /\ \A m \in Loopers \ {App} : loop'[m] = loop[m]
    BY <1>0, <1>2, <2>1, Zenon DEF LinkTypes
  <2>6. Loops'
    <3>1. \A d \in Conns : loop'[d] = loop[d]
      BY <2>5, Zenon DEF Loopers
    <3> QED BY <1>0, <1>6, <3>1, Zenon DEF Loops
  <2>7. Session' /\ Kept'
    BY <1>0, <1>1, <1>2, <1>6, <2>5, Zenon DEF Session, Kept, Attended
  <2>8. ASSUME Chain, Stopped PROVE Chain' /\ Resumes' /\ Stopped'
    <3>1. wanted' /\ paused' = stalePause' /\ ~TearingDown'
      BY <1>1, <1>3, <1>6, <2>8, Zenon DEF TearingDown
    <3>2. \A d \in Conns : d = webSocket' \/ sock'[d].writer \in {"off", "exit"}
      BY <3>1, Zenon DEF TearingDown
    <3>3. Chain' /\ Resumes'
      BY <3>1, <3>2, Zenon DEF Chain, Resumes
    <3>4. dispatcher # "running"
      BY <1>1, <2>8 DEF Stopped
    <3>5. Stopped'
      BY <1>1, <3>1, <3>4, Zenon DEF Stopped
    <3> QED BY <3>3, <3>5
  <2> QED BY <1>0, <1>1, <2>2, <2>3, <2>4, <2>6, <2>7, <2>8, After, Zenon
<1> QED BY <1>4, <1>5, <1>6, Zenon DEF FirstDial

\* StartWithRetries goes on to the dispatcher, which is started.
LEMMA StartDispatcherStep ==
    ASSUME IndInv, RetriesEnd \/ StartDispatcher
    PROVE  IndInv'
PROOF
<1>0. /\ Sockets /\ LinkTypes /\ CallTypes /\ Life /\ Loops /\ Session /\ Kept
      /\ overlapped \/ (Chain /\ Resumes /\ Stopped)
  BY Before
<1>1. /\ app \in {"retrying", "startDispatcher"} /\ app' \in {"startDispatcher", "idle"} /\ loop[App] = "none"
      /\ app' = "idle" => dispatcher' = "running"
      /\ app' # "idle" => dispatcher' = dispatcher
      /\ dispatcher' \in {"running", dispatcher}
      /\ UNCHANGED <<sock, link, paused, loop, stopper, awaits, crashed, history>>
  <2>1. CASE RetriesEnd
    BY <2>1, Zenon DEF RetriesEnd
  <2>2. CASE StartDispatcher
    <3>1. loop[App] = "none"
      BY <1>0, <2>2, Zenon DEF Loops, StartDispatcher
    <3> QED BY <2>2, <3>1, Zenon DEF StartDispatcher
  <2> QED BY <2>1, <2>2, Zenon
<1>2. Sockets' /\ Life'
  BY <1>0, <1>1, Zenon DEF Sockets, Life, SocketLife
<1>3. LinkTypes'
  BY <1>0, <1>1, Zenon DEF LinkTypes
<1>4. CallTypes'
  <2>1. app' \in {"idle", "start", "startWithRetries", "retrying", "startDispatcher"}
    BY <1>1, Zenon
  <2> QED BY <1>0, <1>1, <2>1, Zenon DEF CallTypes
<1>5. Loops' /\ Session'
  BY <1>0, <1>1, Zenon DEF Loops, Session
<1>6. Kept'
  <2>1. app \notin {"start", "startWithRetries"}
    BY <1>1, Zenon
  <2> QED BY <1>0, <1>1, <2>1, Zenon DEF Kept, Attended, Unclosed
<1>7. ASSUME Chain, Resumes, Stopped PROVE Chain' /\ Resumes' /\ Stopped'
  <2>1. wanted /\ ~Dialing' /\ app # "idle" /\ dispatcher # "running"
    BY <1>1, <1>7 DEF Chain, Stopped, Dialing
  <2>2. Chain'
    BY <1>1, <1>7, <2>1, Zenon DEF Chain
  <2>3. Resumes'
    BY <1>1, <1>7, Zenon DEF Resumes, IsConnected, IsOpen
  <2>4. Stopped'
    BY <1>1, <2>1, Zenon DEF Stopped
  <2> QED BY <2>2, <2>3, <2>4, Zenon
<1> QED BY <1>0, <1>1, <1>2, <1>3, <1>4, <1>5, <1>6, <1>7, After, Zenon

\* Stop is called on a session that is wanted.
LEMMA StopCallStep ==
    ASSUME IndInv, StopCall
    PROVE  IndInv'
PROOF
<1>0. /\ Sockets /\ LinkTypes /\ CallTypes /\ Life /\ Loops /\ Session /\ Kept
      /\ overlapped \/ (Chain /\ Resumes /\ Stopped)
  BY Before
<1>1. /\ stopper' \in {"setHandler", "wsStop"} /\ awaits' = IsConnected /\ wanted' = FALSE
      /\ overlapped' = (overlapped \/ app # "idle" \/ \E l \in Loopers : loop[l] \in {"dial", "reconnected"})
      /\ UNCHANGED <<sock, link, disp, loop, app, crashed, starts, fails, staleToken, stalePause>>
  BY Zenon DEF StopCall
<1>2. Sockets' /\ Life'
  BY <1>0, <1>1, Zenon DEF Sockets, Life, SocketLife
<1>3. LinkTypes'
  BY <1>0, <1>1, Zenon DEF LinkTypes
<1>4. CallTypes'
  <2>1. stopper' \in {"idle", "setHandler", "wsStop", "token", "dispatcher", "await"}
    BY <1>1, Zenon
  <2>2. awaits' \in BOOLEAN /\ wanted' \in BOOLEAN /\ overlapped' \in BOOLEAN
    BY <1>1, Zenon DEF IsConnected
  <2> QED BY <1>0, <1>1, <2>1, <2>2, Zenon DEF CallTypes
<1>5. Loops'
  BY <1>0, <1>1, Zenon DEF Loops
<1>6. Session' /\ Kept'
  BY <1>1, Zenon DEF Session, Kept
<1>7. ASSUME ~overlapped' PROVE Chain' /\ Resumes' /\ Stopped'
  <2>1. ~overlapped /\ app = "idle" /\ \A l \in Loopers : loop[l] \notin {"dial", "reconnected"}
    BY <1>1, <1>7, Zenon
  <2>2. Chain /\ Stopped
    BY <1>0, <2>1, Zenon
  <2>3. Chain'
    BY <1>1, <2>1, <2>2, Zenon DEF Chain, Dialing, TearingDown
  <2>4. Resumes' /\ Stopped'
    BY <1>1, <2>1, Zenon DEF Resumes, Stopped
  <2> QED BY <2>3, <2>4, Zenon
<1> QED BY <1>2, <1>3, <1>4, <1>5, <1>6, <1>7, After, Zenon

\* client.Stop closes the published socket if it is open.
LEMMA StopClosesStep ==
    ASSUME IndInv, StopCloses
    PROVE  IndInv'
PROOF
<1>0. /\ Sockets /\ LinkTypes /\ CallTypes /\ Life /\ Loops /\ Session /\ Kept
      /\ overlapped \/ (Chain /\ Resumes /\ Stopped)
  BY Before
<1>1. stopper = "wsStop" /\ ~wanted /\ UNCHANGED <<link, disp, loop, app, awaits, crashed, history>>
  BY <1>0 DEF StopCloses, Session
<1>2. stopper' \in {"wsStop", "token"}
  BY <1>1, Zenon DEF StopCloses
<1>3. LinkTypes'
  BY <1>0, <1>1, Zenon DEF LinkTypes
<1>4. CallTypes'
  <2>1. stopper' \in {"idle", "setHandler", "wsStop", "token", "dispatcher", "await"}
    BY <1>2, Zenon
  <2> QED BY <1>0, <1>1, <2>1, Zenon DEF CallTypes
<1>5. Session' /\ Kept' /\ Resumes'
  BY <1>1, Zenon DEF Session, Kept, Resumes
<1>6. CASE ~IsConnected /\ UNCHANGED sock
  <2>1. Sockets' /\ Life' /\ Loops'
    BY <1>0, <1>1, <1>6, Zenon DEF Sockets, Life, SocketLife, Loops
  <2>2. webSocket # None => sock[webSocket].writer # "select"
    BY <1>0, <1>6 DEF IsConnected, IsOpen, Life, SocketLife, Running, LinkTypes
  <2>3. ASSUME Chain, Stopped PROVE Chain' /\ Stopped'
    <3>1. Chain'
      BY <1>1, <1>6, <2>3, Zenon DEF Chain, Dialing, TearingDown
    <3>2. Stopped'
      BY <1>1, <1>2, <1>6, <2>2, <2>3 DEF Stopped
    <3> QED BY <3>1, <3>2, Zenon
  <2> QED BY <1>0, <1>1, <1>3, <1>4, <1>5, <2>1, <2>3, After, Zenon
<1>7. CASE IsConnected /\ (CloseReturns(Stopper, webSocket) \/ (CloseWaits(Stopper, webSocket) /\ stopper' = "wsStop"))
  <2>1. PICK c \in Conns : c = webSocket
    BY <1>0, <1>7, Zenon DEF IsConnected, LinkTypes
  <2>2. /\ Sockets' /\ Aside(c)
        /\ sock'[c].writer = sock[c].writer /\ sock'[c].reader = sock[c].reader
        /\ sock'[c].conn = sock[c].conn /\ sock'[c].done = sock[c].done
        /\ sock'[c].forceQ = sock[c].forceQ
        /\ sock'[c].closeQ \in {sock[c].closeQ, 1}
        /\ CloseReturns(Stopper, c) => sock'[c].closeQ = 1 \/ ~IsOpen(c) \/ sock[c].done
    BY <1>0, <1>7, <2>1, CallEffect, Zenon
  <2>3. SocketLife(c) /\ sock[c].conn = "open"
    BY <1>0, <1>7, <2>1, Zenon DEF Life, IsConnected, IsOpen
  <2>4. SocketLife(c)'
    BY <2>2, <2>3, Zenon DEF SocketLife
  <2>5. Ages(c)
    BY <2>2, <2>3, <2>4 DEF Ages
  <2>6. Life'
    BY <1>0, <2>5, LifeFrame, Zenon
  <2>7. \A d \in Conns : sock'[d].writer = sock[d].writer
    BY <2>2, Zenon DEF Aside
  <2>8. Loops'
    BY <1>0, <1>1, <2>7, Zenon DEF Loops
  <2>9. ASSUME Chain, Stopped PROVE Chain' /\ Stopped'
    <3>1. Chain'
      BY <1>1, <2>7, <2>9, Zenon DEF Chain, Dialing, TearingDown
    <3>2. stopper' = "token" /\ sock[c].writer = "select" => sock'[c].closeQ = 1
      <4>1. sock[c].writer = "select" => ~sock[c].done
        BY <2>3 DEF SocketLife, Closed
      <4> QED BY <1>7, <2>1, <2>2, <2>3, <4>1 DEF IsOpen
    <3>3. Stopped'
      <4>1. stopper' \notin {"setHandler", "wsStop"} => stopper' = "token"
        BY <1>2
      <4> QED BY <1>1, <1>2, <2>1, <2>7, <2>9, <3>2, <4>1 DEF Stopped
    <3> QED BY <3>1, <3>3, Zenon
  <2> QED BY <1>0, <1>1, <1>3, <1>4, <1>5, <2>2, <2>6, <2>8, <2>9, After, Zenon
<1> QED BY <1>1, <1>6, <1>7, Zenon DEF StopCloses

\* The other steps of Stop touch no socket.
LEMMA StopStep ==
    ASSUME IndInv, StopSetsHandler \/ StopAborts \/ StopDispatcher \/ StopAwaits
    PROVE  IndInv'
PROOF
<1>0. /\ Sockets /\ LinkTypes /\ CallTypes /\ Life /\ Loops /\ Session /\ Kept
      /\ overlapped \/ (Chain /\ Resumes /\ Stopped)
  BY Before
<1>1. /\ stopper # "idle" /\ UNCHANGED <<sock, webSocket, paused, loop, app, awaits, crashed, history>>
      /\ onDisconnected' \in {"pause", "cleanup"} /\ cleanupC' \in 0..1 /\ reconnectC' \in 0..1
  BY <1>0 DEF StopSetsHandler, StopAborts, SendsToken, StopDispatcher, StopAwaits, LinkTypes
<1>2. \/ stopper' \in {"wsStop", "dispatcher"} /\ dispatcher' = dispatcher
         /\ (stopper' = "dispatcher" => stopper = "token")
      \/ stopper' = "await" /\ stopper = "dispatcher"
         /\ dispatcher' = IF dispatcher = "running" THEN "stopped" ELSE dispatcher
      \/ stopper' = "idle" /\ stopper = "await" /\ dispatcher' = dispatcher
  BY Zenon DEF StopSetsHandler, StopAborts, SendsToken, StopDispatcher, StopAwaits
<1>3. ~wanted /\ ~wanted'
  BY <1>0, <1>1, Zenon DEF Session
<1>4. Sockets' /\ Life' /\ Loops'
  BY <1>0, <1>1, Zenon DEF Sockets, Life, SocketLife, Loops
<1>5. LinkTypes'
  BY <1>0, <1>1, <1>2 DEF LinkTypes
<1>6. CallTypes'
  <2>1. stopper' \in {"idle", "setHandler", "wsStop", "token", "dispatcher", "await"}
    BY <1>2
  <2> QED BY <1>0, <1>1, <2>1, Zenon DEF CallTypes
<1>7. Session' /\ Kept' /\ Resumes'
  BY <1>3, Zenon DEF Session, Kept, Resumes
<1>8. ASSUME Chain, Stopped PROVE Chain' /\ Stopped'
  <2>1. Chain'
    BY <1>1, <1>8, Zenon DEF Chain, Dialing, TearingDown
  <2>2. Stopped'
    BY <1>1, <1>2, <1>3, <1>8 DEF Stopped
  <2> QED BY <2>1, <2>2, Zenon
<1> QED BY <1>0, <1>1, <1>4, <1>5, <1>6, <1>7, <1>8, After, Zenon

-----------------------------------------------------------------------------
(* The theorems *)

\* A client that was never started satisfies the invariant.
LEMMA InitInd == Init => IndInv
PROOF
<1> SUFFICES ASSUME Init PROVE IndInv
  OBVIOUS
<1>1. Sockets /\ Life
  <2>1. \A c \in Conns : Unborn(c) \in SocketType
    BY SocketAssumption DEF Unborn, SocketType, OutCap, ReaderPCs, WriterPCs
  <2>2. Sockets
    BY <2>1 DEF Init, InitSockets, Sockets
  <2>3. Life
    BY DEF Init, InitSockets, Unborn, Life, SocketLife, Running, Closed
  <2> QED BY <2>2, <2>3, Zenon
<1>2. LinkTypes /\ CallTypes
  <2>1. LinkTypes
    BY DEF Init, LinkTypes
  <2>2. 0 \in 0..MaxStarts /\ 0 \in 0..MaxFails
    OBVIOUS
  <2>3. CallTypes
    BY <2>2, Zenon DEF Init, CallTypes
  <2> QED BY <2>1, <2>3, Zenon
<1>3. Loops /\ Session /\ Kept
  BY Zenon DEF Init, Loops, Session, Kept, Loopers
<1>4. Chain /\ Resumes /\ Stopped
  <2>1. \A c \in Conns : sock[c].writer = "off"
    BY DEF Init, InitSockets, Unborn
  <2>2. \A l \in Loopers : loop[l] = "none"
    BY Zenon DEF Init
  <2>3. Chain
    BY <2>1, <2>2, Zenon DEF Init, Chain, Dialing, Loopers
  <2>4. Resumes /\ Stopped
    BY Zenon DEF Init, Resumes, Stopped
  <2> QED BY <2>3, <2>4, Zenon
<1> QED BY <1>1, <1>2, <1>3, <1>4, Types, Zenon DEF IndInv

\* Nothing changes when nothing happens.
LEMMA IdleStep ==
    ASSUME IndInv, UNCHANGED vars
    PROVE  IndInv'
PROOF
<1>0. /\ Sockets /\ LinkTypes /\ CallTypes /\ Life /\ Loops /\ Session /\ Kept
      /\ overlapped \/ (Chain /\ Resumes /\ Stopped)
  BY Before
<1>1. UNCHANGED <<sock, webSocket, reconnectC, onDisconnected, cleanupC, dispatcher, paused, loop,
                  app, stopper, awaits, crashed, starts, fails, wanted, staleToken, stalePause, overlapped>>
  BY Zenon DEF vars
<1>2. Sockets' /\ LinkTypes' /\ CallTypes' /\ Life'
  <2>1. Sockets' /\ Life'
    BY <1>0, <1>1, Zenon DEF Sockets, Life, SocketLife
  <2>2. LinkTypes'
    BY <1>0, <1>1, Zenon DEF LinkTypes
  <2>3. CallTypes'
    BY <1>0, <1>1, Zenon DEF CallTypes
  <2> QED BY <2>1, <2>2, <2>3, Zenon
<1>3. Loops' /\ Session' /\ Kept'
  BY <1>0, <1>1, Zenon DEF Loops, Session, Kept, Attended, Unclosed
<1>4. ASSUME Chain, Resumes, Stopped PROVE Chain' /\ Resumes' /\ Stopped'
  BY <1>1, <1>4, Zenon DEF Chain, Dialing, TearingDown, Resumes, IsConnected, IsOpen, Stopped
<1> QED BY <1>0, <1>1, <1>2, <1>3, <1>4, After, Zenon

\* Every step of the sockets, the reconnection loops and the two callers preserves the invariant.
LEMMA StepInd ==
    ASSUME IndInv, [Next]_vars
    PROVE  IndInv'
PROOF
<1>1. ASSUME NEW c \in Conns, WriteGoroutine(c) PROVE IndInv'
  BY <1>1, PumpStep, ErrorStep, DisconnectStep, Zenon DEF WriteGoroutine
<1>2. ASSUME NEW c \in Conns, ReadGoroutine(c) \/ NetworkLoss(c) PROVE IndInv'
  BY <1>2, ReadStep, Zenon
<1>3. ASSUME NEW l \in Loopers, HandleReconnection(l) PROVE IndInv'
  BY <1>3, BackoffStep, RedialStep, ReconnectedStep, Zenon DEF HandleReconnection
<1>4. ASSUME NEW kind \in {"start", "startWithRetries"}, StartCall(kind) PROVE IndInv'
  BY <1>4, StartCallStep, Zenon
<1>5. CASE Starting
  BY <1>5, FirstDialStep, StartDispatcherStep, Zenon DEF Starting
<1>6. CASE StopCall
  BY <1>6, StopCallStep, Zenon
<1>7. CASE Stopping
  BY <1>7, StopStep, StopClosesStep, Zenon DEF Stopping
<1>8. CASE Finished \/ UNCHANGED vars
  BY <1>8, IdleStep, Zenon DEF Finished
<1> QED BY <1>1, <1>2, <1>3, <1>4, <1>5, <1>6, <1>7, <1>8, Zenon DEF Next

(* The invariant of the client: who closes the published socket, who dials   *)
(* the next one, and what Stop has done by the time it has come that far,    *)
(* however cleanup, handleReconnection, Start, StartWithRetries and Stop     *)
(* interleave.                                                               *)
THEOREM IndInvHolds == Spec => []IndInv
PROOF BY InitInd, StepInd, PTL DEF Spec

\* Every variable of the client stays in its range, the two channels of one token included.
THEOREM TypeCorrect == Spec => []TypeOK
PROOF
<1>1. IndInv => TypeOK
  BY Zenon DEF IndInv
<1> QED BY <1>1, IndInvHolds, PTL

(* handleReconnection goes on for as long as the client is wanted: a started *)
(* client whose session did not find the token an earlier Stop left in       *)
(* reconnectC comes to rest only with a socket that is open, read and        *)
(* written.                                                                  *)
THEOREM StaysConnectedHolds == Spec => []StaysConnected
PROOF
<1>1. IndInv => StaysConnected
  <2> SUFFICES ASSUME IndInv, AtRest, wanted, ~staleToken, AutoReconnect
               PROVE  IsConnected /\ Live(webSocket)
    BY Zenon DEF StaysConnected, ReconnectsForever
  <2>1. Sockets /\ LinkTypes /\ Life /\ Attended
    BY Before, Zenon DEF Kept
  <2>2. webSocket # None /\ Unclosed(webSocket)
    BY <2>1 DEF Attended, AtRest
  <2>3. PICK c \in Conns : c = webSocket
    BY <2>1, <2>2, Zenon DEF LinkTypes
  <2>4. sock[c].writer = "select" /\ sock[c].forceQ # 1 /\ sock[c].reader \in {"off", "read", "exit"}
    <3>1. /\ sock[c].writer \in {"off", "select", "exit"}
          /\ sock[c].writer = "select" => sock[c].outQ + sock[c].pingQ + sock[c].closeQ + sock[c].forceQ = 0
          /\ sock[c].reader \in {"off", "read", "exit"}
      BY Zenon DEF AtRest, SocketsAtRest
    <3>2. sock[c].writer = "select"
      BY <2>2, <2>3, <3>1 DEF Unclosed
    <3>3. sock[c] \in SocketType
      BY <2>1, Zenon DEF Sockets
    <3>4. sock[c].forceQ # 1
      BY <3>1, <3>2, <3>3 DEF SocketType
    <3> QED BY <3>1, <3>2, <3>4, Zenon
  <2>5. sock[c].conn = "open" /\ sock[c].reader = "read"
    BY <2>1, <2>4 DEF Life, SocketLife, Running
  <2> QED BY <2>2, <2>3, <2>4, <2>5, Zenon DEF IsConnected, IsOpen, Live
<1> QED BY <1>1, IndInvHolds, PTL

(* Pause from one socket's cleanup and Resume from another's reconnection    *)
(* end in the right order: a connected client at rest has a dispatcher that  *)
(* runs and that no event of this session has left paused.                   *)
THEOREM DispatcherFollowsHolds == Spec => []DispatcherFollows
PROOF
<1>1. IndInv => DispatcherFollows
  <2> SUFFICES ASSUME IndInv, AtRest, wanted, ~overlapped, IsConnected
               PROVE  dispatcher = "running" /\ (paused => stalePause)
    BY Zenon DEF DispatcherFollows
  <2>1. Session /\ Resumes
    BY Before, Zenon
  <2>2. dispatcher = "running"
    BY <2>1, Zenon DEF Session, AtRest
  <2>3. paused => stalePause
    BY <2>1, Zenon DEF Resumes, AtRest
  <2> QED BY <2>2, <2>3, Zenon
<1> QED BY <1>1, IndInvHolds, PTL

(* Stop is final: once a Stop that met no dial has run, or waits for its     *)
(* cleanup event, no socket is left live and the dispatcher does not run.    *)
THEOREM StopIsFinalHolds == Spec => []StopIsFinal
PROOF
<1>1. IndInv => StopIsFinal
  <2> SUFFICES ASSUME IndInv, AtRest, ~wanted, ~overlapped
               PROVE  (\A c \in Conns : ~Live(c)) /\ dispatcher # "running"
    BY Zenon DEF StopIsFinal
  <2>1. Sockets /\ Chain /\ Stopped
    BY Before, Zenon
  <2>2. stopper \in {"idle", "await"} /\ \A l \in Loopers : loop[l] = "none"
    BY DEF AtRest, StopHangs
  <2>3. dispatcher # "running"
    BY <2>1, <2>2, Zenon DEF Stopped
  <2>4. ASSUME NEW c \in Conns, Live(c) PROVE FALSE
    <3>1. sock[c].writer = "select" /\ sock[c] \in SocketType
      BY <2>1, <2>4, Zenon DEF Live, Sockets
    <3>2. sock[c].outQ + sock[c].pingQ + sock[c].closeQ + sock[c].forceQ = 0
      BY <3>1, Zenon DEF AtRest, SocketsAtRest
    <3>3. sock[c].closeQ # 1
      BY <3>1, <3>2 DEF SocketType
    <3>4. c = webSocket
      BY <2>1, <2>2, <3>1 DEF Chain, Loopers
    <3> QED BY <2>1, <2>2, <3>1, <3>3, <3>4 DEF Stopped
  <2> QED BY <2>3, <2>4, Zenon
<1> QED BY <1>1, IndInvHolds, PTL

=============================================================================

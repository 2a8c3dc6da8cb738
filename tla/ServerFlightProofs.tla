------------------------- MODULE ServerFlightProofs -------------------------
(* Proofs about the requests in flight in ServerDispatcher and about their     *)
(* timeouts, for any clients, requests, readers, stoppers and bounds.          *)
EXTENDS ServerDispatcherProofs

USE ServerAssumption
USE DEF queueVars, chanVars, tokenVars, pumpVars, linkVars, ctlVars, sendUnchanged, readUnchanged,
        watchUnchanged, pumpUnchanged, armUnchanged, dispatchUnchanged, linkUnchanged, ctlUnchanged

-----------------------------------------------------------------------------
(* Requests in flight, when no connection is lost before onClientConnected has run *)

\* onClientDisconnected runs only after onClientConnected of the same connection, and before the next one.
LEMMA LinesStep ==
    ASSUME TypeOK, Hands, Lines, LateConnect = FALSE, [Next]_vars
    PROVE  Lines'
PROOF
<1> USE DEF Lines, Deleting
<1>0. /\ conn \in [Clients -> 0 .. MaxConns] /\ link \in [Clients -> BOOLEAN] /\ queueMap \in [Clients -> QueueRef]
      /\ disc \in [Clients -> {"idle", "remove", "rlock", "send", "ack", "clear"}]
  BY Zenon DEF TypeOK
<1>1. ASSUME NEW r \in Requests, Sends(r) PROVE Lines'
  BY <1>0, <1>1, SendFrame, Zenon
<1>2. ASSUME NEW r \in Requests, Watches(r) PROVE Lines'
  BY <1>0, <1>2, WatchFrame, Zenon
<1>3. ASSUME NEW p \in Readers, Reads(p) PROVE Lines'
  BY <1>0, <1>3, ReadFrame, Zenon
<1>4. CASE TakeToken
  BY <1>0, <1>4, TokenEffect, Zenon DEF PumpFrame
<1>5. CASE PumpGuard \/ PumpLoop
  BY <1>0, <1>5, DispatchEffect, Zenon DEF PumpFrame
<1>6. CASE PumpWrite
  BY <1>0, <1>6, Zenon DEF PumpWrite
<1>7. CASE PumpArm
  BY <1>0, <1>7, Zenon DEF PumpArm
<1>8. CASE PumpStopped
  BY <1>0, <1>8, Zenon DEF PumpStopped
<1>9. CASE PumpClearAll
  BY <1>0, <1>9, Zenon DEF PumpClearAll
<1>10. CASE PumpDrain
  BY <1>0, <1>10, Zenon DEF PumpDrain, CloseDone
<1>11. ASSUME NEW c \in Clients, Links(c) PROVE Lines'
  <2>1. CASE Register(c)
    BY <1>0, <2>1, Zenon DEF Register
  <2>2. CASE OnClientConnected(c)
    BY <1>0, <2>2, Zenon DEF OnClientConnected, CreateClient, GetOrCreate
  <2>3. CASE Unregister(c)
    BY <1>0, <2>3 DEF Unregister
  <2>4. CASE DeleteRemove(c)
    BY <1>0, <2>4, Zenon DEF DeleteRemove
  <2>5. CASE DeleteRLock(c)
    BY <1>0, <2>5, Zenon DEF DeleteRLock
  <2>6. CASE DeletePost(c)
    BY <1>0, <2>6, Zenon DEF DeletePost, Post, HasRoom
  <2>7. CASE DeleteTimeout(c)
    BY <1>0, <2>7, Zenon DEF DeleteTimeout
  <2>8. CASE ClearClientPendingRequest(c)
    BY <1>0, <2>8, Zenon DEF ClearClientPendingRequest
  <2> QED BY <1>11, <2>1, <2>2, <2>3, <2>4, <2>5, <2>6, <2>7, <2>8, Zenon DEF Links, DeleteClient
<1>12. CASE Controls
  BY <1>0, <1>12, ControlFrame, Zenon
<1>13. CASE UNCHANGED vars
  BY <1>0, <1>13, Zenon DEF vars
<1> QED BY <1>1, <1>2, <1>3, <1>4, <1>5, <1>6, <1>7, <1>8, <1>9, <1>10, <1>11, <1>12, <1>13, Zenon
     DEF Next, Step, Finished, Pump, TakeToken, Sends, Watches, Reads, Links, Controls

\* The pending request of a client without a queue is about to be cleared: by onClientDisconnected, or by Stop.
LEMMA LeavingStep ==
    ASSUME TypeOK, Session, Hands, Lines, Leaving, [Next]_vars
    PROVE  Leaving'
PROOF
<1> USE DEF Leaving, Deleting
<1>0. /\ queueMap \in [Clients -> QueueRef] /\ pending \in [Clients -> Requests \cup {None}]
      /\ disc \in [Clients -> {"idle", "remove", "rlock", "send", "ack", "clear"}]
      /\ \A p \in Readers : rd[p].pc # "idle" => rd[p].id \in Requests
  BY Zenon DEF TypeOK, Hands
<1>c. (NoCompletion \/ \E c \in Clients, r \in Requests : Completes(c, r)) =>
          \A d \in Clients : pending'[d] \in {None, pending[d]}
  <2>1. ASSUME NEW c \in Clients, NEW r \in Requests, Completes(c, r), NEW d \in Clients
        PROVE  pending'[d] \in {None, pending[d]}
    BY <1>0, <2>1, CompleteFacts DEF DeletePendingRequest
  <2> QED BY <2>1, Zenon DEF NoCompletion
<1>1. ASSUME NEW r \in Requests, Sends(r) PROVE Leaving'
  BY <1>0, <1>1, SendFrame, Zenon
<1>2. ASSUME NEW r \in Requests, Watches(r) PROVE Leaving'
  BY <1>0, <1>2, WatchFrame, Zenon
<1>3. ASSUME NEW p \in Readers, Reads(p) PROVE Leaving'
  <2>1. ASSUME NEW c \in Clients, ReadReply(p, c) PROVE Leaving'
    BY <1>0, <2>1, Zenon DEF ReadReply
  <2>2. CASE ReadPop(p)
    BY <1>0, <2>2, Zenon DEF ReadPop
  <2>3. CASE ReadDelete(p)
    BY <1>0, <2>3, Zenon DEF ReadDelete, DeletePendingRequest
  <2>4. CASE ReadSignal(p)
    BY <1>0, <2>4, Zenon DEF ReadSignal
  <2> QED BY <1>3, <2>1, <2>2, <2>3, <2>4, Zenon DEF Reads, ReadStep
<1>4. CASE TakeToken
  BY <1>0, <1>c, <1>4, TokenEffect, Zenon DEF PumpFrame
<1>5. CASE PumpGuard \/ PumpLoop
  <2>1. CASE \A d \in Clients : pending'[d] \in {None, pending[d]}
    BY <1>0, <2>1, <1>5, DispatchEffect, Zenon DEF PumpFrame
  <2>2. CASE ~\A d \in Clients : pending'[d] \in {None, pending[d]}
    <3>1. /\ Peek(Queue(queueMap[clientID])) = cur' /\ cur' # None
          /\ pending' = [pending EXCEPT ![clientID] = AddPendingRequest(@, cur')]
          /\ clientID \in Clients /\ PumpFrame /\ disc' = disc /\ pc \in {"guard", "loop"}
      BY <1>c, <2>2, <1>5, DispatchEffect, Zenon
    <3>2. queueMap[clientID] # 0
      BY <3>1, FrontFacts, Zenon
    <3> QED BY <1>0, <3>1, <3>2, Zenon DEF PumpFrame
  <2> QED BY <2>1, <2>2, Zenon
<1>6. CASE PumpWrite
  <2>1. NoCompletion \/ (cur \in Requests /\ clientID \in Clients /\ Owned(clientID, cur)
                         /\ Complete(clientID, cur, "write"))
    BY <1>0, <1>6, Zenon DEF PumpWrite, NoCompletion, TypeOK, Hands
  <2>2. \A d \in Clients : pending'[d] \in {None, pending[d]}
    BY <1>c, <2>1, Zenon DEF Completes
  <2> QED BY <1>0, <2>2, <1>6, Zenon DEF PumpWrite
<1>7. CASE PumpArm
  BY <1>0, <1>7, Zenon DEF PumpArm
<1>8. CASE PumpStopped
  BY <1>0, <1>8, Zenon DEF PumpStopped
<1>9. CASE PumpClearAll
  BY <1>0, <1>9, Zenon DEF PumpClearAll
<1>10. CASE PumpDrain
  BY <1>0, <1>10, Zenon DEF PumpDrain, CloseDone
<1>11. ASSUME NEW c \in Clients, Links(c) PROVE Leaving'
  <2>1. CASE Register(c)
    BY <1>0, <2>1, Zenon DEF Register
  <2>2. CASE OnClientConnected(c)
    BY <1>0, <2>2, Zenon DEF OnClientConnected, CreateClient, GetOrCreate
  <2>3. CASE Unregister(c)
    BY <1>0, <2>3, Zenon DEF Unregister, Lines
  <2>4. CASE DeleteRemove(c)
    BY <1>0, <2>4, Zenon DEF DeleteRemove
  <2>5. CASE DeleteRLock(c)
    BY <1>0, <2>5, Zenon DEF DeleteRLock
  <2>6. CASE DeletePost(c)
    BY <1>0, <2>6, Zenon DEF DeletePost, Post, HasRoom
  <2>7. CASE DeleteTimeout(c)
    BY <1>0, <2>7, Zenon DEF DeleteTimeout
  <2>8. CASE ClearClientPendingRequest(c)
    BY <1>0, <2>8, Zenon DEF ClearClientPendingRequest
  <2> QED BY <1>11, <2>1, <2>2, <2>3, <2>4, <2>5, <2>6, <2>7, <2>8, Zenon DEF Links, DeleteClient
<1>12. CASE Controls
  <2>1. CASE CallStart
    BY <1>0, <2>1, Zenon DEF CallStart
  <2>2. CASE Start
    BY <1>0, <2>2, Zenon DEF Start, Session
  <2>3. ASSUME NEW s \in Stoppers, CallStop(s) PROVE Leaving'
    BY <1>0, <2>3, Zenon DEF CallStop
  <2>4. ASSUME NEW s \in Stoppers, StopClose(s) PROVE Leaving'
    BY <1>0, <2>4, Zenon DEF StopClose
  <2>5. ASSUME NEW s \in Stoppers, StopJoin(s) PROVE Leaving'
    BY <1>0, <2>5, Zenon DEF StopJoin
  <2> QED BY <1>12, <2>1, <2>2, <2>3, <2>4, <2>5, Zenon DEF Controls, Stop
<1>13. CASE UNCHANGED vars
  BY <1>0, <1>13, Zenon DEF vars
<1> QED BY <1>1, <1>2, <1>3, <1>4, <1>5, <1>6, <1>7, <1>8, <1>9, <1>10, <1>11, <1>12, <1>13, Zenon
     DEF Next, Step, Finished, Pump, TakeToken, Sends, Watches, Reads, Links, Controls

\* The front of the queue of client c, once it was sent, is pending.
FrontPending(c) ==
    queueMap[c] # 0 /\ queues[queueMap[c]] # << >> /\ sent[Head(queues[queueMap[c]])] > 0
        => pending[c] = Head(queues[queueMap[c]])

\* What InFlightIsPending says of each client.
LEMMA InFlightFront ==
    ASSUME TypeOK
    PROVE  InFlightIsPending <=> \A c \in Clients : FrontPending(c)
PROOF
<1>1. ASSUME NEW c \in Clients
      PROVE  (LET r == Peek(Queue(queueMap[c])) IN r # None /\ sent[r] > 0 => pending[c] = r) <=> FrontPending(c)
  <2>1. CASE queueMap[c] = 0
    BY <2>1, Zenon DEF FrontPending, Peek, Queue, IsEmpty
  <2>2. CASE queueMap[c] # 0
    <3>1. queues[queueMap[c]] \in Seq(Requests)
      <4>1. queueMap[c] \in 0..Len(queues) /\ queues \in Seq(Seq(Requests))
        BY Zenon DEF TypeOK, QueueRef
      <4> QED BY <2>2, <4>1
    <3>2. queues[queueMap[c]] # << >> => Head(queues[queueMap[c]]) # None
      BY <3>1
    <3> QED BY <2>2, <3>2, Zenon DEF FrontPending, Peek, Queue, IsEmpty
  <2> QED BY <2>1, <2>2, Zenon
<1> QED BY <1>1, Zenon DEF InFlightIsPending

\* The pump holds on to the client and the request that it is dispatching, or waits for a token.
PumpKept == \/ pc' \notin {"loop", "write"}
            \/ UNCHANGED <<pc, clientID, cur>>

SendersKept == \A r \in Requests : Fresh(r)' => Fresh(r)

PoppersKept == \A p \in Readers : rd'[p].pc = "pop" => rd'[p] = rd[p] \/ sent[rd'[p].id] > 0

\* What the pump knows of the client that it is dispatching to.
Dispatching ==
    /\ pc \in {"loop", "write"} => Unsent(clientID)
    /\ pc = "loop" /\ queueMap[clientID] # 0 => pending[clientID] = None
    /\ pc = "write" => /\ sent[cur] = 0 /\ ~Fresh(cur)
                       /\ queueMap[clientID] # 0 =>
                              \/ FrontIs(queues[queueMap[clientID]], cur) /\ pending[clientID] = cur
                              \/ cur \notin Range(queues[queueMap[clientID]]) /\ pending[clientID] = None

\* What was sent is the front of its queue, client by client, with the pump's own part in Dispatching.
Parts ==
    /\ \A c \in Clients : BackUnsent(c) /\ FrontPending(c)
    /\ \A r \in Requests : (Fresh(r) => sent[r] = 0) /\ sent[r] <= 1
    /\ \A p \in Readers : rd[p].pc = "pop" => sent[rd[p].id] > 0
    /\ Dispatching

\* Parts is Written, said for one client at a time.
LEMMA WrittenParts == TypeOK => (Written <=> Parts)
PROOF BY InFlightFront, Zenon DEF Written, Dispatching, NeverRewritten, Parts

\* ... also after a step.
LEMMA WrittenPartsNext == TypeOK' => (Written' <=> Parts')
PROOF BY WrittenParts, PTL

\* A queue of which nothing was sent has no front in flight.
LEMMA UnsentFront == TypeOK => \A c \in Clients : Unsent(c) => BackUnsent(c) /\ FrontPending(c)
PROOF
<1> SUFFICES ASSUME TypeOK, NEW c \in Clients, Unsent(c) PROVE BackUnsent(c) /\ FrontPending(c)
  BY Zenon
<1>1. CASE queueMap[c] # 0
  <2>1. queueMap[c] \in 0..Len(queues) /\ queues \in Seq(Seq(Requests))
    BY Zenon DEF TypeOK, QueueRef
  <2>2. queues[queueMap[c]] \in Seq(Requests)
    BY <1>1, <2>1
  <2>3. queues[queueMap[c]] # << >> => Head(queues[queueMap[c]]) \in Range(queues[queueMap[c]])
    BY <2>2 DEF Range
  <2>4. \A i \in DOMAIN queues[queueMap[c]] : queues[queueMap[c]][i] \in Range(queues[queueMap[c]])
    BY Zenon DEF Range
  <2> QED BY <1>1, <2>3, <2>4 DEF Unsent, FrontPending, BackUnsent
<1>2. CASE queueMap[c] = 0
  BY <1>2, Zenon DEF FrontPending, BackUnsent
<1> QED BY <1>1, <1>2, Zenon

\* ... also after a step.
LEMMA UnsentFrontNext == TypeOK' => (\A c \in Clients : Unsent(c) => BackUnsent(c) /\ FrontPending(c))'
PROOF BY UnsentFront, PTL

\* The pump waits for a token, or goes on with the client and the request that it has, for which nothing has changed.
LEMMA DispatchingKept ==
    ASSUME TypeOK, Dispatching, SendersKept, UNCHANGED <<queues, sent, pending>>, PumpKept,
           \A c \in Clients : queueMap'[c] \in {0, queueMap[c]}, pc \in {"loop", "write"} => clientID \in Clients
    PROVE  Dispatching'
PROOF
<1>1. CASE pc' \notin {"loop", "write"}
  BY <1>1, Zenon DEF Dispatching
<1>2. CASE UNCHANGED <<pc, clientID, cur>> /\ pc \in {"loop", "write"}
  <2>1. pc = "write" => (~Fresh(cur) => ~Fresh(cur)')
    BY <1>2, Zenon DEF TypeOK, SendersKept, Fresh
  <2>2. queueMap'[clientID] \in {0, queueMap[clientID]}
    BY <1>2, Zenon
  <2> QED BY <1>2, <2>1, <2>2, Zenon DEF Dispatching, Unsent
<1> QED BY <1>1, <1>2, Zenon DEF PumpKept

\* A step that sends nothing, moves no request and forgets no pending one.
LEMMA QuietWritten ==
    ASSUME TypeOK, TypeOK', Written, UNCHANGED <<queues, sent, pending>>, PumpKept, SendersKept, PoppersKept,
           \A c \in Clients : queueMap'[c] \in {0, queueMap[c]}, pc \in {"loop", "write"} => clientID \in Clients
    PROVE  Written'
PROOF
<1>1. Parts
  BY WrittenParts, Zenon
<1>2. \A c \in Clients : BackUnsent(c)' /\ FrontPending(c)'
  BY <1>1 DEF Parts, BackUnsent, FrontPending
<1>3. /\ (\A r \in Requests : (Fresh(r) => sent[r] = 0) /\ sent[r] <= 1)'
      /\ (\A p \in Readers : rd[p].pc = "pop" => sent[rd[p].id] > 0)'
  BY <1>1, Zenon DEF Parts, SendersKept, PoppersKept
<1>4. Dispatching'
  BY <1>1, DispatchingKept, Zenon DEF Parts
<1> QED BY <1>2, <1>3, <1>4, WrittenPartsNext, Zenon DEF Parts

\* When the front of a queue is popped, nothing that is left in that queue was sent.
LEMMA PoppedUnsent ==
    ASSUME Heap, NEW q \in DOMAIN queues, queues[q] # << >>, queues' = [queues EXCEPT ![q] = Tail(@)],
           UNCHANGED <<queueMap, sent>>, NEW c \in Clients, queueMap[c] \in QueueRef, BackUnsent(c)
    PROVE  /\ queueMap[c] = q => Unsent(c)'
           /\ queueMap[c] # 0 /\ queueMap[c] # q => queues'[queueMap[c]] = queues[queueMap[c]]
           /\ Unsent(c) => Unsent(c)'
PROOF
<1>1. /\ \A t \in DOMAIN queues \ {q} : queues'[t] = queues[t]
      /\ \A i \in DOMAIN queues'[q] : \E j \in DOMAIN queues[q] : j # 1 /\ queues'[q][i] = queues[q][j]
  BY PoppedHeap, Zenon DEF SameQueue
<1>2. queueMap[c] # 0 => queueMap[c] \in DOMAIN queues
  BY DEF QueueRef, Heap
<1>3. queueMap[c] = q /\ q # 0 => Unsent(c)'
  BY <1>1 DEF BackUnsent, Unsent, Range
<1>4. q # 0
  BY DEF Heap
<1> QED BY <1>1, <1>2, <1>3, <1>4, Zenon DEF Unsent

\* The pump completes a request of the client, which then has nothing in flight.
LEMMA CompleteWritten ==
    ASSUME TypeOK, Hands, TypeOK', Written, NEW c \in Clients, NEW r \in Requests, Completes(c, r),
           UNCHANGED <<queueMap, sent, snd, rd>>,
           pc' \notin {"loop", "write"} \/ (pc' = "loop" /\ clientID' = c /\ pending[c] \in {None, r})
    PROVE  Written'
PROOF
<1>1. Parts /\ Heap /\ \A d \in Clients : queueMap[d] \in QueueRef
  BY WrittenParts, Zenon DEF TypeOK, Heap
<1>2. /\ queueMap[c] \in DOMAIN queues /\ queueMap[c] # 0 /\ queues[queueMap[c]] # << >>
      /\ queues' = [queues EXCEPT ![queueMap[c]] = Tail(@)]
      /\ pending' = [pending EXCEPT ![c] = DeletePendingRequest(@, r)]
  BY CompleteFacts, Zenon
<1>3. ASSUME NEW d \in Clients PROVE BackUnsent(d)' /\ FrontPending(d)' /\ (d = c => Unsent(d)')
  <2>1. /\ queueMap[d] = queueMap[c] => Unsent(d)'
        /\ queueMap[d] # 0 /\ queueMap[d] # queueMap[c] => queues'[queueMap[d]] = queues[queueMap[d]]
    BY <1>1, <1>2, PoppedUnsent, Zenon DEF Parts
  <2>2. CASE d = c
    BY <2>1, <2>2, UnsentFrontNext, Zenon
  <2>3. CASE d # c
    <3>1. queueMap[d] = 0 \/ queueMap[d] # queueMap[c]
      BY <1>2, <2>3, Zenon DEF Hands
    <3>2. pending'[d] = pending[d]
      BY <1>2, <2>3 DEF TypeOK
    <3>3. queueMap[d] # 0 => queues'[queueMap[d]] = queues[queueMap[d]]
      BY <2>1, <3>1, Zenon
    <3>4. BackUnsent(d) /\ FrontPending(d)
      BY <1>1, Zenon DEF Parts
    <3> QED BY <2>3, <3>2, <3>3, <3>4, Zenon DEF BackUnsent, FrontPending
  <2> QED BY <2>2, <2>3, Zenon
<1>4. (\A x \in Requests : (Fresh(x) => sent[x] = 0) /\ sent[x] <= 1)'
  BY <1>1, Zenon DEF Parts, Fresh
<1>5. (\A p \in Readers : rd[p].pc = "pop" => sent[rd[p].id] > 0)'
  BY <1>1, Zenon DEF Parts
<1>6. Dispatching'
  <2>1. CASE pc' \notin {"loop", "write"}
    BY <2>1, Zenon DEF Dispatching
  <2>2. CASE pc' = "loop" /\ clientID' = c /\ pending[c] \in {None, r}
    <3>1. pending'[c] = None
      BY <1>2, <2>2 DEF DeletePendingRequest, TypeOK
    <3>2. Unsent(clientID)'
      BY <1>3, <2>2, Zenon DEF Unsent
    <3> QED BY <2>2, <3>1, <3>2, Zenon DEF Dispatching
  <2> QED BY <2>1, <2>2, Zenon
<1> QED BY <1>3, <1>4, <1>5, <1>6, WrittenPartsNext, Zenon DEF Parts

\* A request that is pushed was not sent before, and is not the one that the pump is writing.
LEMMA PushWritten ==
    ASSUME TypeOK, Hands, TypeOK', Written, NEW r \in Requests, SendPush(r)
    PROVE  Written'
PROOF
<1>1. Parts /\ Heap /\ \A d \in Clients : queueMap[d] # 0 => queueMap[d] \in DOMAIN queues
  <2>1. Heap /\ \A d \in Clients : queueMap[d] \in 0..Len(queues)
    BY Zenon DEF TypeOK, Heap, QueueRef
  <2> QED BY <2>1, WrittenParts DEF Heap
<1>2. /\ snd[r] = "push" /\ ref[r] \in DOMAIN queues
      /\ UNCHANGED <<queueMap, pending, sent, rd, pc, clientID, cur>>
      /\ \/ queues' = queues /\ snd' = [snd EXCEPT ![r] = "failed"]
         \/ queues' = [queues EXCEPT ![ref[r]] = Push(@, r)] /\ snd' = [snd EXCEPT ![r] = "rlock"]
  BY PushEffect, Zenon
<1>3. SendersKept /\ Fresh(r) /\ PoppersKept /\ PumpKept
  <2>1. snd \in [Requests -> {"idle", "get", "push", "rlock", "send", "accepted", "failed"}]
    BY Zenon DEF TypeOK
  <2> QED BY <1>2, <2>1, Zenon DEF SendersKept, Fresh, PoppersKept, PumpKept
<1>4. CASE queues' = queues
  BY <1>2, <1>3, <1>4, QuietWritten, Zenon DEF Hands
<1>5. CASE queues' = [queues EXCEPT ![ref[r]] = Push(@, r)]
  <2>1. sent[r] = 0
    BY <1>1, <1>3, Zenon DEF Parts
  <2>0. PICK q \in DOMAIN queues : q = ref[r]
    BY <1>2, Zenon
  <2>2. /\ \A t \in DOMAIN queues \ {q} : queues'[t] = queues[t]
        /\ Range(queues'[q]) = Range(queues[q]) \cup {r}
        /\ \A i \in DOMAIN queues'[q] : \/ i \in DOMAIN queues[q] /\ queues'[q][i] = queues[q][i]
                                        \/ queues'[q][i] = r
        /\ queues'[q] # << >>
        /\ Head(queues'[q]) = IF queues[q] = << >> THEN r ELSE Head(queues[q])
    <3>1. Heap /\ queues' = [queues EXCEPT ![q] = Push(@, r)]
      BY <1>1, <1>5, <2>0, Zenon
    <3> HIDE DEF Heap
    <3>2. \A t \in DOMAIN queues \ {q} : SameQueue(t)
      BY <3>1, PushedHeap, Zenon
    <3>3. /\ Range(queues'[q]) = Range(queues[q]) \cup {r} /\ queues'[q] # << >>
          /\ Head(queues'[q]) = IF queues[q] = << >> THEN r ELSE Head(queues[q])
      BY <3>1, PushedHeap, Zenon
    <3>4. \A i \in DOMAIN queues'[q] : \/ i \in DOMAIN queues[q] /\ queues'[q][i] = queues[q][i]
                                     \/ queues'[q][i] = r
      BY <3>1, PushedHeap, Zenon
    <3> QED BY <3>2, <3>3, <3>4, Zenon DEF SameQueue
  <2>3. ASSUME NEW c \in Clients
        PROVE  BackUnsent(c)' /\ FrontPending(c)' /\ (Unsent(c) => Unsent(c)')
    <3>1. CASE queueMap[c] = q
      BY <1>1, <1>2, <2>1, <2>2, <3>1 DEF Parts, BackUnsent, FrontPending, Unsent
    <3>2. CASE queueMap[c] # q
      BY <1>1, <1>2, <2>2, <3>2 DEF Parts, BackUnsent, FrontPending, Unsent
    <3> QED BY <3>1, <3>2, Zenon
  <2>4. (\A x \in Requests : (Fresh(x) => sent[x] = 0) /\ sent[x] <= 1)'
    BY <1>1, <1>2, <1>3, Zenon DEF Parts, SendersKept
  <2>5. (\A p \in Readers : rd[p].pc = "pop" => sent[rd[p].id] > 0)'
    BY <1>1, <1>2, Zenon DEF Parts
  <2>6. Dispatching'
    <3>1. pc \in {"loop", "write"} => clientID \in Clients
      BY Zenon DEF Hands
    <3>2. pc \in {"loop", "write"} => Unsent(clientID)'
      BY <1>1, <1>2, <2>3, <3>1, Zenon DEF Parts, Dispatching, Unsent
    <3>3. pc = "write" => cur \in Requests /\ cur # r /\ ~Fresh(cur)'
      BY <1>1, <1>2, <1>3, Zenon DEF Parts, Dispatching, TypeOK, SendersKept, Fresh
    <3>4. pc = "write" /\ queueMap[clientID] # 0 =>
              \/ FrontIs(queues'[queueMap[clientID]], cur) /\ pending[clientID] = cur
              \/ cur \notin Range(queues'[queueMap[clientID]]) /\ pending[clientID] = None
      <4>1. CASE queueMap[clientID] = q
        <5>1. pc = "write" /\ queueMap[clientID] # 0 =>
                  \/ FrontIs(queues[q], cur) /\ pending[clientID] = cur
                  \/ cur \notin Range(queues[q]) /\ pending[clientID] = None
          BY <1>1, <4>1, Zenon DEF Parts, Dispatching
        <5> QED BY <2>2, <3>3, <4>1, <5>1 DEF FrontIs, IsEmpty
      <4>2. CASE queueMap[clientID] # q
        BY <1>1, <2>2, <3>1, <4>2, Zenon DEF Parts, Dispatching, FrontIs, IsEmpty
      <4> QED BY <4>1, <4>2, Zenon
    <3> QED BY <1>1, <1>2, <3>2, <3>3, <3>4, Zenon DEF Parts, Dispatching, FrontIs, IsEmpty
  <2> QED BY <2>3, <2>4, <2>5, <2>6, WrittenPartsNext, Zenon DEF Parts
<1> QED BY <1>2, <1>4, <1>5, Zenon

\* Without queues nothing is in flight.
LEMMA EmptiedWritten ==
    ASSUME TypeOK, TypeOK', Written, \A c \in Clients : queueMap'[c] = 0, UNCHANGED <<sent, snd, rd>>,
           pc' \notin {"loop", "write"}
    PROVE  Written'
PROOF
<1>1. Parts
  BY WrittenParts, Zenon
<1>2. \A c \in Clients : BackUnsent(c)' /\ FrontPending(c)'
  BY Zenon DEF BackUnsent, FrontPending
<1> QED BY <1>1, <1>2, WrittenPartsNext, Zenon DEF Parts, Dispatching, Fresh

\* A reply is accepted for the request in flight, which the read goroutine pops before it frees the pending slot.
LEMMA ReadWritten ==
    ASSUME TypeOK, Hands, Ownership, TypeOK', Written, NEW p \in Readers, Reads(p)
    PROVE  Written'
PROOF
<1>0. /\ rd \in [Readers -> [pc : {"idle", "pop", "delete", "signal"}, id : Requests \cup {None}, q : QueueRef]]
      /\ \A c \in Clients : queueMap[c] \in QueueRef
      /\ Heap /\ pending \in [Clients -> Requests \cup {None}]
      /\ pc \in {"loop", "write"} => clientID \in Clients
      /\ pc = "write" => cur \in Requests
  BY Zenon DEF TypeOK, Hands, Heap
<1>1. UNCHANGED <<queueMap, sent, snd, pc, clientID, cur>> /\ PumpKept /\ SendersKept
  BY Zenon DEF Reads, ReadReply, ReadStep, ReadPop, ReadDelete, ReadSignal, PumpKept, SendersKept, Fresh
<1>2. Parts
  BY WrittenParts, Zenon
<1>3. ASSUME NEW c \in Clients, ReadReply(p, c) PROVE Written'
  <2>1. UNCHANGED <<queues, pending>> /\ PoppersKept
    BY <1>0, <1>3, Zenon DEF ReadReply, PoppersKept
  <2> QED BY <1>0, <1>1, <2>1, QuietWritten, Zenon
<1>4. CASE ReadPop(p)
  <2>1. pending' = pending
    BY <1>4, Zenon DEF ReadPop
  <2>2. CASE queues' = queues /\ rd' = [rd EXCEPT ![p] = [pc |-> "idle", id |-> None, q |-> 0]]
    <3>1. PoppersKept
      BY <1>0, <2>2, Zenon DEF PoppersKept
    <3> QED BY <1>0, <1>1, <2>1, <2>2, <3>1, QuietWritten, Zenon
  <2>3. CASE /\ queues' = [queues EXCEPT ![rd[p].q] = Tail(@)]
             /\ queues[rd[p].q] # << >> /\ Head(queues[rd[p].q]) = rd[p].id
             /\ rd' = [rd EXCEPT ![p] = [pc |-> "delete", id |-> rd[p].id, q |-> 0]]
    <3>0. PICK q \in DOMAIN queues : q = rd[p].q
      BY <1>4, PopEffect, Zenon
    <3>1. queues' = [queues EXCEPT ![q] = Tail(@)] /\ queues[q] # << >> /\ sent[Head(queues[q])] > 0
      BY <1>2, <1>4, <2>3, <3>0, Zenon DEF Parts, ReadPop
    <3>2. ASSUME NEW c \in Clients
          PROVE  /\ queueMap[c] = q => Unsent(c)'
                 /\ queueMap[c] # 0 /\ queueMap[c] # q => queues'[queueMap[c]] = queues[queueMap[c]]
                 /\ Unsent(c) => Unsent(c)'
      BY <1>0, <1>1, <1>2, <3>1, PoppedUnsent, Zenon DEF Parts
    <3>3. \A c \in Clients : BackUnsent(c)' /\ FrontPending(c)'
      <4>1. ASSUME NEW c \in Clients, queueMap[c] = q PROVE BackUnsent(c)' /\ FrontPending(c)'
        BY <3>2, <4>1, UnsentFrontNext, Zenon
      <4>2. ASSUME NEW c \in Clients, queueMap[c] # q PROVE BackUnsent(c)' /\ FrontPending(c)'
        BY <1>1, <1>2, <2>1, <3>2, <4>2 DEF Parts, BackUnsent, FrontPending
      <4> QED BY <4>1, <4>2, Zenon
    <3>4. /\ (\A x \in Requests : (Fresh(x) => sent[x] = 0) /\ sent[x] <= 1)'
          /\ (\A o \in Readers : rd[o].pc = "pop" => sent[rd[o].id] > 0)'
      BY <1>0, <1>1, <1>2, <2>3, Zenon DEF Parts, Fresh
    <3>5. pc \in {"loop", "write"} /\ queueMap[clientID] # 0 => queueMap[clientID] # q
      <4> SUFFICES ASSUME pc \in {"loop", "write"}, queueMap[clientID] # 0, queueMap[clientID] = q PROVE FALSE
        BY Zenon
      <4>1. Head(queues[q]) \in Range(queues[q])
        BY <1>0, <3>1, PoppedHeap, Zenon
      <4>2. sent[Head(queues[q])] = 0
        BY <1>2, <4>1, Zenon DEF Parts, Dispatching, Unsent
      <4> QED BY <3>1, <4>2
    <3>6. Dispatching'
      <4>1. pc \in {"loop", "write"} => Unsent(clientID)'
        BY <1>0, <1>1, <1>2, <3>2, Zenon DEF Parts, Dispatching, Unsent
      <4>2. pc = "write" => ~Fresh(cur)'
        BY <1>1, <1>2, Zenon DEF Parts, Dispatching, Fresh
      <4>3. pc = "write" /\ queueMap[clientID] # 0 => queues'[queueMap[clientID]] = queues[queueMap[clientID]]
        BY <1>0, <3>2, <3>5, Zenon
      <4> QED BY <1>1, <1>2, <2>1, <4>1, <4>2, <4>3, Zenon DEF Parts, Dispatching
    <3> QED BY <3>3, <3>4, <3>6, WrittenPartsNext, Zenon DEF Parts
  <2> QED BY <1>4, <2>2, <2>3, PopEffect, Zenon
<1>5. CASE ReadDelete(p)
  <2>1. PICK r \in Requests : r = rd[p].id
    BY <1>0, <1>5, Zenon DEF ReadDelete, Hands
  <2>2. ReaderOwns(p, r) /\ ~Queued(r)
    BY <1>5, <2>1, Zenon DEF ReadDelete, ReaderOwns, Ownership
  <2>3. /\ queues' = queues /\ \A c \in Clients : pending'[c] = pending[c] \/ (pending[c] = r /\ pending'[c] = None)
        /\ \A o \in Readers : rd'[o].pc = "pop" => rd'[o] = rd[o]
    BY <1>0, <1>5, <2>1, Zenon DEF ReadDelete, DeletePendingRequest
  <2>4. \A c \in Clients : queueMap[c] # 0 =>
           queues[queueMap[c]] \in Seq(Requests) /\ r \notin Range(queues[queueMap[c]])
    <3>1. \A c \in Clients : queueMap[c] # 0 => queueMap[c] \in DOMAIN queues
      BY <1>0 DEF QueueRef, Heap
    <3> QED BY <1>0, <2>2, <3>1 DEF Queued, Heap
  <2>5. \A c \in Clients : queueMap[c] # 0 /\ queues[queueMap[c]] # << >> => Head(queues[queueMap[c]]) # r
    <3>1. ASSUME NEW s \in Seq(Requests), s # << >> PROVE Head(s) \in Range(s)
      BY <3>1 DEF Range
    <3> QED BY <2>4, <3>1, Zenon
  <2>6. \A c \in Clients : BackUnsent(c)' /\ FrontPending(c)'
    BY <1>1, <1>2, <2>3, <2>5 DEF Parts, BackUnsent, FrontPending
  <2>7. /\ (\A x \in Requests : (Fresh(x) => sent[x] = 0) /\ sent[x] <= 1)'
        /\ (\A o \in Readers : rd[o].pc = "pop" => sent[rd[o].id] > 0)'
    BY <1>1, <1>2, <2>3, Zenon DEF Parts, Fresh
  <2>8. Dispatching'
    <3>1. pc \in {"loop", "write"} => Unsent(clientID)'
      BY <1>1, <1>2, <2>3, Zenon DEF Parts, Dispatching, Unsent
    <3>2. pc = "write" => ~Fresh(cur)'
      BY <1>1, <1>2, Zenon DEF Parts, Dispatching, Fresh
    <3>3. pc = "write" /\ queueMap[clientID] # 0 /\ FrontIs(queues[queueMap[clientID]], cur) => cur # r
      BY <1>0, <2>5, Zenon DEF FrontIs, IsEmpty
    <3> QED BY <1>0, <1>1, <1>2, <2>3, <3>1, <3>2, <3>3, Zenon DEF Parts, Dispatching
  <2> QED BY <2>6, <2>7, <2>8, WrittenPartsNext, Zenon DEF Parts
<1>6. CASE ReadSignal(p)
  <2>1. UNCHANGED <<queues, pending>> /\ PoppersKept
    BY <1>0, <1>6, Zenon DEF ReadSignal, PoppersKept
  <2> QED BY <1>0, <1>1, <2>1, QuietWritten, Zenon
<1> QED BY <1>3, <1>4, <1>5, <1>6, Zenon DEF Reads, ReadStep

\* dispatchNextRequest: the front becomes the pending request only when nothing of the client is in flight.
LEMMA DispatchWritten ==
    ASSUME TypeOK, Hands, Ownership, TypeOK', Written, PumpGuard \/ PumpLoop
    PROVE  Written'
PROOF
<1>0. Parts /\ pending \in [Clients -> Requests \cup {None}]
  BY WrittenParts, Zenon DEF TypeOK
<1>1. /\ pc \in {"guard", "loop"} /\ clientID \in Clients /\ PumpFrame /\ UNCHANGED <<clientID, sent>>
      /\ pc = "guard" /\ pc' # "select" => pending[clientID] = None
  BY DispatchEffect, Zenon
<1>2. PICK c \in Clients : c = clientID
  BY <1>1, Zenon
<1>3. SendersKept /\ PoppersKept /\ UNCHANGED <<queueMap, snd, rd>>
  BY <1>1, Zenon DEF PumpFrame, SendersKept, PoppersKept, Fresh
<1>4. CASE NoCompletion /\ pc' = "select" /\ cur' = cur
  BY <1>1, <1>3, <1>4, QuietWritten, Zenon DEF NoCompletion, PumpKept
<1>5. ASSUME queueMap[c] # 0, pc' # "select" PROVE pending[c] = None /\ Unsent(c)
  <2>1. pending[c] = None
    BY <1>0, <1>1, <1>2, <1>5, Zenon DEF Parts, Dispatching
  <2>2. CASE pc = "loop"
    BY <1>0, <1>2, <2>1, <2>2, Zenon DEF Parts, Dispatching
  <2>3. CASE pc = "guard"
    <3>1. queueMap[c] \in 0..Len(queues) /\ queues \in Seq(Seq(Requests)) /\ sent \in [Requests -> Nat]
      BY Zenon DEF TypeOK, QueueRef
    <3>2. queues[queueMap[c]] \in Seq(Requests)
      BY <1>5, <3>1
    <3>3. queues[queueMap[c]] # << >> => /\ Head(queues[queueMap[c]]) = queues[queueMap[c]][1]
                                         /\ Head(queues[queueMap[c]]) \in Requests
      BY <3>2
    <3>4. queues[queueMap[c]] # << >> => sent[Head(queues[queueMap[c]])] = 0
      <4> DEFINE h == Head(queues[queueMap[c]])
      <4>1. queues[queueMap[c]] # << >> /\ sent[h] > 0 => pending[c] = h
        BY <1>0, <1>5, Zenon DEF Parts, FrontPending
      <4>2. queues[queueMap[c]] # << >> => ~(sent[h] > 0) /\ sent[h] \in Nat
        BY <2>1, <3>1, <3>3, <4>1, Zenon
      <4> QED BY <4>2
    <3>5. \A i \in DOMAIN queues[queueMap[c]] : queues[queueMap[c]] # << >>
      BY <3>2
    <3>6. \A i \in DOMAIN queues[queueMap[c]] : sent[queues[queueMap[c]][i]] = 0
      BY <1>0, <1>5, <3>3, <3>4, <3>5, Zenon DEF Parts, BackUnsent
    <3> QED BY <2>1, <3>6, Zenon DEF Unsent, Range
  <2> QED BY <1>1, <2>1, <2>2, <2>3, Zenon
<1>6. ASSUME pc' = "loop", NEW r \in Requests, Completes(clientID, r) PROVE Written'
  <2>1. queueMap[c] # 0
    BY <1>2, <1>6, CompleteFacts, Zenon
  <2> QED BY <1>1, <1>2, <1>3, <1>5, <1>6, <2>1, CompleteWritten, Zenon
<1>7. CASE /\ pc' = "write" /\ cur' # None /\ Peek(Queue(queueMap[clientID])) = cur'
           /\ UNCHANGED <<queues, outcome>>
           /\ pending' = [pending EXCEPT ![clientID] = AddPendingRequest(@, cur')]
  <2>1. PICK r \in Requests : r = cur'
    BY <1>1, <1>7, FrontFacts, Zenon
  <2>2. /\ queueMap[c] \in DOMAIN queues /\ queueMap[c] # 0 /\ queues[queueMap[c]] # << >>
        /\ r = Head(queues[queueMap[c]]) /\ r \in Range(queues[queueMap[c]])
    BY <1>2, <1>7, <2>1, FrontFacts, Zenon
  <2>3. pending[c] = None /\ Unsent(c)
    BY <1>5, <1>7, <2>2, Zenon
  <2>4. pending' = [pending EXCEPT ![c] = r] /\ pending'[c] = r
    BY <1>0, <1>2, <1>7, <2>1, <2>3, Zenon DEF AddPendingRequest
  <2>5. sent[r] = 0 /\ ~Fresh(r)
    <3>1. Queued(r)
      BY <2>2, Zenon DEF Queued
    <3> QED BY <2>2, <2>3, <3>1, Zenon DEF Unsent, Ownership
  <2>6. ASSUME NEW d \in Clients PROVE BackUnsent(d)' /\ FrontPending(d)'
    <3>1. CASE d = c
      BY <1>1, <1>3, <1>7, <2>3, <3>1, UnsentFrontNext, Zenon DEF Unsent
    <3>2. CASE d # c
      <4>1. pending'[d] = pending[d]
        BY <1>0, <2>4, <3>2, Zenon
      <4> QED BY <1>0, <1>1, <1>3, <1>7, <4>1, Zenon DEF Parts, BackUnsent, FrontPending
    <3> QED BY <3>1, <3>2, Zenon
  <2>7. /\ (\A x \in Requests : (Fresh(x) => sent[x] = 0) /\ sent[x] <= 1)'
        /\ (\A o \in Readers : rd[o].pc = "pop" => sent[rd[o].id] > 0)'
    BY <1>0, <1>1, <1>3, Zenon DEF Parts, Fresh
  <2>8. Dispatching'
    <3>1. Unsent(clientID)'
      BY <1>1, <1>2, <1>3, <1>7, <2>3, Zenon DEF Unsent
    <3>2. sent'[cur'] = 0 /\ ~Fresh(cur)'
      BY <1>1, <1>3, <2>1, <2>5, Zenon DEF Fresh
    <3>3. FrontIs(queues'[queueMap'[clientID']], cur') /\ pending'[clientID'] = cur'
      BY <1>1, <1>2, <1>3, <1>7, <2>1, <2>2, <2>4, Zenon DEF FrontIs, IsEmpty
    <3> QED BY <1>7, <3>1, <3>2, <3>3, Zenon DEF Dispatching
  <2> QED BY <2>6, <2>7, <2>8, WrittenPartsNext, Zenon DEF Parts
<1> QED BY <1>4, <1>6, <1>7, DispatchEffect, Zenon

\* d.network.Write: the request is sent once, as the front of its queue and the pending one, unless its queue
\* has gone.
LEMMA WriteWritten ==
    ASSUME TypeOK, Hands, Ownership, TypeOK', Written, PumpWrite
    PROVE  Written'
PROOF
<1>0. /\ Parts /\ sent \in [Requests -> Nat] /\ pc = "write" /\ cur \in Requests /\ clientID = ClientOf[cur]
      /\ clientID \in Clients
  BY WrittenParts, Zenon DEF TypeOK, Hands, PumpWrite
<1>1. PICK r \in Requests, c \in Clients : r = cur /\ c = clientID /\ c = ClientOf[r]
  BY <1>0, Zenon
<1>2. UNCHANGED <<queueMap, snd, rd, clientID>> /\ SendersKept
  BY Zenon DEF PumpWrite, SendersKept, Fresh
<1>3. /\ sent[r] = 0 /\ ~Fresh(r) /\ Unsent(c)
      /\ queueMap[c] # 0 => \/ FrontIs(queues[queueMap[c]], r) /\ pending[c] = r
                            \/ r \notin Range(queues[queueMap[c]]) /\ pending[c] = None
  BY <1>0, <1>1, Zenon DEF Parts, Dispatching
<1>4. CASE sent' = [sent EXCEPT ![cur] = @ + 1] /\ pc' = "arm" /\ UNCHANGED <<cur, queues, pending, outcome>>
  <2>1. sent'[r] = 1 /\ \A x \in Requests \ {r} : sent'[x] = sent[x]
    BY <1>0, <1>1, <1>3, <1>4
  <2>2. ASSUME NEW d \in Clients, queueMap[d] # 0
        PROVE  /\ queues[queueMap[d]] \in Seq(Requests) /\ IsInjective(queues[queueMap[d]])
               /\ \A x \in Range(queues[queueMap[d]]) : ClientOf[x] = d
    <3>1. queueMap[d] \in 0..Len(queues) /\ queues \in Seq(Seq(Requests))
      BY Zenon DEF TypeOK, QueueRef
    <3>2. queueMap[d] \in DOMAIN queues
      BY <2>2, <3>1
    <3>3. IsInjective(queues[queueMap[d]])
      BY <3>2, Zenon DEF Ownership
    <3>4. \A x \in Range(queues[queueMap[d]]) : ClientOf[x] = d
      BY <2>2, Zenon DEF Hands
    <3> QED BY <3>1, <3>2, <3>3, <3>4
  <2>3. ASSUME NEW d \in Clients, d # c PROVE BackUnsent(d)' /\ FrontPending(d)'
    <3>1. CASE queueMap[d] = 0
      BY <1>2, <3>1, Zenon DEF BackUnsent, FrontPending
    <3>2. CASE queueMap[d] # 0
      <4> DEFINE s == queues[queueMap[d]]
      <4>1. s \in Seq(Requests) /\ \A x \in Range(s) : x # r
        BY <1>1, <2>2, <2>3, <3>2, Zenon
      <4>2. BackUnsent(d) /\ FrontPending(d)
        BY <1>0, Zenon DEF Parts
      <4>3. s' = s /\ queueMap'[d] = queueMap[d] /\ pending' = pending
        BY <1>2, <1>4, Zenon
      <4>4. \A i \in DOMAIN s : s[i] \in Range(s) /\ s[i] \in Requests
        BY <4>1 DEF Range
      <4>5. s # << >> => Head(s) \in Range(s) /\ Head(s) \in Requests
        BY <4>1 DEF Range
      <4>6. \A i \in DOMAIN s : i # 1 => sent'[s[i]] = 0
        BY <2>1, <3>2, <4>1, <4>2, <4>4, Zenon DEF BackUnsent
      <4>7. s # << >> /\ sent'[Head(s)] > 0 => pending[d] = Head(s)
        BY <2>1, <3>2, <4>1, <4>2, <4>5, Zenon DEF FrontPending
      <4> QED BY <1>4, <4>3, <4>6, <4>7, Zenon DEF BackUnsent, FrontPending
    <3> QED BY <3>1, <3>2, Zenon
  <2>4. BackUnsent(c)' /\ FrontPending(c)'
    <3>1. CASE queueMap[c] = 0
      BY <1>2, <3>1, Zenon DEF BackUnsent, FrontPending
    <3>2. CASE queueMap[c] # 0
      <4> DEFINE s == queues[queueMap[c]]
      <4>1. s \in Seq(Requests) /\ IsInjective(s)
        BY <2>2, <3>2, Zenon
      <4>2. s' = s /\ queueMap'[c] = queueMap[c] /\ pending' = pending
        BY <1>2, <1>4, Zenon
      <4>3. \A x \in Range(s) : sent[x] = 0
        BY <1>3, <3>2, Zenon DEF Unsent
      <4>4. \/ s # << >> /\ Head(s) = r /\ pending[c] = r
            \/ r \notin Range(s)
        BY <1>3, <3>2, Zenon DEF FrontIs, IsEmpty
      <4> HIDE DEF s
      <4>5. \A i \in DOMAIN s : s[i] \in Range(s) /\ s[i] \in Requests
        BY <4>1 DEF Range
      <4>6. s # << >> => Head(s) = s[1] /\ 1 \in DOMAIN s
        BY <4>1
      <4>7. \A i \in DOMAIN s : i # 1 => s[i] # r
        BY <4>1, <4>4, <4>5, <4>6, Zenon DEF IsInjective
      <4>8. \A i \in DOMAIN s : i # 1 => sent'[s[i]] = 0
        BY <2>1, <4>3, <4>5, <4>7, Zenon
      <4>9. s # << >> /\ sent'[Head(s)] > 0 => pending[c] = Head(s)
        BY <2>1, <4>3, <4>4, <4>5, <4>6
      <4> QED BY <1>4, <4>2, <4>8, <4>9, Zenon DEF BackUnsent, FrontPending, s
    <3> QED BY <3>1, <3>2, Zenon
  <2>5. \A d \in Clients : BackUnsent(d)' /\ FrontPending(d)'
    BY <2>3, <2>4, Zenon
  <2>6. \A x \in Requests : (Fresh(x)' => sent'[x] = 0) /\ sent'[x] <= 1
    BY <1>0, <1>2, <1>3, <2>1 DEF Parts, Fresh
  <2>7. \A p \in Readers : rd'[p].pc = "pop" => sent'[rd'[p].id] > 0
    <3>1. \A p \in Readers : rd[p].pc = "pop" => rd[p].id \in Requests
      <4>1. rd \in [Readers -> [pc : {"idle", "pop", "delete", "signal"}, id : Requests \cup {None}, q : QueueRef]]
        BY Zenon DEF TypeOK
      <4> QED BY <4>1, Zenon DEF Hands
    <3> QED BY <1>0, <1>2, <2>1, <3>1 DEF Parts
  <2> QED BY <1>4, <2>5, <2>6, <2>7, WrittenPartsNext, Zenon DEF Parts, Dispatching
<1>5. CASE sent' = sent /\ pc' = "loop" /\ Owned(clientID, cur) /\ Complete(clientID, cur, "write")
  <2>1. Completes(c, r)
    BY <1>1, <1>5, Zenon DEF Completes
  <2>2. queueMap[c] # 0 /\ r \in Range(queues[queueMap[c]])
    BY <2>1, CompleteFacts, Zenon
  <2> QED BY <1>1, <1>2, <1>3, <1>5, <2>1, <2>2, CompleteWritten, Zenon
<1>6. CASE sent' = sent /\ pc' = "loop" /\ ~Owned(clientID, cur) /\ UNCHANGED <<queues, pending, outcome>>
  <2>1. queueMap[c] # 0 => pending[c] = None
    BY <1>1, <1>3, <1>6, Zenon DEF Owned, Queue
  <2>2. Dispatching'
    BY <1>1, <1>2, <1>3, <1>6, <2>1, Zenon DEF Dispatching, Unsent
  <2>3. \A d \in Clients : BackUnsent(d)' /\ FrontPending(d)'
    BY <1>0, <1>2, <1>6 DEF Parts, BackUnsent, FrontPending
  <2> QED BY <1>0, <1>2, <1>6, <2>2, <2>3, WrittenPartsNext, Zenon DEF Parts, Fresh
<1> QED BY <1>4, <1>5, <1>6, Zenon DEF PumpWrite

\* onClientConnected creates a queue for a client that has nothing pending.
LEMMA ConnectWritten ==
    ASSUME TypeOK, Session, Hands, TypeOK', Lines, Leaving, Written, NEW c \in Clients, OnClientConnected(c)
    PROVE  Written'
PROOF
<1>0. /\ Parts /\ Heap /\ queueMap \in [Clients -> 0..Len(queues)]
      /\ \A d \in Clients : queueMap[d] # 0 => queueMap[d] \in DOMAIN queues
  <2>1. Heap /\ queueMap \in [Clients -> 0..Len(queues)]
    BY Zenon DEF TypeOK, QueueRef, Heap
  <2> QED BY <2>1, WrittenParts DEF Heap
<1>1. UNCHANGED <<sent, snd, rd, pending, pc, clientID, cur>> /\ conn[c] > 0
  BY Zenon DEF OnClientConnected
<1>2. SendersKept /\ PoppersKept /\ PumpKept
  BY <1>1, Zenon DEF SendersKept, PoppersKept, PumpKept, Fresh
<1>3. CASE UNCHANGED <<queues, queueMap>>
  BY <1>1, <1>2, <1>3, QuietWritten, Zenon DEF Hands
<1>4. CASE ~UNCHANGED <<queues, queueMap>>
  <2>1. queueMap[c] = 0 /\ queues' = Append(queues, << >>) /\ queueMap' = [queueMap EXCEPT ![c] = Len(queues) + 1]
       /\ running
    BY <1>4, Zenon DEF OnClientConnected, CreateClient, GetOrCreate
  <2>2. pending[c] = None
    BY <1>1, <2>1, Zenon DEF Lines, Leaving, Session, Deleting
  <2>3. (\A t \in DOMAIN queues : queues'[t] = queues[t]) /\ queues'[Len(queues) + 1] = << >>
    BY <1>0, <2>1, GrownHeap, Zenon DEF SameQueue
  <2>4. Unsent(c)' /\ queues'[queueMap'[c]] = << >> /\ Range(queues'[queueMap'[c]]) = {}
    BY <1>0, <2>1, <2>3 DEF Unsent, Range
  <2>5. ASSUME NEW d \in Clients, d # c
        PROVE  queueMap'[d] = queueMap[d] /\ (queueMap[d] # 0 => queues'[queueMap[d]] = queues[queueMap[d]])
    BY <1>0, <2>1, <2>3, <2>5, Zenon
  <2>6. \A d \in Clients : BackUnsent(d)' /\ FrontPending(d)'
    <3>1. ASSUME NEW d \in Clients, d # c PROVE BackUnsent(d)' /\ FrontPending(d)'
      <4>1. BackUnsent(d) /\ FrontPending(d)
        BY <1>0, Zenon DEF Parts
      <4>2. queueMap'[d] = queueMap[d] /\ (queueMap[d] # 0 => queues'[queueMap[d]] = queues[queueMap[d]])
        BY <2>5, <3>1, Zenon
      <4>3. pending' = pending /\ sent' = sent
        BY <1>1, Zenon
      <4> QED BY <4>1, <4>2, <4>3, Zenon DEF BackUnsent, FrontPending
    <3> QED BY <2>4, <3>1, UnsentFrontNext, Zenon
  <2>7. Dispatching'
    <3>1. pc = "write" => ~Fresh(cur)'
      BY <1>0, <1>1, Zenon DEF Parts, Dispatching, Fresh
    <3>2. CASE pc \in {"loop", "write"} /\ clientID # c
      <4>1. clientID \in Clients
        BY <3>2, Zenon DEF Hands
      <4>2. queueMap'[clientID] = queueMap[clientID]
            /\ (queueMap[clientID] # 0 => queues'[queueMap[clientID]] = queues[queueMap[clientID]])
        BY <2>5, <3>2, <4>1, Zenon
      <4>3. Unsent(clientID)'
        BY <1>0, <1>1, <3>2, <4>2, Zenon DEF Parts, Dispatching, Unsent
      <4> QED BY <1>0, <1>1, <3>1, <4>2, <4>3, Zenon DEF Parts, Dispatching
    <3>3. CASE pc \in {"loop", "write"} /\ clientID = c
      <4>1. Unsent(clientID)'
        BY <1>1, <2>4, <3>3, Zenon DEF Unsent
      <4>2. cur' \notin Range(queues'[queueMap'[clientID']]) /\ pending'[clientID'] = None
        BY <1>1, <2>2, <2>4, <3>3, Zenon
      <4> QED BY <1>0, <1>1, <3>1, <4>1, <4>2, Zenon DEF Parts, Dispatching
    <3>4. CASE pc \notin {"loop", "write"}
      BY <1>1, <3>4, Zenon DEF Dispatching
    <3> QED BY <3>2, <3>3, <3>4, Zenon
  <2> QED BY <1>0, <1>1, <2>6, <2>7, WrittenPartsNext, Zenon DEF Parts, Fresh
<1> QED BY <1>3, <1>4, Zenon

\* onClientDisconnected frees the pending slot of a client that has no queue any more.
LEMMA ClearWritten ==
    ASSUME TypeOK, Hands, TypeOK', Lines, Written, NEW c \in Clients, ClearClientPendingRequest(c)
    PROVE  Written'
PROOF
<1>0. Parts /\ pending \in [Clients -> Requests \cup {None}]
  BY WrittenParts, Zenon DEF TypeOK
<1>1. /\ UNCHANGED <<queues, queueMap, sent, snd, rd, pc, clientID, cur>> /\ queueMap[c] = 0
      /\ \A d \in Clients : queueMap[d] # 0 => pending'[d] = pending[d]
  BY <1>0, Zenon DEF ClearClientPendingRequest, Lines, Deleting
<1>2. \A d \in Clients : BackUnsent(d)' /\ FrontPending(d)'
  BY <1>0, <1>1 DEF Parts, BackUnsent, FrontPending
<1>3. Dispatching'
  <2>1. pc \in {"loop", "write"} => clientID \in Clients
    BY Zenon DEF Hands
  <2>2. pc \in {"loop", "write"} => Unsent(clientID)'
    BY <1>0, <1>1, Zenon DEF Parts, Dispatching, Unsent
  <2>3. pc = "write" => ~Fresh(cur)'
    BY <1>0, <1>1, Zenon DEF Parts, Dispatching, Fresh
  <2> QED BY <1>0, <1>1, <2>1, <2>2, <2>3, Zenon DEF Parts, Dispatching
<1> QED BY <1>0, <1>1, <1>2, <1>3, WrittenPartsNext, Zenon DEF Parts, Fresh

\* Whatever tokens, replies and connections come and go, what was sent stays in sight of the dispatch guard.
LEMMA WrittenStep ==
    ASSUME TypeOK, Session, Hands, Ownership, Lines, Leaving, Written, [Next]_vars
    PROVE  Written'
PROOF
<1>0. /\ TypeOK'
      /\ pc \in {"loop", "write"} => clientID \in Clients
      /\ snd \in [Requests -> {"idle", "get", "push", "rlock", "send", "accepted", "failed"}]
      /\ queueMap \in [Clients -> QueueRef]
  BY TypeStep, Zenon DEF TypeOK, Hands
<1>q. ASSUME UNCHANGED <<queues, sent, pending, snd, rd>>, \A c \in Clients : queueMap'[c] \in {0, queueMap[c]},
             PumpKept
      PROVE  Written'
  <2>1. SendersKept /\ PoppersKept
    BY <1>q, Zenon DEF SendersKept, PoppersKept, Fresh
  <2> QED BY <1>0, <1>q, <2>1, QuietWritten, Zenon
<1>1. ASSUME NEW r \in Requests, Sends(r) PROVE Written'
  <2>1. CASE SendPush(r)
    BY <1>0, <2>1, PushWritten, Zenon
  <2>2. CASE ~SendPush(r)
    <3>1. UNCHANGED <<queues, sent, pending, queueMap, rd, pc, clientID, cur>>
      BY <2>2, <1>1, Zenon DEF Sends, SendIsRunning, SendStep, SendGet, SendRLock, SendPost
    <3>2. SendersKept
      BY <1>0, <2>2, <1>1, Zenon DEF Sends, SendIsRunning, SendStep, SendGet, SendRLock, SendPost, SendersKept, Fresh
    <3> QED BY <1>0, <3>1, <3>2, QuietWritten, Zenon DEF PoppersKept, PumpKept
  <2> QED BY <2>1, <2>2, Zenon
<1>2. ASSUME NEW r \in Requests, Watches(r) PROVE Written'
  <2>1. UNCHANGED <<queues, sent, pending, snd, queueMap, rd, pc, clientID, cur>>
    BY <1>2, Zenon DEF Watches, CtxFire, WatchStep, DeadlineFire, PostTimeout, PostCancel
  <2> QED BY <1>q, <2>1, Zenon DEF PumpKept
<1>3. ASSUME NEW p \in Readers, Reads(p) PROVE Written'
  BY <1>0, <1>3, ReadWritten, Zenon
<1>4. CASE TakeToken
  <2>1. /\ UNCHANGED <<queueMap, sent, snd, rd>> /\ pc' \notin {"loop", "write"}
        /\ NoCompletion \/ \E c \in Clients, r \in Requests : Completes(c, r)
    BY <1>4, TokenEffect, Zenon DEF PumpFrame
  <2>2. CASE NoCompletion
    BY <1>q, <2>1, <2>2, Zenon DEF NoCompletion, PumpKept
  <2>3. ASSUME NEW c \in Clients, NEW r \in Requests, Completes(c, r) PROVE Written'
    BY <1>0, <2>1, <2>3, CompleteWritten, Zenon
  <2> QED BY <2>1, <2>2, <2>3, Zenon
<1>5. CASE PumpGuard \/ PumpLoop
  BY <1>0, <1>5, DispatchWritten, Zenon
<1>6. CASE PumpWrite
  BY <1>0, <1>6, WriteWritten, Zenon
<1>7. CASE PumpArm
  BY <1>q, <1>7, Zenon DEF PumpArm, PumpKept
<1>8. CASE PumpStopped
  <2>1. UNCHANGED <<sent, snd, rd>> /\ pc' = "clear" /\ \A c \in Clients : queueMap'[c] = 0
    BY <1>8, Zenon DEF PumpStopped
  <2> QED BY <1>0, <2>1, EmptiedWritten, Zenon
<1>9. CASE PumpClearAll
  <2>1. UNCHANGED <<sent, snd, rd>> /\ pc' = "drain" /\ \A c \in Clients : queueMap'[c] = 0
    BY <1>9, Zenon DEF PumpClearAll, Session
  <2> QED BY <1>0, <2>1, EmptiedWritten, Zenon
<1>10. CASE PumpDrain
  <2>1. UNCHANGED <<sent, snd, rd>> /\ pc' = "off" /\ \A c \in Clients : queueMap'[c] = 0
    BY <1>10, Zenon DEF PumpDrain, Session
  <2> QED BY <1>0, <2>1, EmptiedWritten, Zenon
<1>11. ASSUME NEW c \in Clients, Links(c) PROVE Written'
  <2>1. CASE OnClientConnected(c)
    BY <1>0, <2>1, ConnectWritten, Zenon
  <2>2. CASE ClearClientPendingRequest(c)
    BY <1>0, <2>2, ClearWritten, Zenon
  <2>3. CASE ~OnClientConnected(c) /\ ~ClearClientPendingRequest(c)
    <3>1. UNCHANGED <<queues, sent, pending, snd, rd, pc, clientID, cur>>
      BY <2>3, <1>11, Zenon DEF Links, Register, Unregister, DeleteClient, DeleteRemove, DeleteRLock,
             DeletePost, DeleteTimeout
    <3>2. \A d \in Clients : queueMap'[d] \in {0, queueMap[d]}
      BY <1>0, <2>3, <1>11, Zenon DEF Links, Register, Unregister, DeleteClient, DeleteRemove, DeleteRLock,
             DeletePost, DeleteTimeout
    <3> QED BY <1>q, <3>1, <3>2, Zenon DEF PumpKept
  <2> QED BY <2>1, <2>2, <2>3, Zenon
<1>12. CASE Controls
  <2>1. UNCHANGED <<queues, sent, pending, snd, queueMap, rd, clientID, cur>> /\ pc' \in {pc, "select"}
    BY <1>12, Zenon DEF Controls, CallStart, Start, CallStop, Stop, StopClose, StopJoin
  <2> QED BY <1>q, <2>1, Zenon DEF PumpKept
<1>13. CASE UNCHANGED vars
  <2>1. UNCHANGED <<queues, sent, pending, snd, queueMap, rd, pc, clientID, cur>>
    BY <1>13, Zenon DEF vars
  <2> QED BY <1>q, <2>1, Zenon DEF PumpKept
<1> QED BY <1>1, <1>2, <1>3, <1>4, <1>5, <1>6, <1>7, <1>8, <1>9, <1>10, <1>11, <1>12, <1>13, Zenon
     DEF Next, Step, Finished, Pump, TakeToken, Sends, Watches, Reads, Links, Controls

\* Nothing was sent before the first Start.
LEMMA InitFlight == Init => Flight
PROOF
<1> SUFFICES ASSUME Init PROVE Flight
  BY Zenon
<1>1. Lines /\ Leaving
  BY DEF Init, Lines, Leaving, Deleting
<1>2. Written
  <2>1. \A c \in Clients : BackUnsent(c)
    BY Zenon DEF Init, BackUnsent
  <2>2. NeverRewritten /\ InFlightIsPending
    BY DEF Init, NeverRewritten, InFlightIsPending, Queue, Peek, IsEmpty
  <2> QED BY <2>1, <2>2, Zenon DEF Init, Written
<1> QED BY <1>1, <1>2, Zenon DEF Flight

\* Flight is inductive, relative to IndInv.
LEMMA StepFlight == IndInv /\ Flight /\ LateConnect = FALSE /\ [Next]_vars => Flight'
PROOF BY LinesStep, LeavingStep, WrittenStep, Zenon DEF IndInv, Flight

\* In every reachable state: what was sent is the front of its queue and pending, for as long as its queue is
\* in the map.
THEOREM FlightHolds == LateConnect = FALSE => (Spec => []Flight)
PROOF
<1> SUFFICES ASSUME LateConnect = FALSE PROVE Spec => []Flight
  BY Zenon
<1>1. IndInv /\ Flight /\ [Next]_vars => Flight'
  BY StepFlight, Zenon
<1> QED BY <1>1, InitFlight, IndInvHolds, PTL DEF Spec

\* The guard of the dispatch loop (dispatcher.go 1073-1079): unless a connection is lost before onClientConnected has
\* run, no request is handed to the network twice.
THEOREM NeverRewrittenHolds == LateConnect = FALSE => (Spec => []NeverRewritten)
PROOF
<1> SUFFICES ASSUME LateConnect = FALSE PROVE Spec => []NeverRewritten
  BY Zenon
<1>1. Flight => NeverRewritten
  BY Zenon DEF Flight, Written
<1>2. Spec => []Flight
  BY FlightHolds, Zenon
<1> QED BY <1>1, <1>2, PTL

\* dispatchNextRequest (650-652): under the same condition, the front that was sent is the pending request of
\* its client.
THEOREM InFlightIsPendingHolds == LateConnect = FALSE => (Spec => []InFlightIsPending)
PROOF
<1> SUFFICES ASSUME LateConnect = FALSE PROVE Spec => []InFlightIsPending
  BY Zenon
<1>1. Flight => InFlightIsPending
  BY Zenon DEF Flight, Written
<1>2. Spec => []Flight
  BY FlightHolds, Zenon
<1> QED BY <1>1, <1>2, PTL

-----------------------------------------------------------------------------
(* Timeouts of the requests in flight, when moreover DeleteClientAndWait waits for its ack *)

\* DeleteClientAndWait posts one delete token and waits for the pump to take it; a new session has a new channel.
LEMMA AcksStep ==
    ASSUME TypeOK, Hands, Lines, Acks, SlowPump = FALSE, [Next]_vars
    PROVE  Acks'
PROOF
<1>0. /\ requestChannel \in Seq(Token) /\ conns \in [Clients -> 0 .. MaxConns]
      /\ disc \in [Clients -> {"idle", "remove", "rlock", "send", "ack", "clear"}]
  BY Zenon DEF TypeOK
<1>t. \A i \in DOMAIN requestChannel : requestChannel[i].client \in Clients
  <2>1. \A i \in DOMAIN requestChannel : requestChannel[i] \in Token
    BY <1>0
  <2> QED BY <2>1, Zenon DEF Token
<1>q. ASSUME requestChannel' = requestChannel, pc' # "off" => pc # "off",
             \A c \in Clients : disc[c] = "ack" => disc'[c] = "ack" /\ conns'[c] = conns[c]
      PROVE  Acks'
  BY <1>q, <1>t, Zenon DEF Acks
<1>p. ASSUME NEW c \in Clients, NEW ack, requestChannel' = Append(requestChannel, [client |-> c, deleteAck |-> ack]),
             ack # 0 => disc[c] # "ack" /\ disc'[c] = "ack" /\ ack = conns[c], UNCHANGED <<pc, conns>>,
             \A d \in Clients : disc[d] = "ack" => disc'[d] = "ack"
      PROVE  Acks'
  <2>1. \A i \in DOMAIN requestChannel' :
            \/ i \in DOMAIN requestChannel /\ requestChannel'[i] = requestChannel[i]
            \/ /\ i = Len(requestChannel) + 1
               /\ requestChannel'[i].client = c /\ requestChannel'[i].deleteAck = ack
    BY <1>0, <1>p
  <2>2. ASSUME NEW i \in DOMAIN requestChannel', requestChannel'[i].deleteAck # 0, pc # "off"
        PROVE  /\ disc'[requestChannel'[i].client] = "ack"
               /\ requestChannel'[i].deleteAck = conns'[requestChannel'[i].client]
               /\ i \notin DOMAIN requestChannel => ack # 0
    BY <1>p, <1>t, <2>1, <2>2, Zenon DEF Acks
  <2>3. ASSUME NEW i \in DOMAIN requestChannel', NEW j \in DOMAIN requestChannel', pc # "off",
               requestChannel'[i].deleteAck # 0, requestChannel'[j].deleteAck # 0,
               requestChannel'[i].client = requestChannel'[j].client
        PROVE  i = j
    <3>1. CASE /\ i \in DOMAIN requestChannel /\ requestChannel'[i] = requestChannel[i]
               /\ j \in DOMAIN requestChannel /\ requestChannel'[j] = requestChannel[j]
      BY <2>3, <3>1, Zenon DEF Acks
    <3>2. \A k \in DOMAIN requestChannel :
              requestChannel[k].deleteAck # 0 /\ requestChannel[k].client = c => ack = 0
      BY <1>p, <2>3, Zenon DEF Acks
    <3> QED BY <2>1, <2>3, <3>1, <3>2, Zenon
  <2> QED BY <1>p, <2>2, <2>3, Zenon DEF Acks
<1>1. ASSUME NEW r \in Requests, Sends(r) PROVE Acks'
  <2>1. UNCHANGED <<pc, conns, disc>> /\ ClientOf[r] \in Clients
    BY <1>1, SendFrame, Zenon
  <2>2. requestChannel' = requestChannel \/ Post(ClientOf[r], 0)
    BY <1>1, Zenon DEF Sends, SendIsRunning, SendStep, SendGet, SendPush, SendRLock, SendPost
  <2> QED BY <1>q, <1>p, <2>1, <2>2, Zenon DEF Post
<1>2. ASSUME NEW r \in Requests, Watches(r) PROVE Acks'
  BY <1>q, <1>2, WatchFrame, Zenon
<1>3. ASSUME NEW p \in Readers, Reads(p) PROVE Acks'
  BY <1>q, <1>3, ReadFrame, Zenon
<1>4. CASE TakeToken
  <2>1. CASE PumpRequest
    <3> DEFINE c == requestChannel[1].client
               ack == requestChannel[1].deleteAck
    <3>1. /\ requestChannel # << >> /\ requestChannel' = Tail(requestChannel) /\ conns' = conns /\ pc = "select"
          /\ CloseAck(Head(requestChannel).client, Head(requestChannel).deleteAck)
      BY <2>1, Zenon DEF PumpRequest
    <3>2. /\ 1 \in DOMAIN requestChannel /\ Head(requestChannel) = requestChannel[1]
          /\ \A i \in DOMAIN requestChannel' : /\ i + 1 \in DOMAIN requestChannel /\ i + 1 # 1
                                               /\ requestChannel'[i] = requestChannel[i + 1]
          /\ \A i, j \in DOMAIN requestChannel' : i + 1 = j + 1 => i = j
      BY <1>0, <3>1
    <3>3. /\ \A d \in Clients : d # c => disc'[d] = disc[d]
          /\ disc'[c] = disc[c] \/ ack = conns[c]
      BY <1>0, <1>t, <3>1, <3>2, Zenon DEF CloseAck
    <3>4. ASSUME NEW i \in DOMAIN requestChannel', requestChannel'[i].deleteAck # 0
          PROVE  /\ disc'[requestChannel'[i].client] = "ack"
                 /\ requestChannel'[i].deleteAck = conns'[requestChannel'[i].client]
      <4>1. /\ disc[requestChannel[i + 1].client] = "ack"
            /\ requestChannel[i + 1].deleteAck = conns[requestChannel[i + 1].client]
        BY <3>1, <3>2, <3>4, Zenon DEF Acks
      <4>2. requestChannel[i + 1].client = c => disc'[c] = disc[c]
        BY <3>1, <3>2, <3>3, <3>4, <4>1, Zenon DEF Acks
      <4> QED BY <1>t, <3>1, <3>2, <3>3, <4>1, <4>2, Zenon
    <3>5. ASSUME NEW i \in DOMAIN requestChannel', NEW j \in DOMAIN requestChannel',
                 requestChannel'[i].deleteAck # 0, requestChannel'[j].deleteAck # 0,
                 requestChannel'[i].client = requestChannel'[j].client
          PROVE  i = j
      <4>1. /\ i + 1 \in DOMAIN requestChannel /\ requestChannel'[i] = requestChannel[i + 1]
            /\ j + 1 \in DOMAIN requestChannel /\ requestChannel'[j] = requestChannel[j + 1]
        BY <3>2, Zenon
      <4>2. i + 1 = j + 1
        BY <3>1, <3>5, <4>1 DEF Acks
      <4> QED BY <3>2, <4>2, Zenon
    <3> QED BY <3>4, <3>5, Zenon DEF Acks
  <2>2. CASE ~PumpRequest
    <3>1. UNCHANGED <<requestChannel, disc, conns>> /\ pc = "select"
      BY <1>4, <2>2, Zenon DEF TakeToken, PumpTimeoutStale, PumpTimeout, PumpReady, PumpCtxCancel
    <3> QED BY <1>q, <3>1, Zenon
  <2> QED BY <2>1, <2>2, Zenon
<1>5. CASE PumpGuard \/ PumpLoop
  BY <1>q, <1>5, Zenon DEF PumpGuard, PumpLoop
<1>6. CASE PumpWrite
  BY <1>q, <1>6, Zenon DEF PumpWrite
<1>7. CASE PumpArm
  BY <1>q, <1>7, Zenon DEF PumpArm
<1>8. CASE PumpStopped
  BY <1>q, <1>8, Zenon DEF PumpStopped
<1>9. CASE PumpClearAll
  BY <1>q, <1>9, Zenon DEF PumpClearAll
<1>10. CASE PumpDrain
  BY <1>10, Zenon DEF PumpDrain, Acks
<1>11. ASSUME NEW c \in Clients, Links(c) PROVE Acks'
  <2>0. pc' = pc
    BY <1>11, LinkFrame, Zenon
  <2>1. CASE DeletePost(c)
    <3>1. /\ requestChannel' = Append(requestChannel, [client |-> c, deleteAck |-> conns[c]])
          /\ disc[c] = "send" /\ disc' = [disc EXCEPT ![c] = "ack"] /\ conns' = conns
      BY <2>1, Zenon DEF DeletePost, Post
    <3> QED BY <1>0, <1>p, <2>0, <3>1, Zenon
  <2>2. CASE ~DeletePost(c)
    <3>1. requestChannel' = requestChannel
      BY <1>11, <2>2, Zenon DEF Links, Register, OnClientConnected, Unregister, DeleteClient, DeleteRemove,
             DeleteRLock, DeleteTimeout, ClearClientPendingRequest
    <3>2. \A d \in Clients : disc[d] = "ack" => disc'[d] = "ack" /\ conns'[d] = conns[d]
      BY <1>0, <1>11, <2>2, Zenon DEF Links, Register, OnClientConnected, Unregister, DeleteClient, DeleteRemove,
             DeleteRLock, DeleteTimeout, ClearClientPendingRequest, Lines
    <3> QED BY <1>q, <2>0, <3>1, <3>2, Zenon
  <2> QED BY <2>1, <2>2, Zenon
<1>12. CASE Controls
  <2>1. CASE Start
    <3>1. DOMAIN requestChannel' = {}
      BY <2>1 DEF Start
    <3> QED BY <3>1, Zenon DEF Acks
  <2>2. CASE ~Start
    <3>1. UNCHANGED <<requestChannel, pc, disc, conns>>
      BY <1>12, <2>2, Zenon DEF Controls, CallStart, CallStop, Stop, StopClose, StopJoin
    <3> QED BY <1>q, <3>1, Zenon
  <2> QED BY <2>1, <2>2, Zenon
<1>13. CASE UNCHANGED vars
  BY <1>q, <1>13, Zenon DEF vars
<1> QED BY <1>1, <1>2, <1>3, <1>4, <1>5, <1>6, <1>7, <1>8, <1>9, <1>10, <1>11, <1>12, <1>13, Zenon
     DEF Next, Step, Finished, Pump, TakeToken, Sends, Watches, Reads, Links, Controls

\* A request gets into a queue only from its sender.
LEMMA QueuedStep ==
    ASSUME TypeOK, Hands, [Next]_vars, NEW r \in Requests, Queued(r)'
    PROVE  Queued(r) \/ Fresh(r)
PROOF
<1>0. Heap
  BY Zenon DEF TypeOK, Heap
<1>u. queues' = queues => Queued(r)
  BY Zenon DEF Queued
<1>1. ASSUME NEW x \in Requests, SendPush(x) PROVE Queued(r) \/ Fresh(r)
  <2>1. /\ snd[x] = "push" /\ ref[x] \in DOMAIN queues
        /\ queues' = queues \/ queues' = [queues EXCEPT ![ref[x]] = Push(@, x)]
    BY <1>1, PushEffect, Zenon
  <2>2. CASE queues' = [queues EXCEPT ![ref[x]] = Push(@, x)]
    <3>1. /\ DOMAIN queues' = DOMAIN queues /\ \A t \in DOMAIN queues \ {ref[x]} : queues'[t] = queues[t]
          /\ Range(queues'[ref[x]]) = Range(queues[ref[x]]) \cup {x}
      BY <1>0, <2>1, <2>2, PushedHeap, Zenon DEF SameQueue
    <3>2. r # x => Queued(r)
      BY <2>1, <3>1, Zenon DEF Queued
    <3> QED BY <2>1, <3>2, Zenon DEF Fresh
  <2> QED BY <1>u, <2>1, <2>2, Zenon
<1>2. ASSUME NEW c \in Clients, OnClientConnected(c) PROVE Queued(r) \/ Fresh(r)
  <2>1. CASE queues' = Append(queues, << >>)
    <3>1. /\ DOMAIN queues' = DOMAIN queues \cup {Len(queues) + 1} /\ queues'[Len(queues) + 1] = << >>
          /\ \A t \in DOMAIN queues : queues'[t] = queues[t]
      BY <1>0, <2>1, GrownHeap, Zenon DEF SameQueue
    <3>2. Range(<< >>) = {}
      BY DEF Range
    <3> QED BY <3>1, <3>2, Zenon DEF Queued
  <2> QED BY <1>u, <1>2, <2>1, Zenon DEF OnClientConnected, CreateClient, GetOrCreate
<1>3. CASE (\A x \in Requests : ~SendPush(x)) /\ (\A c \in Clients : ~OnClientConnected(c))
  BY <1>3, ShrinkStep, Zenon DEF Shrinks, Queued
<1> QED BY <1>1, <1>2, <1>3, Zenon

\* What was sent and is in the queue of its client is in flight.
LEMMA SentIsInFlight ==
    ASSUME TypeOK, Written, NEW c \in Clients, NEW r \in Requests, queueMap[c] # 0,
           r \in Range(queues[queueMap[c]]), sent[r] > 0
    PROVE  InFlight(c, r)
PROOF
<1>1. queueMap[c] \in 0..Len(queues) /\ queues \in Seq(Seq(Requests)) /\ BackUnsent(c)
  BY Zenon DEF TypeOK, QueueRef, Written
<1>2. queues[queueMap[c]] \in Seq(Requests)
  BY <1>1
<1>3. PICK i \in DOMAIN queues[queueMap[c]] : r = queues[queueMap[c]][i]
  BY Zenon DEF Range
<1>4. i = 1
  BY <1>1, <1>3 DEF BackUnsent
<1> QED BY <1>2, <1>3, <1>4 DEF InFlight, FrontIs, IsEmpty

\* ... is a request of that client, and pending.
LEMMA InFlightFacts ==
    ASSUME TypeOK, Hands, Written, NEW c \in Clients, NEW r \in Requests, InFlight(c, r)
    PROVE  /\ queueMap[c] # 0 /\ queueMap[c] \in DOMAIN queues /\ r \in Range(queues[queueMap[c]]) /\ Queued(r)
           /\ ClientOf[r] = c /\ pending[c] = r /\ Owned(c, r) /\ ~Unsent(c)
PROOF
<1>1. Peek(Queue(queueMap[c])) = r /\ r # None
  BY Zenon DEF InFlight, FrontIs, Peek, Queue, IsEmpty
<1>2. /\ queueMap[c] # 0 /\ queueMap[c] \in DOMAIN queues /\ r \in Range(queues[queueMap[c]])
      /\ ClientOf[r] = c /\ Owned(c, r)
  BY <1>1, FrontFacts, Zenon
<1>3. pending[c] = r
  BY <1>1, Zenon DEF InFlight, Written, InFlightIsPending
<1>4. ~Unsent(c)
  BY <1>2 DEF InFlight, Unsent
<1> QED BY <1>2, <1>3, <1>4, Zenon DEF Queued

\* Only the write of the pump sends.
LEMMA SentStep ==
    ASSUME TypeOK, Hands, [Next]_vars, ~PumpWrite
    PROVE  sent' = sent
PROOF
<1>1. ASSUME NEW r \in Requests, Sends(r) PROVE sent' = sent
  BY <1>1, SendFrame, Zenon
<1>2. ASSUME NEW r \in Requests, Watches(r) PROVE sent' = sent
  BY <1>2, WatchFrame, Zenon
<1>3. ASSUME NEW p \in Readers, Reads(p) PROVE sent' = sent
  BY <1>3, ReadFrame, Zenon
<1>4. CASE TakeToken
  BY <1>4, TokenEffect, Zenon
<1>5. CASE PumpGuard \/ PumpLoop
  BY <1>5, DispatchEffect, Zenon
<1>7. CASE PumpArm \/ PumpStopped \/ PumpClearAll \/ PumpDrain
  BY <1>7, Zenon DEF PumpArm, PumpStopped, PumpClearAll, PumpDrain
<1>11. ASSUME NEW c \in Clients, Links(c) PROVE sent' = sent
  BY <1>11, LinkFrame, Zenon
<1>12. CASE Controls
  BY <1>12, ControlFrame, Zenon
<1>13. CASE UNCHANGED vars
  BY <1>13, Zenon DEF vars
<1> QED BY <1>1, <1>2, <1>3, <1>4, <1>5, <1>7, <1>11, <1>12, <1>13, Zenon
     DEF Next, Step, Finished, Pump, TakeToken, Sends, Watches, Reads, Links, Controls

\* After a step a request is in flight that was before, or that the pump has just written.
LEMMA InFlightStep ==
    ASSUME TypeOK, Hands, Written, TypeOK', Hands', Written', [Next]_vars, NEW c \in Clients, NEW r \in Requests,
           InFlight(c, r)'
    PROVE  \/ InFlight(c, r) /\ queueMap'[c] = queueMap[c]
           \/ /\ pc = "write" /\ pc' = "arm" /\ UNCHANGED <<clientID, cur>> /\ c = clientID /\ r = cur
PROOF
<1> DEFINE Was == InFlight(c, r) /\ queueMap'[c] = queueMap[c]
<1>0. /\ Heap /\ sent \in [Requests -> Nat]
      /\ queueMap'[c] # 0 /\ queueMap'[c] \in DOMAIN queues' /\ r \in Range(queues'[queueMap'[c]]) /\ sent'[r] > 0
  <2>1. (queueMap[c] # 0 /\ queueMap[c] \in DOMAIN queues /\ r \in Range(queues[queueMap[c]]) /\ sent[r] > 0)'
    BY InFlightFacts, PTL DEF InFlight
  <2> QED BY <2>1, Zenon DEF TypeOK, Heap
<1>q. ASSUME queueMap'[c] = queueMap[c], r \in Range(queues[queueMap[c]]), sent[r] > 0 PROVE Was
  BY <1>0, <1>q, SentIsInFlight, Zenon
<1>1. ASSUME NEW x \in Requests, SendPush(x) PROVE Was
  <2>1. /\ snd[x] = "push" /\ ref[x] \in DOMAIN queues /\ UNCHANGED <<queueMap, sent>>
        /\ queues' = queues \/ queues' = [queues EXCEPT ![ref[x]] = Push(@, x)]
    BY <1>1, PushEffect, Zenon
  <2>2. sent[x] = 0
    BY <2>1, Zenon DEF Written, Fresh
  <2>3. r # x
    BY <1>0, <2>1, <2>2
  <2>4. CASE queues' = [queues EXCEPT ![ref[x]] = Push(@, x)]
    <3>1. /\ DOMAIN queues' = DOMAIN queues /\ \A t \in DOMAIN queues \ {ref[x]} : queues'[t] = queues[t]
          /\ Range(queues'[ref[x]]) = Range(queues[ref[x]]) \cup {x}
      BY <1>0, <2>1, <2>4, PushedHeap, Zenon DEF SameQueue
    <3> QED BY <1>0, <1>q, <2>1, <2>3, <3>1, Zenon
  <2> QED BY <1>0, <1>q, <2>1, <2>4, Zenon
<1>2. ASSUME NEW d \in Clients, OnClientConnected(d) PROVE Was
  <2>1. /\ sent' = sent /\ queueMap \in [Clients -> QueueRef]
        /\ \/ UNCHANGED <<queues, queueMap>>
           \/ /\ queues' = Append(queues, << >>)
              /\ queueMap' = [queueMap EXCEPT ![d] = Len(queues) + 1]
    BY <1>2, Zenon DEF OnClientConnected, CreateClient, GetOrCreate, TypeOK
  <2>2. CASE /\ queues' = Append(queues, << >>)
             /\ queueMap' = [queueMap EXCEPT ![d] = Len(queues) + 1]
    <3>1. /\ DOMAIN queues' = DOMAIN queues \cup {Len(queues) + 1} /\ queues'[Len(queues) + 1] = << >>
          /\ \A t \in DOMAIN queues : queues'[t] = queues[t]
      BY <1>0, <2>2, GrownHeap, Zenon DEF SameQueue
    <3>2. Range(<< >>) = {}
      BY DEF Range
    <3>3. c # d
      BY <1>0, <2>1, <2>2, <3>1, <3>2, Zenon
    <3>4. queueMap[c] # 0 => queueMap[c] \in DOMAIN queues
      BY <1>0, <2>1 DEF QueueRef, Heap
    <3> QED BY <1>0, <1>q, <2>1, <2>2, <3>1, <3>3, <3>4, Zenon
  <2> QED BY <1>0, <1>q, <2>1, <2>2, Zenon
<1>3. ASSUME PumpWrite, r = cur, pc' = "arm"
      PROVE  pc = "write" /\ UNCHANGED <<clientID, cur>> /\ c = clientID
  <2>1. pc = "write" /\ UNCHANGED <<clientID, cur, queueMap, queues>>
    BY <1>3, Zenon DEF PumpWrite
  <2>2. clientID = ClientOf[r] /\ ClientOf[r] = c
    BY <1>0, <1>3, <2>1, Zenon DEF TypeOK, Hands
  <2> QED BY <2>1, <2>2, Zenon
<1>4. ASSUME \A x \in Requests : ~SendPush(x), \A d \in Clients : ~OnClientConnected(d),
             ~(PumpWrite /\ r = cur /\ pc' = "arm")
      PROVE  Was
  <2>1. queueMap'[c] = queueMap[c]
    BY <1>0, <1>4, MapStep, Zenon DEF MapKept
  <2>2. r \in Range(queues[queueMap[c]])
    BY <1>0, <1>4, <2>1, ShrinkStep, Zenon DEF Shrinks
  <2>3. sent'[r] = sent[r]
    <3>1. CASE PumpWrite
      BY <1>0, <1>4, <3>1, Zenon DEF PumpWrite
    <3>2. CASE ~PumpWrite
      BY <3>2, SentStep, Zenon
    <3> QED BY <3>1, <3>2, Zenon
  <2> QED BY <1>0, <1>q, <2>1, <2>2, <2>3, Zenon
<1> QED BY <1>1, <1>2, <1>3, <1>4, Zenon

\* What a receive takes from a channel.
LEMMA HeadFacts == ASSUME NEW S, NEW s \in Seq(S), s # << >> PROVE Head(s) \in S /\ 1 \in DOMAIN s /\ Head(s) = s[1]
PROOF OBVIOUS

\* What a channel holds after a send.
LEMMA AppendRange == ASSUME NEW S, NEW s \in Seq(S), NEW x \in S PROVE Range(Append(s, x)) = Range(s) \cup {x}
PROOF
<1>1. /\ DOMAIN Append(s, x) = DOMAIN s \cup {Len(s) + 1} /\ Append(s, x)[Len(s) + 1] = x
      /\ \A i \in DOMAIN s : Append(s, x)[i] = s[i]
  OBVIOUS
<1> QED BY <1>1, Zenon DEF Range

\* What a channel held before a receive.
LEMMA TailRange == ASSUME NEW S, NEW s \in Seq(S), s # << >> PROVE Range(s) \subseteq Range(Tail(s)) \cup {Head(s)}
PROOF
<1>1. ASSUME NEW i \in DOMAIN s, i # 1 PROVE i - 1 \in DOMAIN Tail(s) /\ s[i] = Tail(s)[i - 1]
  BY <1>1
<1>2. s[1] = Head(s)
  OBVIOUS
<1>3. ASSUME NEW x \in Range(s) PROVE x \in Range(Tail(s)) \cup {Head(s)}
  <2>1. PICK i \in DOMAIN s : x = s[i]
    BY Zenon DEF Range
  <2>2. CASE i # 1
    BY <1>1, <2>1, <2>2, Zenon DEF Range
  <2> QED BY <1>2, <2>1, <2>2, Zenon
<1> QED BY <1>3, Zenon

\* The pump's books have r as the request in flight of client c.
Booked(c, r) == dispatched[c] = r /\ ctx[c] = r /\ WatchedFor(r)

\* A token that the pump takes is not about the request in flight, or ends it.
LEMMA TokenBooked ==
    ASSUME TypeOK, Hands, Ownership, Lines, Written, Acks, Watched, TakeToken, NEW c \in Clients, NEW r \in Requests,
           InFlight(c, r), InFlight(c, r)', Booked(c, r)
    PROVE  Booked(c, r)'
PROOF
<1>0. /\ requestChannel \in Seq(Token) /\ timerC \in Seq(Requests) /\ cancelC \in Seq(Requests)
      /\ readyForDispatch \in Seq(Requests) /\ Heap /\ ctx \in [Clients -> Requests \cup {None, "inactive"}]
      /\ dispatched \in [Clients -> Requests \cup {None}]
      /\ watch \in [Requests -> {"none", "watch", "expired", "reaped", "done"}]
  BY Zenon DEF TypeOK, Heap
<1>i. /\ queueMap[c] # 0 /\ queueMap[c] \in DOMAIN queues /\ r \in Range(queues[queueMap[c]]) /\ Queued(r)
      /\ ClientOf[r] = c /\ pending[c] = r /\ Owned(c, r)
  BY InFlightFacts, Zenon
<1>b. dispatched[c] = r /\ ctx[c] = r /\ WatchedFor(r) /\ r # None
  BY Zenon DEF Booked
<1>k. ASSUME NEW d \in Clients, d # c, CancelCtx(d) PROVE watch'[r] = watch[r]
  BY <1>0, <1>i, <1>k, Zenon DEF CancelCtx, Watched
<1>o. ASSUME queues' = [queues EXCEPT ![queueMap[c]] = Tail(@)], queueMap' = queueMap PROVE FALSE
  <2>1. queues[queueMap[c]] # << >> /\ Head(queues[queueMap[c]]) = r /\ IsInjective(queues[queueMap[c]])
    BY <1>i, Zenon DEF InFlight, FrontIs, IsEmpty, Ownership
  <2>2. r \notin Range(queues'[queueMap[c]])
    <3>1. Head(queues[queueMap[c]]) \notin Range(queues'[queueMap[c]])
      BY <1>0, <1>i, <1>o, <2>1, PoppedHeap, Zenon
    <3> QED BY <2>1, <3>1
  <2>3. queues'[queueMap[c]] # << >> /\ Head(queues'[queueMap[c]]) = r
    BY <1>o, Zenon DEF InFlight, FrontIs, IsEmpty
  <2>4. queues'[queueMap[c]] \in Seq(Requests)
    BY <1>0, <1>i, <1>o, <2>1, PoppedHeap DEF Heap
  <2>5. Head(queues'[queueMap[c]]) \in Range(queues'[queueMap[c]])
    BY <2>3, <2>4 DEF Range
  <2> QED BY <2>2, <2>3, <2>5, Zenon
<1>1. CASE PumpRequest
  <2> DEFINE d == Head(requestChannel).client
             ack == Head(requestChannel).deleteAck
  <2>1. /\ requestChannel # << >> /\ pc = "select" /\ UNCHANGED <<timerC, cancelC>>
        /\ IF queueMap[d] = 0 \/ ack # 0 THEN CancelCtx(d) ELSE UNCHANGED watch
        /\ ctx' = [ctx EXCEPT ![d] = IF queueMap[d] = 0 \/ ack # 0 THEN None ELSE @]
        /\ dispatched' = [dispatched EXCEPT ![d] = IF queueMap[d] = 0 \/ ack # 0 THEN None ELSE @]
    BY <1>1, Zenon DEF PumpRequest
  <2>2. d \in Clients /\ 1 \in DOMAIN requestChannel /\ Head(requestChannel) = requestChannel[1]
    <3>1. Head(requestChannel) \in Token /\ 1 \in DOMAIN requestChannel /\ Head(requestChannel) = requestChannel[1]
      BY <1>0, <2>1, HeadFacts, Zenon
    <3> QED BY <3>1, Zenon DEF Token
  <2>3. ack # 0 => queueMap[d] = 0
    <3>1. ack # 0 => disc[d] = "ack"
      BY <2>1, <2>2 DEF Acks
    <3> QED BY <2>2, <3>1, Zenon DEF Lines, Deleting
  <2>4. CASE queueMap[d] = 0
    <3>1. d # c
      BY <1>i, <2>4, Zenon
    <3> QED BY <1>0, <1>b, <1>k, <2>1, <2>2, <2>4, <3>1, Zenon DEF Booked, WatchedFor
  <2>5. CASE queueMap[d] # 0
    BY <1>0, <1>b, <2>1, <2>3, <2>5, Zenon DEF Booked, WatchedFor
  <2> QED BY <2>4, <2>5, Zenon
<1>2. CASE PumpTimeoutStale
  <2>1. /\ timerC # << >> /\ timerC' = Tail(timerC) /\ UNCHANGED <<ctx, dispatched, cancelC, watch>>
        /\ ctx[ClientOf[Head(timerC)]] # Head(timerC)
    BY <1>2, Zenon DEF PumpTimeoutStale, CtxIsCurrent
  <2>2. Head(timerC) # r
    BY <1>i, <1>b, <2>1, Zenon
  <2>3. Range(timerC) \subseteq Range(Tail(timerC)) \cup {Head(timerC)}
    BY <1>0, <2>1, TailRange, Zenon
  <2> QED BY <1>b, <2>1, <2>2, <2>3, Zenon DEF Booked, WatchedFor
<1>3. CASE PumpTimeout
  <2> DEFINE d == ClientOf[Head(timerC)]
  <2>1. /\ timerC # << >> /\ timerC' = Tail(timerC) /\ UNCHANGED <<cancelC, watch, queueMap>>
        /\ ctx' = [ctx EXCEPT ![d] = "inactive"] /\ dispatched' = [dispatched EXCEPT ![d] = None]
    BY <1>3, Zenon DEF PumpTimeout
  <2>2. d \in Clients /\ Head(timerC) \in Requests
    <3>1. Head(timerC) \in Requests
      BY <1>0, <2>1, HeadFacts, Zenon
    <3> QED BY <3>1, Zenon
  <2>3. CASE d = c
    <3>1. queues' = [queues EXCEPT ![queueMap[c]] = Tail(@)]
      BY <1>3, <1>i, <1>b, <2>3, Zenon DEF PumpTimeout, HasPendingRequest, Complete
    <3> QED BY <1>o, <2>1, <3>1, Zenon
  <2>4. CASE d # c
    <3>1. Range(timerC) \subseteq Range(Tail(timerC)) \cup {Head(timerC)}
      BY <1>0, <2>1, TailRange, Zenon
    <3>2. Head(timerC) # r
      BY <1>i, <2>4, Zenon
    <3> QED BY <1>0, <1>b, <2>1, <2>2, <2>4, <3>1, <3>2, Zenon DEF Booked, WatchedFor
  <2> QED BY <2>3, <2>4, Zenon
<1>4. CASE PumpReady
  <2> DEFINE x == Head(readyForDispatch)
             d == ClientOf[x]
  <2>1. readyForDispatch # << >> /\ UNCHANGED <<timerC, cancelC>>
    BY <1>4, Zenon DEF PumpReady
  <2>2. x \in Requests /\ x \in Range(readyForDispatch)
    BY <1>0, <2>1, HeadFacts, Zenon DEF Range
  <2>3. x # r
    BY <1>i, <2>2, Zenon DEF Watched
  <2>4. CASE StaleReady(d, x)
    <3>1. UNCHANGED <<ctx, dispatched, watch>>
      BY <1>4, <2>4, Zenon DEF PumpReady
    <3> QED BY <1>b, <2>1, <3>1, Zenon DEF Booked, WatchedFor
  <2>5. CASE ~StaleReady(d, x)
    <3>1. /\ CancelCtx(d) /\ ctx' = [ctx EXCEPT ![d] = IF @ \in Requests THEN "inactive" ELSE @]
          /\ dispatched' = [dispatched EXCEPT ![d] = None]
      BY <1>4, <2>5, Zenon DEF PumpReady
    <3>2. d # c
      BY <1>b, <2>3, <2>5, Zenon DEF StaleReady
    <3>3. d \in Clients
      BY <2>2, Zenon
    <3> QED BY <1>0, <1>b, <1>k, <2>1, <3>1, <3>2, <3>3, Zenon DEF Booked, WatchedFor
  <2> QED BY <2>4, <2>5, Zenon
<1>5. CASE PumpCtxCancel
  <2> DEFINE x == Head(cancelC)
             d == ClientOf[x]
  <2>1. /\ cancelC # << >> /\ cancelC' = Tail(cancelC) /\ UNCHANGED <<timerC, queueMap>>
    BY <1>5, Zenon DEF PumpCtxCancel
  <2>2. x \in Requests
    BY <1>0, <2>1, HeadFacts, Zenon
  <2>3. Range(cancelC) \subseteq Range(Tail(cancelC)) \cup {x}
    BY <1>0, <2>1, TailRange, Zenon
  <2>4. CASE dispatched[d] = x /\ Owned(d, x)
    <3>1. /\ Complete(d, x, "ctx") /\ CancelCtx(d) /\ ctx' = [ctx EXCEPT ![d] = "inactive"]
          /\ dispatched' = [dispatched EXCEPT ![d] = None]
      BY <1>5, <2>4, Zenon DEF PumpCtxCancel
    <3>2. d # c
      BY <1>o, <2>1, <2>2, <3>1, Zenon DEF Complete
    <3>3. d \in Clients /\ x # r
      BY <1>i, <2>2, <3>2, Zenon
    <3> QED BY <1>0, <1>b, <1>k, <2>1, <2>3, <3>1, <3>2, <3>3, Zenon DEF Booked, WatchedFor
  <2>5. CASE ~(dispatched[d] = x /\ Owned(d, x))
    <3>1. UNCHANGED <<ctx, dispatched, watch>>
      BY <1>5, <2>5, Zenon DEF PumpCtxCancel
    <3>2. x # r
      BY <1>i, <1>b, <2>5, Zenon
    <3> QED BY <1>b, <2>1, <2>3, <3>1, <3>2, Zenon DEF Booked, WatchedFor
  <2> QED BY <2>4, <2>5, Zenon
<1> QED BY <1>1, <1>2, <1>3, <1>4, <1>5, Zenon DEF TakeToken

\* A request in flight stays booked until it is completed.
LEMMA BookedStep ==
    ASSUME TypeOK, Session, Hands, Ownership, Lines, Written, Acks, Watched, [Next]_vars, NEW c \in Clients,
           NEW r \in Requests, InFlight(c, r), InFlight(c, r)', Booked(c, r), ~(PumpArm /\ c = clientID)
    PROVE  Booked(c, r)'
PROOF
<1>0. /\ timerC \in Seq(Requests) /\ cancelC \in Seq(Requests)
      /\ ctx \in [Clients -> Requests \cup {None, "inactive"}] /\ dispatched \in [Clients -> Requests \cup {None}]
      /\ watch \in [Requests -> {"none", "watch", "expired", "reaped", "done"}]
  BY Zenon DEF TypeOK
<1>i. queueMap[c] # 0 /\ ClientOf[r] = c /\ pending[c] = r /\ ~Unsent(c)
  BY InFlightFacts, Zenon
<1>u. UNCHANGED <<dispatched, ctx, watch, timerC, cancelC>> => Booked(c, r)'
  BY Zenon DEF Booked, WatchedFor
<1>1. ASSUME NEW x \in Requests, Sends(x) PROVE Booked(c, r)'
  BY <1>u, <1>1, SendFrame, Zenon
<1>2. ASSUME NEW x \in Requests, Watches(x) PROVE Booked(c, r)'
  <2>0. UNCHANGED <<ctx, dispatched>>
    BY <1>2, WatchFrame, Zenon
  <2>1. WatchedFor(r)'
    <3>1. CASE CtxFire(x)
      BY <3>1, Zenon DEF CtxFire, Booked, WatchedFor
    <3>2. CASE DeadlineFire(x)
      BY <1>0, <3>2, Zenon DEF DeadlineFire, Booked, WatchedFor
    <3>3. CASE PostTimeout(x)
      <4>1. Range(timerC') = Range(timerC) \cup {x}
        BY <1>0, <3>3, AppendRange, Zenon DEF PostTimeout
      <4> QED BY <1>0, <3>3, <4>1, Zenon DEF PostTimeout, Booked, WatchedFor
    <3>4. CASE PostCancel(x)
      <4>1. Range(cancelC') = Range(cancelC) \cup {x}
        <5>1. cancelC' = Append(cancelC, x)
          BY <3>4, Zenon DEF PostCancel
        <5> QED BY <1>0, <5>1, AppendRange, Zenon
      <4> QED BY <1>0, <3>4, <4>1, Zenon DEF PostCancel, Booked, WatchedFor
    <3> QED BY <1>2, <3>1, <3>2, <3>3, <3>4, Zenon DEF Watches, WatchStep
  <2> QED BY <2>0, <2>1, Zenon DEF Booked
<1>3. ASSUME NEW p \in Readers, Reads(p) PROVE Booked(c, r)'
  BY <1>u, <1>3, ReadFrame, Zenon
<1>4. CASE TakeToken
  BY <1>4, TokenBooked, Zenon
<1>5. CASE PumpGuard \/ PumpLoop
  <2>1. UNCHANGED tokenVars
    BY <1>5, Zenon DEF PumpGuard, PumpLoop
  <2>2. CASE clientID = c
    <3>1. ~PumpLoop
      BY <1>i, <2>2, Zenon DEF PumpLoop, Written
    <3>2. ~CanDispatch
      BY <1>i, <2>2, Zenon DEF CanDispatch, HasPendingRequest
    <3>3. UNCHANGED <<ctx, dispatched>>
      BY <1>5, <3>1, <3>2, Zenon DEF PumpGuard
    <3> QED BY <1>u, <2>1, <3>3, Zenon
  <2>3. CASE clientID # c
    <3>1. ctx'[c] = ctx[c] /\ dispatched'[c] = dispatched[c]
      BY <1>0, <1>5, <2>3, Zenon DEF PumpGuard, PumpLoop, DispatchNextRequest
    <3> QED BY <2>1, <3>1, Zenon DEF Booked, WatchedFor
  <2> QED BY <2>2, <2>3, Zenon
<1>6. CASE PumpWrite
  BY <1>u, <1>6, Zenon DEF PumpWrite
<1>7. CASE PumpArm
  <2>1. c # clientID /\ cur \in Requests /\ clientID = ClientOf[cur]
    BY <1>7, Zenon DEF PumpArm, TypeOK
  <2>2. cur # r
    BY <1>i, <2>1, Zenon
  <2>3. ctx'[c] = ctx[c] /\ dispatched'[c] = dispatched[c] /\ watch'[r] = watch[r] /\ UNCHANGED <<timerC, cancelC>>
    BY <1>0, <1>7, <2>1, <2>2, Zenon DEF PumpArm
  <2> QED BY <2>3, Zenon DEF Booked, WatchedFor
<1>8. CASE PumpStopped \/ PumpClearAll \/ PumpDrain
  <2>1. queueMap'[c] = 0
    BY <1>8, Zenon DEF PumpStopped, PumpClearAll, PumpDrain, Session
  <2> QED BY <2>1, Zenon DEF InFlight
<1>11. ASSUME NEW d \in Clients, Links(d) PROVE Booked(c, r)'
  BY <1>u, <1>11, LinkFrame, Zenon
<1>12. CASE Controls
  <2>1. UNCHANGED <<ctx, dispatched>>
    BY <1>12, Zenon DEF Controls, CallStart, Start, CallStop, Stop, StopClose, StopJoin
  <2> QED BY <1>u, <1>12, <2>1, ControlFrame, Zenon
<1>13. CASE UNCHANGED vars
  BY <1>u, <1>13, Zenon DEF vars
<1> QED BY <1>1, <1>2, <1>3, <1>4, <1>5, <1>6, <1>7, <1>8, <1>11, <1>12, <1>13, Zenon
     DEF Next, Step, Finished, Pump, TakeToken, Sends, Watches, Reads, Links, Controls

\* The context that clientContextMap holds for a client is that of a request of the client.
LEMMA ContextStep ==
    ASSUME TypeOK, Hands, Watched, [Next]_vars, NEW c \in Clients, ctx'[c] \in Requests
    PROVE  ClientOf[ctx'[c]] = c
PROOF
<1>0. ctx \in [Clients -> Requests \cup {None, "inactive"}] /\ (ctx[c] \in Requests => ClientOf[ctx[c]] = c)
  BY Zenon DEF TypeOK, Watched
<1>u. ctx'[c] = ctx[c] => ClientOf[ctx'[c]] = c
  BY <1>0, Zenon
<1>1. ASSUME NEW r \in Requests, Sends(r) PROVE ctx'[c] = ctx[c]
  BY <1>1, SendFrame, Zenon
<1>2. ASSUME NEW r \in Requests, Watches(r) PROVE ctx'[c] = ctx[c]
  BY <1>2, WatchFrame, Zenon
<1>3. ASSUME NEW p \in Readers, Reads(p) PROVE ctx'[c] = ctx[c]
  BY <1>3, ReadFrame, Zenon
<1>4. CASE TakeToken
  <2>1. CASE PumpRequest
    BY <1>0, <2>1, Zenon DEF PumpRequest
  <2>2. CASE PumpTimeoutStale
    BY <1>0, <2>2, Zenon DEF PumpTimeoutStale
  <2>3. CASE PumpTimeout
    BY <1>0, <2>3, Zenon DEF PumpTimeout
  <2>4. CASE PumpReady
    BY <1>0, <2>4, Zenon DEF PumpReady
  <2>5. CASE PumpCtxCancel
    BY <1>0, <2>5, Zenon DEF PumpCtxCancel
  <2> QED BY <1>4, <2>1, <2>2, <2>3, <2>4, <2>5, Zenon DEF TakeToken
<1>5. CASE PumpGuard \/ PumpLoop
  BY <1>0, <1>5, Zenon DEF PumpGuard, PumpLoop, DispatchNextRequest
<1>6. CASE PumpWrite
  BY <1>u, <1>6, Zenon DEF PumpWrite
<1>7. CASE PumpArm
  <2>1. clientID = ClientOf[cur]
    BY <1>7, Zenon DEF PumpArm, TypeOK
  <2> QED BY <1>0, <1>7, <2>1, Zenon DEF PumpArm
<1>8. CASE PumpStopped \/ PumpClearAll
  BY <1>u, <1>8, Zenon DEF PumpStopped, PumpClearAll
<1>10. CASE PumpDrain
  BY <1>10, Zenon DEF PumpDrain
<1>11. ASSUME NEW d \in Clients, Links(d) PROVE ctx'[c] = ctx[c]
  BY <1>11, LinkFrame, Zenon
<1>12. CASE Controls
  BY <1>u, <1>12, Zenon DEF Controls, CallStart, Start, CallStop, Stop, StopClose, StopJoin
<1>13. CASE UNCHANGED vars
  BY <1>u, <1>13, Zenon DEF vars
<1> QED BY <1>u, <1>1, <1>2, <1>3, <1>4, <1>5, <1>6, <1>7, <1>8, <1>10, <1>11, <1>12, <1>13, Zenon
     DEF Next, Step, Finished, Pump, TakeToken, Sends, Watches, Reads, Links, Controls

\* A request that left the hands of its sender does not come back.
LEMMA FreshStep ==
    ASSUME TypeOK, Hands, [Next]_vars, NEW r \in Requests, Fresh(r)'
    PROVE  Fresh(r)
PROOF
<1>u. snd' = snd => Fresh(r)
  BY Zenon DEF Fresh
<1>1. ASSUME NEW x \in Requests, Sends(x) PROVE Fresh(r)
  <2>1. snd \in [Requests -> {"idle", "get", "push", "rlock", "send", "accepted", "failed"}]
    BY Zenon DEF TypeOK
  <2> QED BY <2>1, <1>1, Zenon DEF Sends, SendIsRunning, SendStep, SendGet, SendPush, SendRLock, SendPost, Fresh
<1>2. ASSUME NEW x \in Requests, Watches(x) PROVE Fresh(r)
  BY <1>u, <1>2, WatchFrame, Zenon
<1>3. ASSUME NEW p \in Readers, Reads(p) PROVE Fresh(r)
  BY <1>u, <1>3, ReadFrame, Zenon
<1>4. CASE TakeToken
  BY <1>u, <1>4, TokenEffect, Zenon DEF PumpFrame
<1>5. CASE PumpGuard \/ PumpLoop
  BY <1>u, <1>5, DispatchEffect, Zenon DEF PumpFrame
<1>6. CASE PumpWrite \/ PumpArm \/ PumpStopped \/ PumpClearAll \/ PumpDrain
  BY <1>u, <1>6, Zenon DEF PumpWrite, PumpArm, PumpStopped, PumpClearAll, PumpDrain
<1>11. ASSUME NEW c \in Clients, Links(c) PROVE Fresh(r)
  BY <1>u, <1>11, LinkFrame, Zenon
<1>12. CASE Controls
  BY <1>u, <1>12, ControlFrame, Zenon
<1>13. CASE UNCHANGED vars
  BY <1>u, <1>13, Zenon DEF vars
<1> QED BY <1>1, <1>2, <1>3, <1>4, <1>5, <1>6, <1>11, <1>12, <1>13, Zenon
     DEF Next, Step, Finished, Pump, TakeToken, Sends, Watches, Reads, Links, Controls

\* A readiness token is about a request that a read goroutine has won.
LEMMA ReadyStep ==
    ASSUME TypeOK, Hands, [Next]_vars, NEW r \in Requests, r \in Range(readyForDispatch')
    PROVE  r \in Range(readyForDispatch) \/ \E p \in Readers : ReaderOwns(p, r)
PROOF
<1> DEFINE Won == r \in Range(readyForDispatch) \/ \E p \in Readers : ReaderOwns(p, r)
<1>u. readyForDispatch' = readyForDispatch => Won
  BY Zenon
<1>e. readyForDispatch' # << >>
  BY DEF Range
<1>1. ASSUME NEW x \in Requests, Sends(x) PROVE Won
  BY <1>u, <1>1, SendFrame, Zenon
<1>2. ASSUME NEW x \in Requests, Watches(x) PROVE Won
  BY <1>u, <1>2, WatchFrame, Zenon
<1>3. ASSUME NEW p \in Readers, Reads(p) PROVE Won
  <2>1. CASE ReadSignal(p)
    <3>1. readyForDispatch' = <<rd[p].id>> /\ rd[p].pc = "signal"
      BY <2>1, Zenon DEF ReadSignal
    <3>2. r = rd[p].id
      BY <3>1 DEF Range
    <3> QED BY <3>1, <3>2, Zenon DEF ReaderOwns
  <2>2. CASE ~ReadSignal(p)
    BY <1>u, <2>2, <1>3, Zenon DEF Reads, ReadReply, ReadStep, ReadPop, ReadDelete
  <2> QED BY <2>1, <2>2, Zenon
<1>4. CASE TakeToken
  BY <1>u, <1>e, <1>4, Zenon DEF TakeToken, PumpRequest, PumpTimeoutStale, PumpTimeout, PumpReady, PumpCtxCancel
<1>5. CASE PumpGuard \/ PumpLoop
  BY <1>u, <1>5, Zenon DEF PumpGuard, PumpLoop
<1>6. CASE PumpWrite \/ PumpArm \/ PumpStopped \/ PumpClearAll \/ PumpDrain
  BY <1>u, <1>6, Zenon DEF PumpWrite, PumpArm, PumpStopped, PumpClearAll, PumpDrain
<1>11. ASSUME NEW c \in Clients, Links(c) PROVE Won
  BY <1>u, <1>11, LinkFrame, Zenon
<1>12. CASE Controls
  BY <1>u, <1>12, ControlFrame, Zenon
<1>13. CASE UNCHANGED vars
  BY <1>u, <1>13, Zenon DEF vars
<1> QED BY <1>1, <1>2, <1>3, <1>4, <1>5, <1>6, <1>11, <1>12, <1>13, Zenon
     DEF Next, Step, Finished, Pump, TakeToken, Sends, Watches, Reads, Links, Controls

\* Only PumpArm leaves "arm".
LEMMA ArmStep ==
    ASSUME TypeOK, Session, Hands, [Next]_vars, pc = "arm", ~PumpArm
    PROVE  UNCHANGED <<pc, clientID, cur>>
PROOF
<1>1. ASSUME NEW x \in Requests, Sends(x) PROVE UNCHANGED <<pc, clientID, cur>>
  BY <1>1, SendFrame, Zenon
<1>2. ASSUME NEW x \in Requests, Watches(x) PROVE UNCHANGED <<pc, clientID, cur>>
  BY <1>2, WatchFrame, Zenon
<1>3. ASSUME NEW p \in Readers, Reads(p) PROVE UNCHANGED <<pc, clientID, cur>>
  BY <1>3, ReadFrame, Zenon
<1>4. ~TakeToken /\ ~PumpGuard /\ ~PumpLoop
  BY TokenEffect, Zenon DEF PumpGuard, PumpLoop
<1>6. ~PumpWrite /\ ~PumpStopped /\ ~PumpClearAll /\ ~PumpDrain
  BY Zenon DEF PumpWrite, PumpStopped, PumpClearAll, PumpDrain
<1>11. ASSUME NEW c \in Clients, Links(c) PROVE UNCHANGED <<pc, clientID, cur>>
  BY <1>11, LinkFrame, Zenon
<1>12. CASE Controls
  <2>1. starter # "lock"
    BY Zenon DEF Session
  <2> QED BY <1>12, <2>1, Zenon DEF Controls, CallStart, Start, CallStop, Stop, StopClose, StopJoin
<1>13. CASE UNCHANGED vars
  BY <1>13, Zenon DEF vars
<1> QED BY <1>1, <1>2, <1>3, <1>4, <1>6, <1>11, <1>12, <1>13, Zenon
     DEF Next, Step, Finished, Pump, TakeToken, Sends, Watches, Reads, Links, Controls

\* The pump is about to arm the timeout of a request only right after it has written it.
LEMMA ArmedStep ==
    ASSUME TypeOK, Hands, [Next]_vars, pc' = "arm", pc # "arm"
    PROVE  PumpWrite
PROOF
<1>1. ASSUME NEW x \in Requests, Sends(x) PROVE pc' = pc
  BY <1>1, SendFrame, Zenon
<1>2. ASSUME NEW x \in Requests, Watches(x) PROVE pc' = pc
  BY <1>2, WatchFrame, Zenon
<1>3. ASSUME NEW p \in Readers, Reads(p) PROVE pc' = pc
  BY <1>3, ReadFrame, Zenon
<1>4. ~TakeToken /\ ~PumpGuard /\ ~PumpLoop
  BY TokenEffect, DispatchEffect, Zenon
<1>6. ~PumpArm /\ ~PumpStopped /\ ~PumpClearAll /\ ~PumpDrain
  BY Zenon DEF PumpArm, PumpStopped, PumpClearAll, PumpDrain
<1>11. ASSUME NEW c \in Clients, Links(c) PROVE pc' = pc
  BY <1>11, LinkFrame, Zenon
<1>12. ~Controls
  BY Zenon DEF Controls, CallStart, Start, CallStop, Stop, StopClose, StopJoin
<1>13. CASE UNCHANGED vars
  BY <1>13, Zenon DEF vars
<1> QED BY <1>1, <1>2, <1>3, <1>4, <1>6, <1>11, <1>12, <1>13, Zenon
     DEF Next, Step, Finished, Pump, TakeToken, Sends, Watches, Reads, Links, Controls

\* The pump books what it writes, and hears of the end of it.
LEMMA WatchedStep ==
    ASSUME TypeOK, Session, Hands, Ownership, Lines, Written, Acks, Watched, TypeOK', Hands', Written', [Next]_vars
    PROVE  Watched'
PROOF
<1>1. \A c \in Clients : ctx'[c] \in Requests => ClientOf[ctx'[c]] = c
  BY ContextStep, Zenon
<1>2. ASSUME NEW r \in Range(readyForDispatch') PROVE ~Queued(r)' /\ ~Fresh(r)'
  <2>1. r \in Requests
    <3>1. readyForDispatch' \in Seq(Requests)
      BY Zenon DEF TypeOK
    <3> QED BY <3>1 DEF Range
  <2>2. ~Queued(r) /\ ~Fresh(r)
    BY <1>2, <2>1, ReadyStep, Zenon DEF Watched, Ownership
  <2> QED BY <2>1, <2>2, QueuedStep, FreshStep, Zenon
<1>3. ASSUME pc' = "arm", NEW r \in Requests, InFlight(clientID, r)' PROVE r = cur'
  <2>1. clientID' \in Clients
    BY <1>3, Zenon DEF Hands
  <2>2. CASE pc = "arm"
    <3>1. UNCHANGED <<pc, clientID, cur>>
      BY <1>3, <2>2, ArmStep, Zenon DEF PumpArm
    <3>2. clientID \in Clients /\ InFlight(clientID, r)
      BY <1>3, <2>1, <2>2, <3>1, InFlightStep, Zenon DEF InFlight
    <3> QED BY <2>2, <3>1, <3>2, Zenon DEF Watched
  <2>3. CASE pc # "arm"
    <3>1. /\ pc = "write" /\ UNCHANGED <<clientID, cur>> /\ Unsent(clientID)
      BY <1>3, <2>3, ArmedStep, Zenon DEF PumpWrite, Written
    <3>2. InFlight(clientID, r) \/ r = cur
      BY <1>3, <2>1, <3>1, InFlightStep, Zenon DEF InFlight
    <3>3. ~InFlight(clientID, r)
      BY <2>1, <3>1, InFlightFacts, Zenon
    <3> QED BY <3>1, <3>2, <3>3, Zenon
  <2> QED BY <2>2, <2>3, Zenon
<1>4. ASSUME HasTimeout, NEW c \in Clients, NEW r \in Requests, InFlight(c, r)', pc' = "arm" => c # clientID'
      PROVE  Booked(c, r)'
  <2>1. InFlight(c, r)
    BY <1>4, InFlightStep, Zenon
  <2>2. CASE PumpArm /\ c = clientID
    <3>1. pc = "arm" /\ r = cur
      BY <2>1, <2>2, Zenon DEF PumpArm, Watched
    <3>2. pending[c] = r /\ r # None
      BY <2>1, InFlightFacts, Zenon
    <3>3. dispatched'[c] = r /\ ctx'[c] = r /\ watch'[r] = "watch"
      <4>1. /\ dispatched' = [dispatched EXCEPT ![clientID] =
                                  IF HasPendingRequest(pending[clientID]) THEN cur ELSE None]
            /\ ctx' = [ctx EXCEPT ![clientID] = cur] /\ watch' = [watch EXCEPT ![cur] = "watch"]
        BY <1>4, <2>2, Zenon DEF PumpArm
      <4>2. /\ ctx \in [Clients -> Requests \cup {None, "inactive"}] /\ dispatched \in [Clients -> Requests \cup {None}]
            /\ watch \in [Requests -> {"none", "watch", "expired", "reaped", "done"}]
        BY Zenon DEF TypeOK
      <4> QED BY <2>2, <3>1, <3>2, <4>1, <4>2 DEF HasPendingRequest
    <3> QED BY <3>3, Zenon DEF Booked, WatchedFor
  <2>3. CASE ~(PumpArm /\ c = clientID)
    <3>1. pc = "arm" => c # clientID
      BY <1>4, <2>3, ArmStep, Zenon
    <3>2. Booked(c, r)
      BY <1>4, <2>1, <3>1, Zenon DEF Watched, Booked
    <3> QED BY <1>4, <2>1, <2>3, <3>2, BookedStep, Zenon
  <2> QED BY <2>2, <2>3, Zenon
<1> QED BY <1>1, <1>2, <1>3, <1>4, Zenon DEF Watched, Booked

\* Nothing is in flight before the first Start.
LEMMA InitWatched == Init => Acks /\ Watched
PROOF
<1> SUFFICES ASSUME Init PROVE Acks /\ Watched
  BY Zenon
<1>1. Range(readyForDispatch) = {}
  BY DEF Init, Range
<1>2. \A c \in Clients : ctx[c] \notin Requests /\ \A r \in Requests : ~InFlight(c, r)
  BY Zenon DEF Init, InFlight
<1> QED BY <1>1, <1>2, Zenon DEF Init, Acks, Watched

\* Acks and Watched are inductive, relative to IndInv and Flight.
LEMMA StepWatched ==
    IndInv /\ Flight /\ Acks /\ Watched /\ LateConnect = FALSE /\ SlowPump = FALSE /\ [Next]_vars => Acks' /\ Watched'
PROOF
<1> SUFFICES ASSUME IndInv, Flight, Acks, Watched, LateConnect = FALSE, SlowPump = FALSE, [Next]_vars
             PROVE  Acks' /\ Watched'
  BY Zenon
<1>1. IndInv' /\ Flight'
  BY StepIndInv, StepFlight, Zenon
<1> QED BY <1>1, AcksStep, WatchedStep, Zenon DEF IndInv, Flight

\* What Watched says of the front of a client's queue.
LEMMA WatchedFacts == IndInv /\ Watched => InFlightIsWatched
PROOF
<1> SUFFICES ASSUME IndInv, Watched, HasTimeout, NEW c \in Clients, NEW r, r = Peek(Queue(queueMap[c])), r # None,
                    sent[r] > 0, pc # "arm"
             PROVE  ctx[c] = r /\ WatchedFor(r)
  BY Zenon DEF InFlightIsWatched, WatchedFor
<1>1. queueMap[c] # 0 /\ r \in Requests /\ Owned(c, r)
  BY FrontFacts, Zenon DEF IndInv
<1>2. InFlight(c, r)
  BY <1>1, Zenon DEF InFlight, Owned, Queue
<1> QED BY <1>1, <1>2, Zenon DEF Watched

\* waitForTimeout (dispatcher.go 517-519): unless a connection is lost before onClientConnected has run, or a
\* disconnection gives up waiting for the pump, the timeout of every request in flight is watched or on its way.
THEOREM InFlightIsWatchedHolds == LateConnect = FALSE /\ SlowPump = FALSE => (Spec => []InFlightIsWatched)
PROOF
<1> SUFFICES ASSUME LateConnect = FALSE, SlowPump = FALSE PROVE Spec => []InFlightIsWatched
  BY Zenon
<1>1. IndInv /\ Flight /\ Acks /\ Watched /\ [Next]_vars => Acks' /\ Watched'
  BY StepWatched, Zenon
<1>2. Spec => []Flight
  BY FlightHolds, Zenon
<1> QED BY <1>1, <1>2, InitWatched, IndInvHolds, WatchedFacts, PTL DEF Spec

=============================================================================

----------------------- MODULE ServerDispatcherProofs -----------------------
(* Proofs about ServerDispatcher, for any clients, requests, readers, stoppers *)
(* and bounds.                                                                 *)
EXTENDS ServerDispatcher, TLAPS

USE ServerAssumption
USE DEF queueVars, chanVars, tokenVars, pumpVars, linkVars, ctlVars, sendUnchanged, readUnchanged,
        watchUnchanged, pumpUnchanged, armUnchanged, dispatchUnchanged, linkUnchanged, ctlUnchanged

-----------------------------------------------------------------------------
(* The heap of queues: what a push, a pop, a new client and the drain do to it *)

Heap == queues \in Seq(Seq(Requests))

\* The queue t of the heap is not touched.
SameQueue(t) == queues'[t] = queues[t]

\* Push adds its request at the end of one queue.
LEMMA PushedHeap ==
    ASSUME Heap, NEW q \in DOMAIN queues, NEW r \in Requests, queues' = [queues EXCEPT ![q] = Push(@, r)]
    PROVE  /\ Heap' /\ Len(queues') = Len(queues) /\ DOMAIN queues' = DOMAIN queues
           /\ \A t \in DOMAIN queues \ {q} : SameQueue(t)
           /\ Range(queues'[q]) = Range(queues[q]) \cup {r}
           /\ IsInjective(queues[q]) /\ r \notin Range(queues[q]) => IsInjective(queues'[q])
           /\ \A i \in DOMAIN queues'[q] : \/ i \in DOMAIN queues[q] /\ queues'[q][i] = queues[q][i]
                                           \/ queues'[q][i] = r
           /\ queues'[q] # << >>
           /\ Head(queues'[q]) = IF queues[q] = << >> THEN r ELSE Head(queues[q])
PROOF
<1> DEFINE s == queues[q]
           n == Push(s, r)
<1>1. s \in Seq(Requests)
  BY DEF Heap
<1>2. queues' \in Seq(Seq(Requests)) /\ Len(queues') = Len(queues) /\ DOMAIN queues' = DOMAIN queues
      /\ queues'[q] = n /\ \A t \in DOMAIN queues \ {q} : queues'[t] = queues[t]
  <2>1. n \in Seq(Requests)
    BY <1>1 DEF Push
  <2> HIDE DEF n
  <2>2. queues' = [queues EXCEPT ![q] = n]
    BY Zenon DEF n
  <2> QED BY <2>1, <2>2 DEF Heap
<1> HIDE DEF s
<1>3. /\ n \in Seq(Requests) /\ DOMAIN n = 1..(Len(s) + 1) /\ DOMAIN s = 1..Len(s) /\ Len(s) \in Nat
      /\ \A i \in 1..Len(s) : n[i] = s[i]
      /\ n[Len(s) + 1] = r
  BY <1>1 DEF Push
<1>4. Range(n) = Range(s) \cup {r}
  BY <1>3 DEF Range
<1>5. IsInjective(s) /\ r \notin Range(s) => IsInjective(n)
  BY <1>3 DEF Range, IsInjective
<1>6. \A i \in DOMAIN n : (i \in DOMAIN s /\ n[i] = s[i]) \/ n[i] = r
  BY <1>3
<1> HIDE DEF n
<1>7. n # << >> /\ Head(n) = IF s = << >> THEN r ELSE Head(s)
  <2>1. n # << >> /\ Head(n) = n[1]
    BY <1>3
  <2>2. CASE s = << >>
    BY <1>3, <2>1, <2>2
  <2>3. CASE s # << >>
    BY <1>1, <1>3, <2>1, <2>3
  <2> QED BY <2>2, <2>3
<1> QED BY <1>2, <1>4, <1>5, <1>6, <1>7, Zenon DEF Heap, SameQueue, s

\* A successful PopIf removes the front of one queue.
LEMMA PoppedHeap ==
    ASSUME Heap, NEW q \in DOMAIN queues, queues[q] # << >>, queues' = [queues EXCEPT ![q] = Tail(@)]
    PROVE  /\ Heap' /\ Len(queues') = Len(queues) /\ DOMAIN queues' = DOMAIN queues
           /\ \A t \in DOMAIN queues \ {q} : SameQueue(t)
           /\ Head(queues[q]) \in Requests /\ Head(queues[q]) \in Range(queues[q])
           /\ Range(queues[q]) = Range(queues'[q]) \cup {Head(queues[q])}
           /\ IsInjective(queues[q]) => IsInjective(queues'[q]) /\ Head(queues[q]) \notin Range(queues'[q])
           /\ \A i \in DOMAIN queues'[q] : \E j \in DOMAIN queues[q] : j # 1 /\ queues'[q][i] = queues[q][j]
PROOF
<1> DEFINE s == queues[q]
           n == Tail(s)
<1>1. s \in Seq(Requests) /\ s # << >>
  BY DEF Heap
<1>2. queues' \in Seq(Seq(Requests)) /\ Len(queues') = Len(queues) /\ DOMAIN queues' = DOMAIN queues
      /\ queues'[q] = n /\ \A t \in DOMAIN queues \ {q} : queues'[t] = queues[t]
  <2>1. n \in Seq(Requests)
    BY <1>1
  <2> HIDE DEF n
  <2>2. queues' = [queues EXCEPT ![q] = n]
    BY Zenon DEF n
  <2> QED BY <2>1, <2>2 DEF Heap
<1> HIDE DEF s
<1>3. /\ n \in Seq(Requests) /\ Len(s) \in Nat \ {0} /\ DOMAIN s = 1..Len(s)
      /\ Head(s) \in Requests /\ Head(s) = s[1]
      /\ DOMAIN n = 1..(Len(s) - 1)
      /\ \A i \in 1..(Len(s) - 1) : n[i] = s[i + 1]
  BY <1>1
<1>4. \A i \in DOMAIN n : i + 1 \in DOMAIN s /\ i + 1 # 1 /\ n[i] = s[i + 1]
  BY <1>3
<1>5. \A j \in DOMAIN s : j = 1 \/ (j - 1 \in DOMAIN n /\ n[j - 1] = s[j])
  BY <1>3
<1> HIDE DEF n
<1>6. Range(s) = Range(n) \cup {Head(s)} /\ Head(s) \in Range(s)
  <2>1. Head(s) \in Range(s) /\ Range(n) \subseteq Range(s)
    BY <1>3, <1>4 DEF Range
  <2>2. \A x \in Range(s) : x = Head(s) \/ x \in Range(n)
    BY <1>3, <1>5 DEF Range
  <2> QED BY <2>1, <2>2, Zenon
<1>7. IsInjective(s) => IsInjective(n) /\ Head(s) \notin Range(n)
  <2>1. 1 \in DOMAIN s /\ \A i, j \in DOMAIN n : i + 1 = j + 1 => i = j
    BY <1>3
  <2>2. ASSUME IsInjective(s) PROVE IsInjective(n)
    BY <1>4, <2>1, <2>2, Zenon DEF IsInjective
  <2>3. ASSUME IsInjective(s), NEW i \in DOMAIN n PROVE n[i] # Head(s)
    BY <1>3, <1>4, <2>1, <2>3, Zenon DEF IsInjective
  <2> QED BY <2>2, <2>3, Zenon DEF Range
<1> QED BY <1>2, <1>3, <1>4, <1>6, <1>7, Zenon DEF Heap, SameQueue, s

\* GetOrCreate adds an empty queue under a new reference.
LEMMA GrownHeap ==
    ASSUME Heap, queues' = Append(queues, << >>)
    PROVE  /\ Heap' /\ Len(queues') = Len(queues) + 1
           /\ DOMAIN queues' = DOMAIN queues \cup {Len(queues) + 1} /\ Len(queues) + 1 \notin DOMAIN queues
           /\ \A t \in DOMAIN queues : SameQueue(t)
           /\ queues'[Len(queues) + 1] = << >>
PROOF
<1>1. << >> \in Seq(Requests)
  OBVIOUS
<1> QED BY <1>1 DEF Heap, SameQueue

\* The drain empties the detached queues.
LEMMA DrainedHeap ==
    ASSUME Heap, queues' = [q \in DOMAIN queues |-> IF q \in detached THEN << >> ELSE queues[q]]
    PROVE  /\ Heap' /\ Len(queues') = Len(queues) /\ DOMAIN queues' = DOMAIN queues
           /\ \A t \in DOMAIN queues \ detached : SameQueue(t)
           /\ \A t \in DOMAIN queues \cap detached : queues'[t] = << >>
PROOF
<1>1. << >> \in Seq(Requests)
  OBVIOUS
<1>2. /\ DOMAIN queues = 1..Len(queues) /\ Len(queues) \in Nat
      /\ \A q \in 1..Len(queues) : queues[q] \in Seq(Requests)
  BY DEF Heap
<1>3. queues' \in [1..Len(queues) -> Seq(Requests)]
  BY <1>1, <1>2, Zenon
<1>4. queues' \in Seq(Seq(Requests)) /\ Len(queues') = Len(queues)
  BY <1>2, <1>3
<1> QED BY <1>4, Zenon DEF Heap, SameQueue

-----------------------------------------------------------------------------
(* What the steps of the pump do *)

\* The pump wins the request r of client c and reports it.
Completes(c, r) == Owned(c, r) /\ \E k \in {"timeout", "ctx", "write"} : Complete(c, r, k)

NoCompletion == UNCHANGED <<queues, pending, outcome>>

PumpFrame == UNCHANGED <<queueMap, removed, detached, running, stopped, ctxDone, snd, ref, rd, conn, link,
                         conns, starter, stop, starts>>

Slots == /\ pending \in [Clients -> Requests \cup {None}]
         /\ ctx \in [Clients -> Requests \cup {None, "inactive"}]
         /\ dispatched \in [Clients -> Requests \cup {None}]
         /\ outcome \in [Requests -> Outcomes]

\* The arms of the select that take a token and go on to the guard, or wait for the next one.
TakeToken == PumpRequest \/ PumpTimeoutStale \/ PumpTimeout \/ PumpReady \/ PumpCtxCancel

\* The front of a client's queue, when there is one, is a request of that client.
LEMMA FrontFacts ==
    ASSUME TypeOK, Hands, NEW c \in Clients, NEW r, Peek(Queue(queueMap[c])) = r, r # None
    PROVE  /\ queueMap[c] \in DOMAIN queues /\ queues[queueMap[c]] # << >> /\ queueMap[c] # 0
           /\ r = Head(queues[queueMap[c]]) /\ r \in Requests /\ ClientOf[r] = c
           /\ r \in Range(queues[queueMap[c]]) /\ Owned(c, r)
PROOF
<1>1. queueMap[c] \in 0..Len(queues) /\ queues \in Seq(Seq(Requests))
  BY Zenon DEF TypeOK, QueueRef
<1>2. queueMap[c] # 0 /\ queueMap[c] \in DOMAIN queues
  BY <1>1 DEF Queue, Peek, IsEmpty
<1>3. queues[queueMap[c]] # << >> /\ r = Head(queues[queueMap[c]])
  BY <1>2, Zenon DEF Queue, Peek, IsEmpty
<1>4. queues[queueMap[c]] \in Seq(Requests)
  BY <1>1, <1>2
<1>5. r \in Requests /\ r \in Range(queues[queueMap[c]])
  BY <1>3, <1>4 DEF Range
<1> QED BY <1>2, <1>3, <1>5, Zenon DEF Hands, Owned, FrontIs, Queue, IsEmpty

\* The pump wins only the front of a client's queue.
LEMMA OwnedIsFront ==
    ASSUME NEW c \in Clients, NEW r \in Requests, Owned(c, r)
    PROVE  Peek(Queue(queueMap[c])) = r /\ r # None
PROOF BY Zenon DEF Owned, FrontIs, Peek

\* completeRequestOwned and the cancel callback: one pop, one report.
LEMMA CompleteFacts ==
    ASSUME TypeOK, Hands, NEW c \in Clients, NEW r \in Requests, Completes(c, r)
    PROVE  /\ queueMap[c] \in DOMAIN queues /\ queueMap[c] # 0 /\ queues[queueMap[c]] # << >>
           /\ r = Head(queues[queueMap[c]]) /\ ClientOf[r] = c /\ r \in Range(queues[queueMap[c]])
           /\ queues' = [queues EXCEPT ![queueMap[c]] = Tail(@)]
           /\ pending' = [pending EXCEPT ![c] = DeletePendingRequest(@, r)]
           /\ pending' \in [Clients -> Requests \cup {None}]
           /\ outcome' \in [Requests -> Outcomes]
           /\ \A x \in Requests \ {r} : outcome'[x] = outcome[x]
           /\ outcome[r] = "none" => outcome'[r] \in {"timeout", "ctx", "write"}
           /\ Heap' /\ Len(queues') = Len(queues)
PROOF
<1>1. /\ queueMap[c] \in DOMAIN queues /\ queueMap[c] # 0 /\ queues[queueMap[c]] # << >>
      /\ r = Head(queues[queueMap[c]]) /\ ClientOf[r] = c /\ r \in Range(queues[queueMap[c]])
  BY OwnedIsFront, FrontFacts, Zenon DEF Completes
<1>2. PICK k \in {"timeout", "ctx", "write"} : Complete(c, r, k)
  BY Zenon DEF Completes
<1>3. /\ queues' = [queues EXCEPT ![queueMap[c]] = Tail(@)]
      /\ pending' = [pending EXCEPT ![c] = DeletePendingRequest(@, r)]
      /\ outcome' = [outcome EXCEPT ![r] = IF @ = "none" THEN k ELSE "twice"]
  BY <1>2, Zenon DEF Complete, Notify
<1>4. pending' \in [Clients -> Requests \cup {None}]
  BY <1>3, Zenon DEF TypeOK, DeletePendingRequest
<1>5. /\ outcome' \in [Requests -> Outcomes]
      /\ \A x \in Requests \ {r} : outcome'[x] = outcome[x]
      /\ outcome[r] = "none" => outcome'[r] \in {"timeout", "ctx", "write"}
  BY <1>3, Zenon DEF TypeOK, Outcomes
<1>6. Heap' /\ Len(queues') = Len(queues)
  BY <1>1, <1>3, PoppedHeap, Zenon DEF Heap, TypeOK
<1> QED BY <1>1, <1>3, <1>4, <1>5, <1>6, Zenon

\* The pump takes a token, for which it may complete the request in flight.
LEMMA TokenEffect ==
    ASSUME TypeOK, Hands, TakeToken
    PROVE  /\ pc = "select" /\ pc' \in {"select", "guard"} /\ clientID' \in Clients
           /\ PumpFrame /\ UNCHANGED <<cur, sent>>
           /\ NoCompletion \/ \E c \in Clients, r \in Requests : Completes(c, r)
           /\ \A c \in Clients : disc'[c] = disc[c] \/ (disc[c] = "ack" /\ disc'[c] = "clear")
           /\ clientQueue' \in QueueRef
           /\ ctx' \in [Clients -> Requests \cup {None, "inactive"}]
           /\ dispatched' \in [Clients -> Requests \cup {None}]
PROOF
<1> USE DEF PumpFrame, NoCompletion
<1>0. /\ 0 \in QueueRef /\ clientQueue \in QueueRef /\ \A c \in Clients : queueMap[c] \in QueueRef
      /\ requestChannel \in Seq(Token) /\ timerC \in Seq(Requests) /\ cancelC \in Seq(Requests)
      /\ readyForDispatch \in Seq(Requests)
      /\ ctx \in [Clients -> Requests \cup {None, "inactive"}]
      /\ dispatched \in [Clients -> Requests \cup {None}]
      /\ disc \in [Clients -> {"idle", "remove", "rlock", "send", "ack", "clear"}]
  <2>1. 0 \in QueueRef
    BY DEF QueueRef, TypeOK
  <2> QED BY <2>1, Zenon DEF TypeOK
<1>1. CASE PumpRequest
  <2>1. Head(requestChannel) \in Token
    BY <1>0, <1>1 DEF PumpRequest
  <2>2. Head(requestChannel).client \in Clients
    BY <2>1, Zenon DEF Token
  <2> QED BY <1>0, <1>1, <2>2, Zenon DEF PumpRequest, CloseAck
<1>2. CASE PumpTimeoutStale
  <2>1. Head(timerC) \in Requests /\ ClientOf[Head(timerC)] \in Clients
    BY <1>0, <1>2 DEF PumpTimeoutStale
  <2> QED BY <1>0, <1>2, <2>1, Zenon DEF PumpTimeoutStale
<1>3. CASE PumpTimeout
  <2> DEFINE c == ClientOf[Head(timerC)]
  <2>1. Head(timerC) \in Requests /\ c \in Clients
    BY <1>0, <1>3 DEF PumpTimeout
  <2> HIDE DEF c
  <2>2. /\ pc = "select" /\ pc' \in {"select", "guard"} /\ clientID' = c
        /\ ctx' = [ctx EXCEPT ![c] = "inactive"] /\ dispatched' = [dispatched EXCEPT ![c] = None]
        /\ clientQueue' \in {clientQueue, queueMap[c]}
        /\ disc' = disc /\ PumpFrame /\ UNCHANGED <<cur, sent>>
        /\ NoCompletion \/ (dispatched[c] # None /\ Owned(c, dispatched[c]) /\ Complete(c, dispatched[c], "timeout"))
    BY <1>3, Zenon DEF PumpTimeout, c
  <2>3. ctx' \in [Clients -> Requests \cup {None, "inactive"}] /\ dispatched' \in [Clients -> Requests \cup {None}]
    BY <1>0, <2>1, <2>2, Zenon
  <2>4. dispatched[c] # None => dispatched[c] \in Requests
    BY <1>0, <2>1, Zenon
  <2>5. NoCompletion \/ \E r \in Requests : Completes(c, r)
    BY <2>2, <2>4, Zenon DEF Completes
  <2> QED BY <1>0, <2>1, <2>2, <2>3, <2>5
<1>4. CASE PumpReady
  <2> DEFINE c == ClientOf[Head(readyForDispatch)]
  <2>1. c \in Clients
    BY <1>0, <1>4 DEF PumpReady
  <2> HIDE DEF c
  <2>2. /\ pc = "select" /\ pc' \in {"select", "guard"} /\ clientID' = c
        /\ ctx' \in {ctx, [ctx EXCEPT ![c] = "inactive"], [ctx EXCEPT ![c] = @]}
        /\ dispatched' \in {dispatched, [dispatched EXCEPT ![c] = None]}
        /\ clientQueue' \in {clientQueue, queueMap[c]}
        /\ disc' = disc /\ PumpFrame /\ UNCHANGED <<cur, sent>> /\ NoCompletion
    BY <1>4, Zenon DEF PumpReady, c
  <2>3. ctx' \in [Clients -> Requests \cup {None, "inactive"}] /\ dispatched' \in [Clients -> Requests \cup {None}]
    BY <1>0, <2>1, <2>2, Zenon
  <2> QED BY <1>0, <2>1, <2>2, <2>3
<1>5. CASE PumpCtxCancel
  <2> DEFINE r == Head(cancelC)
             c == ClientOf[r]
  <2>1. r \in Requests /\ c \in Clients
    BY <1>0, <1>5 DEF PumpCtxCancel
  <2> HIDE DEF r, c
  <2>2. /\ pc = "select" /\ pc' \in {"select", "guard"} /\ clientID' = c
        /\ ctx' \in {ctx, [ctx EXCEPT ![c] = "inactive"]}
        /\ dispatched' \in {dispatched, [dispatched EXCEPT ![c] = None]}
        /\ clientQueue' \in {0, queueMap[c]}
        /\ disc' = disc /\ PumpFrame /\ UNCHANGED <<cur, sent>>
        /\ NoCompletion \/ (Owned(c, r) /\ Complete(c, r, "ctx"))
    BY <1>5, Zenon DEF PumpCtxCancel, c, r
  <2>3. ctx' \in [Clients -> Requests \cup {None, "inactive"}] /\ dispatched' \in [Clients -> Requests \cup {None}]
    BY <1>0, <2>1, <2>2, Zenon
  <2> QED BY <1>0, <2>1, <2>2, <2>3 DEF Completes
<1> QED BY <1>1, <1>2, <1>3, <1>4, <1>5, Zenon DEF TakeToken

\* A read goroutine that is not idle has a request in hand.
LEMMA ReaderIds == ASSUME TypeOK, Hands PROVE \A p \in Readers : rd[p].pc # "idle" => rd[p].id \in Requests
PROOF
<1>1. rd \in [Readers -> [pc : {"idle", "pop", "delete", "signal"}, id : Requests \cup {None}, q : QueueRef]]
  BY Zenon DEF TypeOK
<1>2. \A p \in Readers : rd[p].pc # "idle" => rd[p].id # None
  BY Zenon DEF Hands
<1> QED BY <1>1, <1>2

\* dispatchNextRequest finds nothing, completes the front without a write, or makes it the pending request.
LEMMA DispatchEffect ==
    ASSUME TypeOK, Hands, PumpGuard \/ PumpLoop
    PROVE  /\ pc \in {"guard", "loop"} /\ clientID \in Clients
           /\ PumpFrame /\ UNCHANGED <<clientID, clientQueue, sent, disc>>
           /\ pc = "guard" /\ pc' # "select" => pending[clientID] = None
           /\ \/ NoCompletion /\ pc' = "select" /\ cur' = cur
              \/ pc' = "loop" /\ cur' = cur /\ \E r \in Requests : Completes(clientID, r)
              \/ /\ pc' = "write" /\ cur' # None /\ Peek(Queue(queueMap[clientID])) = cur'
                 /\ UNCHANGED <<queues, outcome>>
                 /\ pending' = [pending EXCEPT ![clientID] = AddPendingRequest(@, cur')]
           /\ ctx' \in [Clients -> Requests \cup {None, "inactive"}]
           /\ dispatched' \in [Clients -> Requests \cup {None}]
PROOF
<1>1. pc \in {"guard", "loop"} /\ clientID \in Clients
  BY Zenon DEF PumpGuard, PumpLoop, Hands
<1>2. PumpFrame /\ UNCHANGED <<clientID, clientQueue, sent, disc>>
  BY Zenon DEF PumpGuard, PumpLoop, PumpFrame
<1>3. CASE DispatchNextRequest
  <2> DEFINE r == Peek(Queue(queueMap[clientID]))
  <2>1. r # None => r \in Requests /\ Owned(clientID, r)
    BY <1>1, FrontFacts, Zenon
  <2>2. /\ ctx' = [ctx EXCEPT ![clientID] = "inactive"] /\ dispatched' = [dispatched EXCEPT ![clientID] = None]
        /\ \/ NoCompletion /\ pc' = "select" /\ cur' = cur
           \/ pc' = "loop" /\ cur' = cur /\ r # None /\ Complete(clientID, r, "ctx")
           \/ /\ pc' = "write" /\ r # None /\ cur' = r /\ UNCHANGED <<queues, outcome>>
              /\ pending' = [pending EXCEPT ![clientID] = AddPendingRequest(@, r)]
    BY <1>3, Zenon DEF DispatchNextRequest, NextQueue, NoBundle, NoCompletion
  <2> HIDE DEF r
  <2>3. ctx' \in [Clients -> Requests \cup {None, "inactive"}] /\ dispatched' \in [Clients -> Requests \cup {None}]
    BY <1>1, <2>2, Zenon DEF TypeOK
  <2>4. pc = "guard" /\ pc' # "select" => pending[clientID] = None
    BY Zenon DEF PumpGuard, PumpLoop, CanDispatch, HasPendingRequest
  <2> QED BY <1>1, <1>2, <2>1, <2>2, <2>3, <2>4, Zenon DEF Completes, r
<1>4. CASE ~DispatchNextRequest
  <2>1. pc' = "select" /\ UNCHANGED <<ctx, dispatched, cur, queues, pending, outcome>>
    BY <1>4, Zenon DEF PumpGuard, PumpLoop
  <2> QED BY <1>1, <1>2, <2>1, Zenon DEF NoCompletion, TypeOK
<1> QED BY <1>3, <1>4, Zenon


-----------------------------------------------------------------------------
(* The steps of each goroutine *)

Sends(r) == SendIsRunning(r) \/ SendStep(r)

Watches(r) == CtxFire(r) \/ WatchStep(r)

Reads(p) == ReadStep(p) \/ \E c \in Clients : ReadReply(p, c)

Links(c) == Register(c) \/ OnClientConnected(c) \/ Unregister(c) \/ DeleteClient(c)

Controls == CallStart \/ Start \/ \E s \in Stoppers : CallStop(s) \/ Stop(s)

-----------------------------------------------------------------------------
(* What the steps of a goroutine leave alone *)

\* A sender touches its own progress, a queue and the request channel.
LEMMA SendFrame == ASSUME NEW r \in Requests, Sends(r) PROVE UNCHANGED sendUnchanged
PROOF BY Zenon DEF Sends, SendIsRunning, SendStep, SendGet, SendPush, SendRLock, SendPost

\* A watcher touches its own state and the two token channels.
LEMMA WatchFrame == ASSUME NEW r \in Requests, Watches(r) PROVE UNCHANGED watchUnchanged
PROOF BY Zenon DEF Watches, CtxFire, WatchStep, DeadlineFire, PostTimeout, PostCancel

\* A read goroutine touches a queue, a pending slot and the readiness channel, and reports.
LEMMA ReadFrame == ASSUME NEW p \in Readers, Reads(p) PROVE UNCHANGED readUnchanged
PROOF BY Zenon DEF Reads, ReadReply, ReadStep, ReadPop, ReadDelete, ReadSignal

\* A connection handler touches the queue map, its client's pending slot and the request channel.
LEMMA LinkFrame == ASSUME NEW c \in Clients, Links(c) PROVE UNCHANGED linkUnchanged
PROOF BY Zenon DEF Links, Register, OnClientConnected, Unregister, DeleteClient, DeleteRemove, DeleteRLock,
       DeletePost,
                   DeleteTimeout, ClearClientPendingRequest

\* Start and Stop touch the two flags, the pump and the request channel.
LEMMA ControlFrame == ASSUME Controls PROVE UNCHANGED ctlUnchanged
PROOF BY Zenon DEF Controls, CallStart, Start, CallStop, Stop, StopClose, StopJoin

-----------------------------------------------------------------------------
(* Types *)

Flags == /\ running \in BOOLEAN /\ stopped \in BOOLEAN /\ rdy \in BOOLEAN /\ ctxDone \subseteq Cancelable
         /\ pc \in {"off", "select", "guard", "loop", "write", "arm", "clear", "drain"}
         /\ snd \in [Requests -> {"idle", "get", "push", "rlock", "send", "accepted", "failed"}]
         /\ conn \in [Clients -> 0 .. MaxConns] /\ conns \in [Clients -> 0 .. MaxConns]
         /\ \A c \in Clients : conn[c] <= conns[c]
         /\ disc \in [Clients -> {"idle", "remove", "rlock", "send", "ack", "clear"}]
         /\ starter \in {"idle", "lock"} /\ stop \in [Stoppers -> {"idle", "lock", "wait"}]
         /\ link \in [Clients -> BOOLEAN] /\ starts \in 0 .. MaxStarts
         /\ watch \in [Requests -> {"none", "watch", "expired", "reaped", "done"}]

\* The states of the goroutines and the counters keep their types.
LEMMA FlagStep ==
    ASSUME Flags, [Next]_vars
    PROVE  Flags'
PROOF
<1> USE DEF Flags
<1>1. ASSUME NEW r \in Requests, Sends(r) PROVE Flags'
  <2>1. CASE SendIsRunning(r)
    BY <2>1, Zenon DEF SendIsRunning
  <2>2. CASE SendGet(r)
    BY <2>2, Zenon DEF SendGet
  <2>3. CASE SendPush(r)
    BY <2>3, Zenon DEF SendPush
  <2>4. CASE SendRLock(r)
    BY <2>4, Zenon DEF SendRLock
  <2>5. CASE SendPost(r)
    BY <2>5, Zenon DEF SendPost, Post, HasRoom
  <2> QED BY <1>1, <2>1, <2>2, <2>3, <2>4, <2>5, Zenon DEF Sends, SendStep
<1>2. ASSUME NEW r \in Requests, Watches(r) PROVE Flags'
  <2>1. CASE CtxFire(r)
    BY <2>1, Zenon DEF CtxFire
  <2>2. CASE DeadlineFire(r)
    BY <2>2, Zenon DEF DeadlineFire
  <2>3. CASE PostTimeout(r)
    BY <2>3, Zenon DEF PostTimeout
  <2>4. CASE PostCancel(r)
    BY <2>4, Zenon DEF PostCancel
  <2> QED BY <1>2, <2>1, <2>2, <2>3, <2>4, Zenon DEF Watches, WatchStep
<1>3. ASSUME NEW p \in Readers, Reads(p) PROVE Flags'
  BY <1>3, ReadFrame
<1>4. CASE TakeToken
  <2>1. CASE PumpRequest
    BY <2>1, Zenon DEF PumpRequest, CancelCtx, CloseAck
  <2>2. CASE PumpTimeoutStale
    BY <2>2, Zenon DEF PumpTimeoutStale
  <2>3. CASE PumpTimeout
    BY <2>3, Zenon DEF PumpTimeout
  <2>4. CASE PumpReady
    BY <2>4, Zenon DEF PumpReady, CancelCtx, StaleReady, ReadyAgain
  <2>5. CASE PumpCtxCancel
    BY <2>5, Zenon DEF PumpCtxCancel, CancelCtx
  <2> QED BY <1>4, <2>1, <2>2, <2>3, <2>4, <2>5, Zenon DEF TakeToken
<1>5. CASE PumpGuard \/ PumpLoop
  BY <1>5, Zenon DEF PumpGuard, PumpLoop, DispatchNextRequest
<1>6. CASE PumpWrite
  BY <1>6, Zenon DEF PumpWrite
<1>7. CASE PumpArm
  BY <1>7, Zenon DEF PumpArm
<1>8. CASE PumpStopped
  BY <1>8, Zenon DEF PumpStopped
<1>9. CASE PumpClearAll
  BY <1>9, Zenon DEF PumpClearAll
<1>10. CASE PumpDrain
  BY <1>10, Zenon DEF PumpDrain, CloseDone
<1>11. ASSUME NEW c \in Clients, Links(c) PROVE Flags'
  <2>1. CASE Register(c)
    BY <2>1 DEF Register
  <2>2. CASE OnClientConnected(c)
    BY <2>2 DEF OnClientConnected, CreateClient, GetOrCreate
  <2>3. CASE Unregister(c)
    BY <2>3, Zenon DEF Unregister
  <2>4. CASE DeleteRemove(c)
    BY <2>4, Zenon DEF DeleteRemove
  <2>5. CASE DeleteRLock(c)
    BY <2>5, Zenon DEF DeleteRLock
  <2>6. CASE DeletePost(c)
    BY <2>6, Zenon DEF DeletePost, Post, HasRoom
  <2>7. CASE DeleteTimeout(c)
    BY <2>7, Zenon DEF DeleteTimeout
  <2>8. CASE ClearClientPendingRequest(c)
    BY <2>8, Zenon DEF ClearClientPendingRequest
  <2> QED BY <1>11, <2>1, <2>2, <2>3, <2>4, <2>5, <2>6, <2>7, <2>8, Zenon DEF Links, DeleteClient
<1>12. CASE Controls
  <2>1. CASE CallStart
    BY <2>1 DEF CallStart
  <2>2. CASE Start
    BY <2>2, Zenon DEF Start
  <2>3. ASSUME NEW s \in Stoppers, CallStop(s) PROVE Flags'
    BY <2>3, Zenon DEF CallStop
  <2>4. ASSUME NEW s \in Stoppers, StopClose(s) PROVE Flags'
    BY <2>4, Zenon DEF StopClose
  <2>5. ASSUME NEW s \in Stoppers, StopJoin(s) PROVE Flags'
    BY <2>5, Zenon DEF StopJoin
  <2> QED BY <1>12, <2>1, <2>2, <2>3, <2>4, <2>5, Zenon DEF Controls, Stop
<1>13. CASE UNCHANGED vars
  BY <1>13, Zenon DEF vars
<1> QED BY <1>1, <1>2, <1>3, <1>4, <1>5, <1>6, <1>7, <1>8, <1>9, <1>10, <1>11, <1>12, <1>13, Zenon
     DEF Next, Step, Finished, Pump, TakeToken, Sends, Watches, Reads, Links, Controls

TokenTypes ==
    /\ requestChannel \in Seq(Token) /\ Len(requestChannel) <= ChannelCap
    /\ readyForDispatch \in Seq(Requests) /\ Len(readyForDispatch) <= 1
    /\ timerC \in Seq(Requests) /\ Len(timerC) <= TokenCap
    /\ cancelC \in Seq(Requests) /\ Len(cancelC) <= TokenCap

\* The channels carry what they are made for and never exceed their capacity.
LEMMA TokenStep ==
    ASSUME TypeOK, Hands, [Next]_vars
    PROVE  TokenTypes'
PROOF
<1> USE DEF TokenTypes, Token
<1>0. TokenTypes /\ \A c \in Clients : conns[c] \in Nat
  BY DEF TypeOK
<1>r. \A p \in Readers : rd[p].pc # "idle" => rd[p].id \in Requests
  BY ReaderIds
<1>1. ASSUME NEW r \in Requests, Sends(r) PROVE TokenTypes'
  <2>1. CASE SendIsRunning(r)
    BY <1>0, <2>1, Zenon DEF SendIsRunning
  <2>2. CASE SendGet(r)
    BY <1>0, <2>2, Zenon DEF SendGet
  <2>3. CASE SendPush(r)
    BY <1>0, <2>3, Zenon DEF SendPush
  <2>4. CASE SendRLock(r)
    BY <1>0, <2>4, Zenon DEF SendRLock
  <2>5. CASE SendPost(r)
    BY <1>0, <2>5 DEF SendPost, Post, HasRoom
  <2> QED BY <1>0, <1>1, <2>1, <2>2, <2>3, <2>4, <2>5, Zenon DEF Sends, SendStep
<1>2. ASSUME NEW r \in Requests, Watches(r) PROVE TokenTypes'
  <2>1. CASE CtxFire(r)
    BY <1>0, <2>1, Zenon DEF CtxFire
  <2>2. CASE DeadlineFire(r)
    BY <1>0, <2>2, Zenon DEF DeadlineFire
  <2>3. CASE PostTimeout(r)
    BY <1>0, <2>3 DEF PostTimeout
  <2>4. CASE PostCancel(r)
    BY <1>0, <2>4 DEF PostCancel
  <2> QED BY <1>0, <1>2, <2>1, <2>2, <2>3, <2>4, Zenon DEF Watches, WatchStep
<1>3. ASSUME NEW p \in Readers, Reads(p) PROVE TokenTypes'
  <2>1. ASSUME NEW c \in Clients, ReadReply(p, c) PROVE TokenTypes'
    BY <1>0, <2>1, Zenon DEF ReadReply
  <2>2. CASE ReadPop(p)
    BY <1>0, <2>2, Zenon DEF ReadPop
  <2>3. CASE ReadDelete(p)
    BY <1>0, <2>3, Zenon DEF ReadDelete
  <2>4. CASE ReadSignal(p)
    <3>1. readyForDispatch' = <<rd[p].id>> /\ rd[p].id \in Requests /\ UNCHANGED <<requestChannel, timerC, cancelC>>
      BY <1>r, <2>4, Zenon DEF ReadSignal
    <3> QED BY <1>0, <3>1
  <2> QED BY <1>0, <1>3, <2>1, <2>2, <2>3, <2>4, Zenon DEF Reads, ReadStep
<1>4. CASE TakeToken
  <2>1. CASE PumpRequest
    BY <1>0, <2>1 DEF PumpRequest, CancelCtx, CloseAck
  <2>2. CASE PumpTimeoutStale
    BY <1>0, <2>2 DEF PumpTimeoutStale
  <2>3. CASE PumpTimeout
    <3>1. timerC # << >> /\ timerC' = Tail(timerC) /\ UNCHANGED <<requestChannel, readyForDispatch, cancelC>>
      BY <1>0, <2>3, Zenon DEF PumpTimeout
    <3> QED BY <1>0, <3>1
  <2>4. CASE PumpReady
    <3>1. readyForDispatch' = << >> /\ UNCHANGED <<requestChannel, timerC, cancelC>>
      BY <1>0, <2>4, Zenon DEF PumpReady
    <3> QED BY <1>0, <3>1
  <2>5. CASE PumpCtxCancel
    <3>1. cancelC # << >> /\ cancelC' = Tail(cancelC) /\ UNCHANGED <<requestChannel, readyForDispatch, timerC>>
      BY <1>0, <2>5, Zenon DEF PumpCtxCancel
    <3> QED BY <1>0, <3>1
  <2> QED BY <1>0, <1>4, <2>1, <2>2, <2>3, <2>4, <2>5, Zenon DEF TakeToken
<1>5. CASE PumpGuard \/ PumpLoop
  BY <1>0, <1>5, Zenon DEF PumpGuard, PumpLoop, DispatchNextRequest
<1>6. CASE PumpWrite
  BY <1>0, <1>6, Zenon DEF PumpWrite
<1>7. CASE PumpArm
  BY <1>0, <1>7, Zenon DEF PumpArm
<1>8. CASE PumpStopped
  BY <1>0, <1>8, Zenon DEF PumpStopped
<1>9. CASE PumpClearAll
  BY <1>0, <1>9, Zenon DEF PumpClearAll
<1>10. CASE PumpDrain
  BY <1>0, <1>10 DEF PumpDrain, CloseDone
<1>11. ASSUME NEW c \in Clients, Links(c) PROVE TokenTypes'
  <2>1. \/ requestChannel' = requestChannel
        \/ HasRoom /\ Post(c, conns[c])
    BY <1>0, <1>11, Zenon DEF Links, Register, OnClientConnected, Unregister, DeleteClient, DeleteRemove,
           DeleteRLock, DeletePost,
              DeleteTimeout, ClearClientPendingRequest
  <2>2. UNCHANGED <<readyForDispatch, timerC, cancelC>>
    BY <1>0, <1>11, LinkFrame, Zenon
  <2>3. conns[c] \in Nat
    BY <1>0, Zenon
  <2>4. [client |-> c, deleteAck |-> conns[c]] \in Token
    BY <1>0, <2>3, Zenon
  <2>5. CASE HasRoom /\ Post(c, conns[c])
    BY <1>0, <2>2, <2>4, <2>5 DEF HasRoom, Post
  <2> QED BY <1>0, <2>1, <2>2, <2>5, Zenon
<1>12. CASE Controls
  <2>1. CASE CallStart
    BY <1>0, <2>1, Zenon DEF CallStart
  <2>2. CASE Start
    BY <1>0, <2>2 DEF Start
  <2>3. ASSUME NEW s \in Stoppers, CallStop(s) PROVE TokenTypes'
    BY <1>0, <2>3, Zenon DEF CallStop
  <2>4. ASSUME NEW s \in Stoppers, StopClose(s) PROVE TokenTypes'
    BY <1>0, <2>4, Zenon DEF StopClose
  <2>5. ASSUME NEW s \in Stoppers, StopJoin(s) PROVE TokenTypes'
    BY <1>0, <2>5, Zenon DEF StopJoin
  <2> QED BY <1>0, <1>12, <2>1, <2>2, <2>3, <2>4, <2>5, Zenon DEF Controls, Stop
<1>13. CASE UNCHANGED vars
  BY <1>0, <1>13, Zenon DEF vars
<1> QED BY <1>1, <1>2, <1>3, <1>4, <1>5, <1>6, <1>7, <1>8, <1>9, <1>10, <1>11, <1>12, <1>13, Zenon
     DEF Next, Step, Finished, Pump, TakeToken, Sends, Watches, Reads, Links, Controls

SlotTypes ==
    /\ clientID \in Clients \cup {None} /\ cur \in Requests \cup {None}
    /\ Slots /\ sent \in [Requests -> Nat]
    /\ pc \in {"guard", "loop", "write", "arm"} => clientID \in Clients
    /\ pc \in {"write", "arm"} => cur # None /\ clientID = ClientOf[cur]

\* The pending request, the context and the dispatched request of a client, the request in the pump's hand,
\* and what was sent and reported, keep their types.
LEMMA SlotStep ==
    ASSUME TypeOK, Hands, [Next]_vars
    PROVE  SlotTypes'
PROOF
<1> USE DEF SlotTypes, Slots
<1>0. SlotTypes /\ \A p \in Readers : rd[p].pc # "idle" => rd[p].id \in Requests
  <2>1. SlotTypes
    BY DEF TypeOK, Hands
  <2> QED BY <2>1, ReaderIds, Zenon
<1>c. (NoCompletion \/ \E c \in Clients, r \in Requests : Completes(c, r)) =>
          /\ pending' \in [Clients -> Requests \cup {None}] /\ outcome' \in [Requests -> Outcomes]
  BY <1>0, CompleteFacts, Zenon DEF NoCompletion
<1>1. ASSUME NEW r \in Requests, Sends(r) PROVE SlotTypes'
  BY <1>0, <1>1, SendFrame, Zenon
<1>2. ASSUME NEW r \in Requests, Watches(r) PROVE SlotTypes'
  BY <1>0, <1>2, WatchFrame, Zenon
<1>3. ASSUME NEW p \in Readers, Reads(p) PROVE SlotTypes'
  <2>1. ASSUME NEW c \in Clients, ReadReply(p, c) PROVE SlotTypes'
    BY <1>0, <2>1, Zenon DEF ReadReply
  <2>2. CASE ReadPop(p)
    BY <1>0, <2>2, Zenon DEF ReadPop
  <2>3. CASE ReadDelete(p)
    BY <1>0, <2>3, Zenon DEF ReadDelete, DeletePendingRequest
  <2>4. CASE ReadSignal(p)
    BY <1>0, <2>4, Zenon DEF ReadSignal, Notify, Outcomes
  <2> QED BY <1>3, <2>1, <2>2, <2>3, <2>4, Zenon DEF Reads, ReadStep
<1>4. CASE TakeToken
  BY <1>0, <1>c, <1>4, TokenEffect, Zenon
<1>5. CASE PumpGuard \/ PumpLoop
  <2>1. CASE NoCompletion /\ pc' = "select" /\ cur' = cur
    BY <1>0, <1>c, <2>1, <1>5, DispatchEffect, Zenon
  <2>2. CASE pc' = "loop" /\ cur' = cur /\ \E r \in Requests : Completes(clientID, r)
    BY <1>0, <1>c, <2>2, <1>5, DispatchEffect, Zenon
  <2>3. CASE /\ pc' = "write" /\ cur' # None /\ Peek(Queue(queueMap[clientID])) = cur'
             /\ UNCHANGED <<queues, outcome>>
             /\ pending' = [pending EXCEPT ![clientID] = AddPendingRequest(@, cur')]
    <3>1. clientID \in Clients /\ cur' \in Requests /\ ClientOf[cur'] = clientID
      BY <2>3, <1>5, DispatchEffect, FrontFacts, Zenon
    <3>2. pending' \in [Clients -> Requests \cup {None}]
      BY <1>0, <2>3, <3>1, Zenon DEF AddPendingRequest
    <3> QED BY <1>0, <2>3, <3>1, <3>2, <1>5, DispatchEffect, Zenon
  <2> QED BY <2>1, <2>2, <2>3, <1>5, DispatchEffect, Zenon
<1>6. CASE PumpWrite
  <2>1. pc = "write" /\ cur \in Requests /\ clientID \in Clients
    BY <1>0, <1>6, Zenon DEF PumpWrite
  <2>2. /\ pc' \in {"arm", "loop"} /\ UNCHANGED <<clientID, ctx, dispatched>>
        /\ pc' = "arm" => cur' = cur
        /\ cur' \in {cur, None}
        /\ sent' \in {sent, [sent EXCEPT ![cur] = @ + 1]}
        /\ NoCompletion \/ (Owned(clientID, cur) /\ Complete(clientID, cur, "write"))
    BY <1>0, <1>6, Zenon DEF PumpWrite, NoCompletion
  <2>3. pending' \in [Clients -> Requests \cup {None}] /\ outcome' \in [Requests -> Outcomes]
    BY <1>c, <2>1, <2>2, Zenon DEF Completes
  <2>4. sent' \in [Requests -> Nat]
    BY <1>0, <2>1, <2>2
  <2> QED BY <1>0, <2>1, <2>2, <2>3, <2>4, Zenon
<1>7. CASE PumpArm
  <2>1. pc = "arm" /\ cur \in Requests /\ clientID \in Clients
    BY <1>0, <1>7, Zenon DEF PumpArm
  <2>2. /\ pc' = "select" /\ cur' = None /\ UNCHANGED <<clientID, pending, sent, outcome>>
        /\ ctx' \in {ctx, [ctx EXCEPT ![clientID] = cur]}
        /\ dispatched' \in {[dispatched EXCEPT ![clientID] = cur], [dispatched EXCEPT ![clientID] = None]}
    BY <1>0, <1>7, Zenon DEF PumpArm
  <2>3. ctx' \in [Clients -> Requests \cup {None, "inactive"}] /\ dispatched' \in [Clients -> Requests \cup {None}]
    BY <1>0, <2>1, <2>2
  <2> QED BY <1>0, <2>1, <2>2, <2>3, Zenon
<1>8. CASE PumpStopped
  BY <1>0, <1>8, Zenon DEF PumpStopped
<1>9. CASE PumpClearAll
  BY <1>0, <1>9, Zenon DEF PumpClearAll
<1>10. CASE PumpDrain
  BY <1>0, <1>10, Zenon DEF PumpDrain, CloseDone, Outcomes
<1>11. ASSUME NEW c \in Clients, Links(c) PROVE SlotTypes'
  BY <1>0, <1>11, Zenon DEF Links, Register, OnClientConnected, Unregister, DeleteClient, DeleteRemove,
         DeleteRLock, DeletePost, DeleteTimeout, ClearClientPendingRequest, CreateClient, GetOrCreate, Post,
         HasRoom
<1>12. CASE Controls
  BY <1>0, <1>12, Zenon DEF Controls, CallStart, Start, CallStop, Stop, StopClose, StopJoin
<1>13. CASE UNCHANGED vars
  BY <1>0, <1>13, Zenon DEF vars
<1> QED BY <1>1, <1>2, <1>3, <1>4, <1>5, <1>6, <1>7, <1>8, <1>9, <1>10, <1>11, <1>12, <1>13, Zenon
     DEF Next, Step, Finished, Pump, TakeToken, Sends, Watches, Reads, Links, Controls

-----------------------------------------------------------------------------
(* References into the heap *)

\* A sender pushes its request on the queue it has looked up, or finds that queue full.
LEMMA PushEffect ==
    ASSUME TypeOK, Hands, NEW r \in Requests, SendPush(r)
    PROVE  /\ snd[r] = "push" /\ ref[r] \in DOMAIN queues /\ ref[r] # 0
           /\ ref' = [ref EXCEPT ![r] = 0] /\ UNCHANGED <<requestChannel, sendUnchanged>>
           /\ \/ queues' = queues /\ snd' = [snd EXCEPT ![r] = "failed"]
              \/ /\ queues' = [queues EXCEPT ![ref[r]] = Push(@, r)] /\ snd' = [snd EXCEPT ![r] = "rlock"]
                 /\ Heap' /\ Len(queues') = Len(queues)
PROOF
<1>1. snd[r] = "push" /\ ref[r] # 0 /\ ref[r] \in 0..Len(queues) /\ Heap
  BY Zenon DEF SendPush, Hands, TypeOK, QueueRef, Heap
<1>2. ref[r] \in DOMAIN queues
  BY <1>1 DEF Heap
<1>3. /\ ref' = [ref EXCEPT ![r] = 0] /\ UNCHANGED <<requestChannel, sendUnchanged>>
      /\ \/ queues' = queues /\ snd' = [snd EXCEPT ![r] = "failed"]
         \/ queues' = [queues EXCEPT ![ref[r]] = Push(@, r)] /\ snd' = [snd EXCEPT ![r] = "rlock"]
  BY Zenon DEF SendPush
<1> QED BY <1>1, <1>2, <1>3, PushedHeap, Zenon

\* A read goroutine pops the request that its reply answers, or finds that another goroutine has completed it.
LEMMA PopEffect ==
    ASSUME TypeOK, Hands, NEW p \in Readers, ReadPop(p)
    PROVE  /\ rd[p].pc = "pop" /\ rd[p].q \in DOMAIN queues /\ rd[p].q # 0 /\ rd[p].id \in Requests
           /\ \/ /\ queues' = queues
                 /\ rd' = [rd EXCEPT ![p] = [pc |-> "idle", id |-> None, q |-> 0]]
              \/ /\ queues' = [queues EXCEPT ![rd[p].q] = Tail(@)]
                 /\ queues[rd[p].q] # << >> /\ Head(queues[rd[p].q]) = rd[p].id
                 /\ rd' = [rd EXCEPT ![p] = [pc |-> "delete", id |-> rd[p].id, q |-> 0]]
                 /\ Heap' /\ Len(queues') = Len(queues)
PROOF
<1>1. /\ rd[p].pc = "pop" /\ rd[p].q # 0 /\ rd[p].id # None
      /\ rd[p].q \in 0..Len(queues) /\ rd[p].id \in Requests \cup {None} /\ Heap
      /\ rd = [o \in Readers |-> rd[o]]
  BY Zenon DEF ReadPop, Hands, TypeOK, QueueRef, Heap
<1>2. rd[p].q \in DOMAIN queues
  BY <1>1 DEF Heap
<1>3. /\ queues' = [queues EXCEPT ![rd[p].q] = PopIf(@, rd[p].id)]
      /\ rd' = [rd EXCEPT ![p] = IF FrontIs(queues[@.q], @.id)
                                 THEN [pc |-> "delete", id |-> @.id, q |-> 0]
                                 ELSE [pc |-> "idle", id |-> None, q |-> 0]]
  BY Zenon DEF ReadPop
<1>4. CASE FrontIs(queues[rd[p].q], rd[p].id)
  <2>1. queues' = [queues EXCEPT ![rd[p].q] = Tail(@)] /\ queues[rd[p].q] # << >> /\ Head(queues[rd[p].q]) = rd[p].id
    BY <1>2, <1>3, <1>4, Zenon DEF PopIf, FrontIs, IsEmpty
  <2>2. rd' = [rd EXCEPT ![p] = [pc |-> "delete", id |-> rd[p].id, q |-> 0]]
    BY <1>1, <1>3, <1>4, Zenon
  <2> QED BY <1>1, <1>2, <2>1, <2>2, PoppedHeap, Zenon
<1>5. CASE ~FrontIs(queues[rd[p].q], rd[p].id)
  <2>1. queues' = queues
    BY <1>1, <1>2, <1>3, <1>5 DEF PopIf, Heap
  <2>2. rd' = [rd EXCEPT ![p] = [pc |-> "idle", id |-> None, q |-> 0]]
    BY <1>1, <1>3, <1>5, Zenon
  <2> QED BY <1>1, <1>2, <2>1, <2>2, Zenon
<1> QED BY <1>4, <1>5, Zenon

\* A queue is never lost from the heap: references stay valid.
LEMMA HeapStep ==
    ASSUME TypeOK, Hands, [Next]_vars
    PROVE  Heap' /\ QueueRef \subseteq QueueRef'
PROOF
<1>0. Heap /\ Len(queues) \in Nat
  BY DEF TypeOK, Heap
<1>q. ASSUME Len(queues') = Len(queues) \/ Len(queues') = Len(queues) + 1 PROVE QueueRef \subseteq QueueRef'
  BY <1>0, <1>q DEF QueueRef
<1>c. (NoCompletion \/ \E c \in Clients, r \in Requests : Completes(c, r)) => Heap' /\ QueueRef \subseteq QueueRef'
  BY <1>0, <1>q, CompleteFacts, Zenon DEF NoCompletion, Heap
<1>u. queues' = queues => Heap' /\ QueueRef \subseteq QueueRef'
  BY <1>0, <1>q, Zenon DEF Heap
<1>1. ASSUME NEW r \in Requests, Sends(r) PROVE Heap' /\ QueueRef \subseteq QueueRef'
  <2>1. CASE SendPush(r)
    BY <1>q, <1>u, <2>1, PushEffect, Zenon
  <2>2. CASE ~SendPush(r)
    BY <1>u, <2>2, <1>1, Zenon DEF Sends, SendIsRunning, SendStep, SendGet, SendRLock, SendPost
  <2> QED BY <2>1, <2>2, Zenon
<1>2. ASSUME NEW r \in Requests, Watches(r) PROVE Heap' /\ QueueRef \subseteq QueueRef'
  BY <1>u, <1>2, WatchFrame, Zenon
<1>3. ASSUME NEW p \in Readers, Reads(p) PROVE Heap' /\ QueueRef \subseteq QueueRef'
  <2>1. CASE ReadPop(p)
    BY <1>q, <1>u, <2>1, PopEffect, Zenon
  <2>2. CASE ~ReadPop(p)
    BY <1>u, <2>2, <1>3, Zenon DEF Reads, ReadReply, ReadStep, ReadDelete, ReadSignal
  <2> QED BY <2>1, <2>2, Zenon
<1>4. CASE TakeToken
  BY <1>c, <1>4, TokenEffect, Zenon
<1>5. CASE PumpGuard \/ PumpLoop
  BY <1>c, <1>u, <1>5, DispatchEffect, Zenon
<1>6. CASE PumpWrite
  <2>1. NoCompletion \/ (cur \in Requests /\ clientID \in Clients /\ Owned(clientID, cur)
                         /\ Complete(clientID, cur, "write"))
    BY <1>u, <1>6, Zenon DEF PumpWrite, NoCompletion, TypeOK, Hands
  <2> QED BY <1>c, <2>1, Zenon DEF Completes
<1>7. CASE PumpArm
  BY <1>u, <1>7, Zenon DEF PumpArm
<1>8. CASE PumpStopped
  BY <1>u, <1>8, Zenon DEF PumpStopped
<1>9. CASE PumpClearAll
  BY <1>u, <1>9, Zenon DEF PumpClearAll
<1>10. CASE PumpDrain
  <2>1. queues' = [q \in DOMAIN queues |-> IF q \in detached THEN << >> ELSE queues[q]]
    BY <1>u, <1>10, Zenon DEF PumpDrain
  <2> QED BY <1>0, <1>q, <2>1, DrainedHeap, Zenon
<1>11. ASSUME NEW c \in Clients, Links(c) PROVE Heap' /\ QueueRef \subseteq QueueRef'
  <2>1. queues' = queues \/ queues' = Append(queues, << >>)
    BY <1>u, <1>11, Zenon DEF Links, Register, OnClientConnected, CreateClient, GetOrCreate, Unregister, DeleteClient,
              DeleteRemove, DeleteRLock, DeletePost, DeleteTimeout, ClearClientPendingRequest
  <2> QED BY <1>0, <1>q, <1>u, <2>1, GrownHeap, Zenon
<1>12. CASE Controls
  BY <1>u, <1>12, ControlFrame, Zenon
<1>13. CASE UNCHANGED vars
  BY <1>u, <1>13, Zenon DEF vars
<1> QED BY <1>1, <1>2, <1>3, <1>4, <1>5, <1>6, <1>7, <1>8, <1>9, <1>10, <1>11, <1>12, <1>13, Zenon
     DEF Next, Step, Finished, Pump, TakeToken, Sends, Watches, Reads, Links, Controls

RefTypes ==
    /\ queueMap \in [Clients -> QueueRef] /\ removed \subseteq QueueRef /\ detached \subseteq QueueRef
    /\ clientQueue \in QueueRef /\ ref \in [Requests -> QueueRef]
    /\ rd \in [Readers -> [pc : {"idle", "pop", "delete", "signal"}, id : Requests \cup {None}, q : QueueRef]]

\* Every reference that a goroutine or a map holds is one into the heap.
LEMMA RefStep ==
    ASSUME TypeOK, Hands, [Next]_vars
    PROVE  RefTypes'
PROOF
<1> USE DEF RefTypes
<1>0. /\ queueMap \in [Clients -> QueueRef'] /\ removed \subseteq QueueRef' /\ detached \subseteq QueueRef'
      /\ clientQueue \in QueueRef' /\ ref \in [Requests -> QueueRef'] /\ 0 \in QueueRef'
      /\ rd \in [Readers -> [pc : {"idle", "pop", "delete", "signal"}, id : Requests \cup {None}, q : QueueRef']]
  <2>1. 0 \in QueueRef /\ QueueRef \subseteq QueueRef'
    <3>1. 0 \in QueueRef
      BY DEF TypeOK, QueueRef
    <3> QED BY <3>1, HeapStep, Zenon
  <2>2. rd \in [Readers -> [pc : {"idle", "pop", "delete", "signal"}, id : Requests \cup {None}, q : QueueRef]]
    BY Zenon DEF TypeOK
  <2>3. [pc : {"idle", "pop", "delete", "signal"}, id : Requests \cup {None}, q : QueueRef]
          \subseteq [pc : {"idle", "pop", "delete", "signal"}, id : Requests \cup {None}, q : QueueRef']
    BY <2>1, Zenon
  <2>4. rd \in [Readers -> [pc : {"idle", "pop", "delete", "signal"}, id : Requests \cup {None}, q : QueueRef']]
    BY <2>2, <2>3, Zenon
  <2> QED BY <2>1, <2>4, Zenon DEF TypeOK
<1>p. pending \in [Clients -> Requests \cup {None}]
  BY Zenon DEF TypeOK
<1>1. ASSUME NEW r \in Requests, Sends(r) PROVE RefTypes'
  <2>1. UNCHANGED <<queueMap, removed, detached, clientQueue, rd>>
    BY <1>0, <1>1, SendFrame, Zenon
  <2>2. ref' \in {ref, [ref EXCEPT ![r] = queueMap[ClientOf[r]]], [ref EXCEPT ![r] = 0]}
    BY <1>0, <1>1, Zenon DEF Sends, SendIsRunning, SendStep, SendGet, SendPush, SendRLock, SendPost
  <2> QED BY <1>0, <2>1, <2>2
<1>2. ASSUME NEW r \in Requests, Watches(r) PROVE RefTypes'
  BY <1>0, <1>2, WatchFrame, Zenon
<1>3. ASSUME NEW p \in Readers, Reads(p) PROVE RefTypes'
  <2>1. UNCHANGED <<queueMap, removed, detached, clientQueue, ref>>
    BY <1>0, <1>3, ReadFrame, Zenon
  <2>2. rd[p].id \in Requests \cup {None} /\ rd[p].q \in QueueRef'
    BY <1>0, Zenon
  <2>3. rd' \in [Readers -> [pc : {"idle", "pop", "delete", "signal"}, id : Requests \cup {None}, q : QueueRef']]
    <3>1. ASSUME NEW c \in Clients, ReadReply(p, c)
          PROVE  rd' \in [Readers -> [pc : {"idle", "pop", "delete", "signal"},
                                      id : Requests \cup {None}, q : QueueRef']]
      BY <1>0, <1>p, <3>1, Zenon DEF ReadReply
    <3>2. CASE ReadPop(p)
      BY <1>0, <2>2, <3>2, PopEffect
    <3>3. CASE ReadDelete(p)
      BY <1>0, <3>3 DEF ReadDelete
    <3>4. CASE ReadSignal(p)
      BY <1>0, <3>4, Zenon DEF ReadSignal
    <3> QED BY <1>3, <3>1, <3>2, <3>3, <3>4, Zenon DEF Reads, ReadStep
  <2> QED BY <1>0, <2>1, <2>3, Zenon
<1>4. CASE TakeToken
  <2>1. clientQueue' \in QueueRef'
    BY <1>4, TokenEffect, HeapStep, Zenon
  <2> QED BY <1>0, <2>1, <1>4, TokenEffect, Zenon DEF PumpFrame
<1>5. CASE PumpGuard \/ PumpLoop
  BY <1>0, <1>5, DispatchEffect, Zenon DEF PumpFrame
<1>6. CASE PumpWrite
  BY <1>0, <1>6, Zenon DEF PumpWrite
<1>7. CASE PumpArm
  BY <1>0, <1>7, Zenon DEF PumpArm
<1>8. CASE PumpStopped
  BY <1>0, <1>8 DEF PumpStopped, InMap
<1>9. CASE PumpClearAll
  BY <1>0, <1>9, Zenon DEF PumpClearAll
<1>10. CASE PumpDrain
  BY <1>0, <1>10, Zenon DEF PumpDrain, CloseDone
<1>11. ASSUME NEW c \in Clients, Links(c) PROVE RefTypes'
  <2>1. UNCHANGED <<detached, clientQueue, ref, rd>>
    BY <1>0, <1>11, LinkFrame, Zenon
  <2>2. removed' \in {removed, removed \cup ({queueMap[c]} \ {0})}
    BY <1>0, <1>11, Zenon DEF Links, Register, OnClientConnected, CreateClient, GetOrCreate, Unregister, DeleteClient,
              DeleteRemove, DeleteRLock, DeletePost, DeleteTimeout, ClearClientPendingRequest
  <2>3. \/ queueMap' \in {queueMap, [queueMap EXCEPT ![c] = 0]}
        \/ queues' = Append(queues, << >>) /\ queueMap' = [queueMap EXCEPT ![c] = Len(queues) + 1]
    BY <1>0, <1>11, Zenon DEF Links, Register, OnClientConnected, CreateClient, GetOrCreate, Unregister, DeleteClient,
              DeleteRemove, DeleteRLock, DeletePost, DeleteTimeout, ClearClientPendingRequest
  <2>4. queues' = Append(queues, << >>) => Len(queues) + 1 \in QueueRef'
    BY GrownHeap DEF Heap, TypeOK, QueueRef
  <2> QED BY <1>0, <2>1, <2>2, <2>3, <2>4
<1>12. CASE Controls
  BY <1>0, <1>12, Zenon DEF Controls, CallStart, Start, CallStop, Stop, StopClose, StopJoin
<1>13. CASE UNCHANGED vars
  BY <1>0, <1>13, Zenon DEF vars
<1> QED BY <1>1, <1>2, <1>3, <1>4, <1>5, <1>6, <1>7, <1>8, <1>9, <1>10, <1>11, <1>12, <1>13, Zenon
     DEF Next, Step, Finished, Pump, TakeToken, Sends, Watches, Reads, Links, Controls

\* All types together.
LEMMA TypeStep == ASSUME TypeOK, Hands, [Next]_vars PROVE TypeOK'
PROOF
<1>1. Flags
  BY Zenon DEF Flags, TypeOK, Hands
<1>2. Flags'
  BY <1>1, FlagStep, Zenon
<1>3. TokenTypes' /\ SlotTypes' /\ RefTypes' /\ Heap'
  BY TokenStep, SlotStep, RefStep, HeapStep, Zenon
<1> QED BY <1>2, <1>3, Zenon DEF TypeOK, Flags, TokenTypes, SlotTypes, Slots, RefTypes, Heap

-----------------------------------------------------------------------------
(* Sessions and hands *)

\* Start, Stop and the pump hand the session over to each other; the pump detaches the queues of a stopped one.
LEMMA SessionStep ==
    ASSUME TypeOK, Session, [Next]_vars
    PROVE  Session'
PROOF
<1> USE DEF Session
<1>0. /\ stop \in [Stoppers -> {"idle", "lock", "wait"}] /\ queueMap \in [Clients -> QueueRef]
      /\ running \in BOOLEAN /\ stopped \in BOOLEAN
  BY Zenon DEF TypeOK
<1>1. ASSUME NEW r \in Requests, Sends(r) PROVE Session'
  BY <1>0, <1>1, SendFrame, Zenon
<1>2. ASSUME NEW r \in Requests, Watches(r) PROVE Session'
  BY <1>0, <1>2, WatchFrame, Zenon
<1>3. ASSUME NEW p \in Readers, Reads(p) PROVE Session'
  BY <1>0, <1>3, ReadFrame, Zenon
<1>4. CASE TakeToken
  <2>1. CASE PumpRequest
    BY <1>0, <2>1, Zenon DEF PumpRequest, CancelCtx, CloseAck
  <2>2. CASE PumpTimeoutStale
    BY <1>0, <2>2, Zenon DEF PumpTimeoutStale
  <2>3. CASE PumpTimeout
    BY <1>0, <2>3, Zenon DEF PumpTimeout
  <2>4. CASE PumpReady
    BY <1>0, <2>4, Zenon DEF PumpReady, CancelCtx
  <2>5. CASE PumpCtxCancel
    BY <1>0, <2>5, Zenon DEF PumpCtxCancel, CancelCtx
  <2> QED BY <1>4, <2>1, <2>2, <2>3, <2>4, <2>5, Zenon DEF TakeToken
<1>5. CASE PumpGuard \/ PumpLoop
  BY <1>0, <1>5 DEF PumpGuard, PumpLoop, DispatchNextRequest
<1>6. CASE PumpWrite
  BY <1>0, <1>6, Zenon DEF PumpWrite
<1>7. CASE PumpArm
  BY <1>0, <1>7, Zenon DEF PumpArm
<1>8. CASE PumpStopped
  BY <1>0, <1>8, Zenon DEF PumpStopped
<1>9. CASE PumpClearAll
  BY <1>0, <1>9, Zenon DEF PumpClearAll
<1>10. CASE PumpDrain
  BY <1>0, <1>10, Zenon DEF PumpDrain, CloseDone
<1>11. ASSUME NEW c \in Clients, Links(c) PROVE Session'
  <2>1. CASE Register(c)
    BY <1>0, <2>1, Zenon DEF Register
  <2>2. CASE OnClientConnected(c)
    BY <1>0, <2>2, Zenon DEF OnClientConnected, CreateClient, GetOrCreate, CanRLock
  <2>3. CASE Unregister(c)
    BY <1>0, <2>3, Zenon DEF Unregister
  <2>4. CASE DeleteRemove(c)
    BY <1>0, <2>4, Zenon DEF DeleteRemove
  <2>5. CASE DeleteRLock(c)
    BY <1>0, <2>5, Zenon DEF DeleteRLock
  <2>6. CASE DeletePost(c)
    BY <1>0, <2>6, Zenon DEF DeletePost, Post, HasRoom
  <2>7. CASE DeleteTimeout(c)
    BY <1>0, <2>7, Zenon DEF DeleteTimeout
  <2>8. CASE ClearClientPendingRequest(c)
    BY <1>0, <2>8, Zenon DEF ClearClientPendingRequest
  <2> QED BY <1>11, <2>1, <2>2, <2>3, <2>4, <2>5, <2>6, <2>7, <2>8, Zenon DEF Links, DeleteClient
<1>12. CASE Controls
  <2>1. CASE CallStart
    BY <1>0, <2>1, Zenon DEF CallStart
  <2>2. CASE Start
    BY <1>0, <2>2, Zenon DEF Start
  <2>3. ASSUME NEW s \in Stoppers, CallStop(s) PROVE Session'
    BY <1>0, <2>3, Zenon DEF CallStop
  <2>4. ASSUME NEW s \in Stoppers, StopClose(s) PROVE Session'
    BY <1>0, <2>4, Zenon DEF StopClose
  <2>5. ASSUME NEW s \in Stoppers, StopJoin(s) PROVE Session'
    BY <1>0, <2>5, Zenon DEF StopJoin
  <2> QED BY <1>12, <2>1, <2>2, <2>3, <2>4, <2>5, Zenon DEF Controls, Stop
<1>13. CASE UNCHANGED vars
  BY <1>0, <1>13, Zenon DEF vars
<1> QED BY <1>1, <1>2, <1>3, <1>4, <1>5, <1>6, <1>7, <1>8, <1>9, <1>10, <1>11, <1>12, <1>13, Zenon
     DEF Next, Step, Finished, Pump, TakeToken, Sends, Watches, Reads, Links, Controls

Holders ==
    /\ 0 \notin detached \cup removed
    /\ \A r \in Requests : snd[r] = "push" => ref[r] # 0
    /\ \A p \in Readers : /\ rd[p].pc # "idle" => rd[p].id # None
                          /\ rd[p].pc = "pop" => rd[p].q # 0

Owners ==
    /\ \A r \in Requests, c \in Clients : ref[r] # 0 /\ ref[r] = queueMap[c] => ClientOf[r] = c
    /\ \A c \in Clients : queueMap[c] # 0 => \A r \in Range(queues[queueMap[c]]) : ClientOf[r] = c
    /\ \A c, d \in Clients : queueMap[c] # 0 /\ queueMap[c] = queueMap[d] => c = d

\* No queue gets a request that it did not hold.
Shrinks == /\ DOMAIN queues' = DOMAIN queues
           /\ \A q \in DOMAIN queues : Range(queues'[q]) \subseteq Range(queues[q])

\* Every step but a push and the creation of a queue only takes requests out of queues.
LEMMA ShrinkStep ==
    ASSUME TypeOK, Hands, [Next]_vars, \A r \in Requests : ~SendPush(r), \A c \in Clients : ~OnClientConnected(c)
    PROVE  Shrinks
PROOF
<1>0. Heap
  BY Zenon DEF TypeOK, Heap
<1>u. queues' = queues => Shrinks
  BY Zenon DEF Shrinks
<1>t. ASSUME NEW q \in DOMAIN queues, queues[q] # << >>, queues' = [queues EXCEPT ![q] = Tail(@)] PROVE Shrinks
  BY <1>0, <1>t, PoppedHeap, Zenon DEF Shrinks, SameQueue
<1>c. (NoCompletion \/ \E c \in Clients, r \in Requests : Completes(c, r)) => Shrinks
  BY <1>u, <1>t, CompleteFacts, Zenon DEF NoCompletion
<1>1. ASSUME NEW r \in Requests, Sends(r) PROVE Shrinks
  BY <1>u, <1>1, Zenon DEF Sends, SendIsRunning, SendStep, SendGet, SendRLock, SendPost
<1>2. ASSUME NEW r \in Requests, Watches(r) PROVE Shrinks
  BY <1>u, <1>2, WatchFrame, Zenon
<1>3. ASSUME NEW p \in Readers, Reads(p) PROVE Shrinks
  <2>1. CASE ReadPop(p)
    BY <1>u, <1>t, <2>1, PopEffect, Zenon
  <2>2. CASE ~ReadPop(p)
    BY <1>u, <2>2, <1>3, Zenon DEF Reads, ReadReply, ReadStep, ReadDelete, ReadSignal
  <2> QED BY <2>1, <2>2, Zenon
<1>4. CASE TakeToken
  BY <1>c, <1>4, TokenEffect, Zenon
<1>5. CASE PumpGuard \/ PumpLoop
  BY <1>c, <1>u, <1>5, DispatchEffect, Zenon
<1>6. CASE PumpWrite
  <2>1. NoCompletion \/ (cur \in Requests /\ clientID \in Clients /\ Owned(clientID, cur)
                         /\ Complete(clientID, cur, "write"))
    BY <1>u, <1>6, Zenon DEF PumpWrite, NoCompletion, TypeOK, Hands
  <2> QED BY <1>c, <2>1, Zenon DEF Completes
<1>7. CASE PumpArm
  BY <1>u, <1>7, Zenon DEF PumpArm
<1>8. CASE PumpStopped
  BY <1>u, <1>8, Zenon DEF PumpStopped
<1>9. CASE PumpClearAll
  BY <1>u, <1>9, Zenon DEF PumpClearAll
<1>10. CASE PumpDrain
  <2>1. queues' = [q \in DOMAIN queues |-> IF q \in detached THEN << >> ELSE queues[q]]
    BY <1>u, <1>10, Zenon DEF PumpDrain
  <2>2. Range(<< >>) = {}
    BY DEF Range
  <2> QED BY <1>0, <2>1, <2>2, DrainedHeap, Zenon DEF Shrinks, SameQueue
<1>11. ASSUME NEW c \in Clients, Links(c) PROVE Shrinks
  BY <1>u, <1>11, Zenon DEF Links, Register, Unregister, DeleteClient, DeleteRemove, DeleteRLock, DeletePost,
              DeleteTimeout, ClearClientPendingRequest
<1>12. CASE Controls
  BY <1>u, <1>12, ControlFrame, Zenon
<1>13. CASE UNCHANGED vars
  BY <1>u, <1>13, Zenon DEF vars
<1> QED BY <1>1, <1>2, <1>3, <1>4, <1>5, <1>6, <1>7, <1>8, <1>9, <1>10, <1>11, <1>12, <1>13, Zenon
     DEF Next, Step, Finished, Pump, TakeToken, Sends, Watches, Reads, Links, Controls

\* A sender that pushes and a read goroutine that pops have a queue and a request in hand.
LEMMA HolderStep ==
    ASSUME TypeOK, Hands, [Next]_vars
    PROVE  Holders'
PROOF
<1> USE DEF Holders
<1>0. /\ Holders /\ snd \in [Requests -> {"idle", "get", "push", "rlock", "send", "accepted", "failed"}]
      /\ ref \in [Requests -> QueueRef]
      /\ rd \in [Readers -> [pc : {"idle", "pop", "delete", "signal"}, id : Requests \cup {None}, q : QueueRef]]
  BY Zenon DEF TypeOK, Hands
<1>1. ASSUME NEW r \in Requests, Sends(r) PROVE Holders'
  BY <1>0, <1>1, Zenon DEF Sends, SendIsRunning, SendStep, SendGet, SendPush, SendRLock, SendPost
<1>2. ASSUME NEW r \in Requests, Watches(r) PROVE Holders'
  BY <1>0, <1>2, WatchFrame, Zenon
<1>3. ASSUME NEW p \in Readers, Reads(p) PROVE Holders'
  <2>1. ASSUME NEW c \in Clients, ReadReply(p, c) PROVE Holders'
    BY <1>0, <2>1, Zenon DEF ReadReply, HasPendingRequest
  <2>2. CASE ReadPop(p)
    BY <1>0, <2>2, PopEffect, Zenon DEF ReadPop
  <2>3. CASE ReadDelete(p)
    BY <1>0, <2>3 DEF ReadDelete
  <2>4. CASE ReadSignal(p)
    BY <1>0, <2>4, Zenon DEF ReadSignal
  <2> QED BY <1>3, <2>1, <2>2, <2>3, <2>4, Zenon DEF Reads, ReadStep
<1>4. CASE TakeToken
  BY <1>0, <1>4, TokenEffect, Zenon DEF PumpFrame
<1>5. CASE PumpGuard \/ PumpLoop
  BY <1>0, <1>5, DispatchEffect, Zenon DEF PumpFrame
<1>6. CASE PumpWrite
  BY <1>0, <1>6, Zenon DEF PumpWrite
<1>7. CASE PumpArm
  BY <1>0, <1>7, Zenon DEF PumpArm
<1>8. CASE PumpStopped
  BY <1>0, <1>8, Zenon DEF PumpStopped, InMap
<1>9. CASE PumpClearAll
  BY <1>0, <1>9, Zenon DEF PumpClearAll
<1>10. CASE PumpDrain
  BY <1>0, <1>10, Zenon DEF PumpDrain, CloseDone
<1>11. ASSUME NEW c \in Clients, Links(c) PROVE Holders'
  BY <1>0, <1>11, Zenon DEF Links, Register, OnClientConnected, Unregister, DeleteClient, DeleteRemove,
         DeleteRLock, DeletePost, DeleteTimeout, ClearClientPendingRequest, CreateClient, GetOrCreate, Post,
         HasRoom
<1>12. CASE Controls
  BY <1>0, <1>12, Zenon DEF Controls, CallStart, Start, CallStop, Stop, StopClose, StopJoin
<1>13. CASE UNCHANGED vars
  BY <1>0, <1>13, Zenon DEF vars
<1> QED BY <1>1, <1>2, <1>3, <1>4, <1>5, <1>6, <1>7, <1>8, <1>9, <1>10, <1>11, <1>12, <1>13, Zenon
     DEF Next, Step, Finished, Pump, TakeToken, Sends, Watches, Reads, Links, Controls

\* The map loses queues only, and a reference is kept, dropped or looked up in the map.
MapKept == /\ \A c \in Clients : queueMap'[c] \in {0, queueMap[c]}
           /\ \A r \in Requests : ref'[r] \in {0, ref[r], queueMap[ClientOf[r]]}

\* Only onClientConnected enters a queue in the map, and a sender looks up the queue of its client.
LEMMA MapStep ==
    ASSUME TypeOK, Hands, \A c \in Clients : ~OnClientConnected(c), [Next]_vars
    PROVE  MapKept
PROOF
<1> USE DEF MapKept
<1>0. queueMap \in [Clients -> QueueRef] /\ ref \in [Requests -> QueueRef]
  BY Zenon DEF TypeOK
<1>1. ASSUME NEW r \in Requests, Sends(r) PROVE MapKept
  BY <1>0, <1>1, Zenon DEF Sends, SendIsRunning, SendStep, SendGet, SendPush, SendRLock, SendPost
<1>2. ASSUME NEW r \in Requests, Watches(r) PROVE MapKept
  BY <1>0, <1>2, WatchFrame, Zenon
<1>3. ASSUME NEW p \in Readers, Reads(p) PROVE MapKept
  BY <1>0, <1>3, ReadFrame, Zenon
<1>4. CASE TakeToken
  BY <1>0, <1>4, TokenEffect, Zenon DEF PumpFrame
<1>5. CASE PumpGuard \/ PumpLoop
  BY <1>0, <1>5, DispatchEffect, Zenon DEF PumpFrame
<1>6. CASE PumpWrite
  BY <1>0, <1>6, Zenon DEF PumpWrite
<1>7. CASE PumpArm
  BY <1>0, <1>7, Zenon DEF PumpArm
<1>8. CASE PumpStopped
  BY <1>0, <1>8, Zenon DEF PumpStopped
<1>9. CASE PumpClearAll
  BY <1>0, <1>9, Zenon DEF PumpClearAll
<1>10. CASE PumpDrain
  BY <1>0, <1>10, Zenon DEF PumpDrain, CloseDone
<1>11. ASSUME NEW c \in Clients, Links(c) PROVE MapKept
  BY <1>0, <1>11, Zenon DEF Links, Register, Unregister, DeleteClient, DeleteRemove, DeleteRLock, DeletePost,
              DeleteTimeout, ClearClientPendingRequest
<1>12. CASE Controls
  BY <1>0, <1>12, ControlFrame, Zenon
<1>13. CASE UNCHANGED vars
  BY <1>0, <1>13, Zenon DEF vars
<1> QED BY <1>1, <1>2, <1>3, <1>4, <1>5, <1>6, <1>7, <1>8, <1>9, <1>10, <1>11, <1>12, <1>13, Zenon
     DEF Next, Step, Finished, Pump, TakeToken, Sends, Watches, Reads, Links, Controls

\* A queue of the map belongs to one client, and so do the requests in it and the senders about to push on it.
LEMMA OwnerStep == ASSUME TypeOK, Hands, [Next]_vars PROVE Owners'
PROOF
<1>0. /\ Owners /\ Heap /\ queueMap \in [Clients -> 0..Len(queues)] /\ ref \in [Requests -> 0..Len(queues)]
      /\ DOMAIN queues = 1..Len(queues) /\ Len(queues) \in Nat
  <2>1. Owners
    BY Zenon DEF Hands, Owners
  <2>2. Heap /\ queueMap \in [Clients -> 0..Len(queues)] /\ ref \in [Requests -> 0..Len(queues)]
    BY Zenon DEF TypeOK, QueueRef, Heap
  <2> QED BY <2>1, <2>2 DEF Heap
<1>1. ASSUME NEW r \in Requests, SendPush(r) PROVE Owners'
  <2>1. /\ ref[r] \in DOMAIN queues /\ ref' = [ref EXCEPT ![r] = 0] /\ queueMap' = queueMap
        /\ queues' = queues \/ queues' = [queues EXCEPT ![ref[r]] = Push(@, r)]
    BY <1>1, PushEffect, Zenon
  <2>2. ASSUME NEW q \in DOMAIN queues
        PROVE  Range(queues'[q]) \subseteq IF q = ref[r] THEN Range(queues[q]) \cup {r} ELSE Range(queues[q])
    BY <1>0, <2>1, PushedHeap DEF SameQueue
  <2> QED BY <1>0, <2>1, <2>2 DEF Owners
<1>2. ASSUME NEW c \in Clients, OnClientConnected(c) PROVE Owners'
  <2>1. CASE UNCHANGED <<queues, queueMap>>
    BY <1>0, <1>2, <2>1, Zenon DEF OnClientConnected, Owners
  <2>2. CASE ~UNCHANGED <<queues, queueMap>>
    <3>1. /\ queues' = Append(queues, << >>) /\ queueMap' = [queueMap EXCEPT ![c] = Len(queues) + 1] /\ ref' = ref
      BY <1>2, <2>2, Zenon DEF OnClientConnected, CreateClient, GetOrCreate
    <3>2. /\ \A q \in DOMAIN queues : queues'[q] = queues[q]
          /\ Range(queues'[Len(queues) + 1]) = {}
      BY <1>0, <3>1, GrownHeap DEF SameQueue, Range
    <3>3. \A r \in Requests : ref[r] # Len(queues) + 1
      BY <1>0
    <3>4. \A d \in Clients : queueMap[d] # Len(queues) + 1
      BY <1>0
    <3>5. \A d \in Clients : queueMap'[d] = IF d = c THEN Len(queues) + 1 ELSE queueMap[d]
      BY <1>0, <3>1, Zenon
    <3>6. \A d \in Clients : queueMap[d] # 0 => queueMap[d] \in DOMAIN queues
      BY <1>0
    <3> QED BY <1>0, <3>1, <3>2, <3>3, <3>4, <3>5, <3>6, Zenon DEF Owners
  <2> QED BY <2>1, <2>2, Zenon
<1>3. CASE (\A r \in Requests : ~SendPush(r)) /\ \A c \in Clients : ~OnClientConnected(c)
  <2>1. Shrinks
    BY <1>3, ShrinkStep, Zenon
  <2>2. \A c \in Clients : queueMap'[c] \in {0, queueMap[c]}
    BY <1>0, <1>3, MapStep, Zenon DEF MapKept
  <2>3. \A r \in Requests : ref'[r] \in {0, ref[r], queueMap[ClientOf[r]]}
    BY <1>0, <1>3, MapStep, Zenon DEF MapKept
  <2>4. \A c \in Clients : queueMap[c] # 0 => queueMap[c] \in DOMAIN queues
    BY <1>0
  <2> QED BY <1>0, <2>1, <2>2, <2>3, <2>4 DEF Owners, Shrinks
<1> QED BY <1>1, <1>2, <1>3, Zenon

\* What every goroutine has in hand.
LEMMA HandsStep == ASSUME TypeOK, Hands, [Next]_vars PROVE Hands'
PROOF
<1>1. Flags
  BY Zenon DEF Flags, TypeOK, Hands
<1>2. Flags'
  BY <1>1, FlagStep, Zenon
<1> QED BY <1>2, SlotStep, HolderStep, OwnerStep, Zenon DEF Hands, Flags, SlotTypes, Holders, Owners

-----------------------------------------------------------------------------
(* Ownership *)

\* The senders and the read goroutines take nothing into their hands.
HandsKept == /\ \A r \in Requests : Fresh(r)' => Fresh(r)
             /\ \A r \in Requests, p \in Readers : ReaderOwns(p, r)' => ReaderOwns(p, r)

\* A step that neither moves nor reports a request.
LEMMA QuietOwnership ==
    ASSUME Ownership, UNCHANGED <<queues, outcome>>, HandsKept
    PROVE  Ownership'
PROOF
<1>1. \A r \in Requests : Queued(r)' => Queued(r)
  BY Zenon DEF Queued
<1> QED BY <1>1, Zenon DEF Ownership, HandsKept, SingleOutcome

\* The front of a queue leaves it and belongs to nobody but the goroutine that popped it.
LEMMA PoppedOwnership ==
    ASSUME Heap, Ownership, NEW q \in DOMAIN queues, queues[q] # << >>, queues' = [queues EXCEPT ![q] = Tail(@)],
           NEW r, r = Head(queues[q])
    PROVE  /\ \A t \in DOMAIN queues' : IsInjective(queues'[t])
           /\ \A s, t \in DOMAIN queues' :
                  \A x \in Requests : x \in Range(queues'[s]) /\ x \in Range(queues'[t]) => s = t
           /\ r \in Requests /\ Queued(r) /\ ~Queued(r)'
           /\ \A x \in Requests : Queued(x)' => Queued(x)
PROOF
<1>1. /\ DOMAIN queues' = DOMAIN queues /\ \A t \in DOMAIN queues \ {q} : queues'[t] = queues[t]
      /\ r \in Requests /\ r \in Range(queues[q]) /\ Range(queues[q]) = Range(queues'[q]) \cup {r}
      /\ IsInjective(queues'[q]) /\ r \notin Range(queues'[q])
  BY PoppedHeap, Zenon DEF Ownership, SameQueue
<1>2. \A t \in DOMAIN queues : Range(queues'[t]) \subseteq Range(queues[t])
  BY <1>1, Zenon
<1>3. /\ \A t \in DOMAIN queues' : IsInjective(queues'[t])
      /\ \A s, t \in DOMAIN queues' : \A x \in Requests : x \in Range(queues'[s]) /\ x \in Range(queues'[t]) => s = t
  BY <1>1, <1>2 DEF Ownership
<1>4. Queued(r) /\ ~Queued(r)'
  BY <1>1, <1>2, Zenon DEF Ownership, Queued
<1>5. \A x \in Requests : Queued(x)' => Queued(x)
  BY <1>1, <1>2, Zenon DEF Queued
<1> QED BY <1>1, <1>3, <1>4, <1>5, Zenon

\* The pump pops a request and reports it.
LEMMA CompleteOwnership ==
    ASSUME TypeOK, Hands, Ownership, NEW c \in Clients, NEW r \in Requests, Completes(c, r), UNCHANGED <<snd, rd>>
    PROVE  Ownership'
PROOF
<1>1. /\ \A x \in Requests \ {r} : outcome'[x] = outcome[x]
      /\ outcome[r] = "none" => outcome'[r] \in {"timeout", "ctx", "write"}
      /\ queueMap[c] \in DOMAIN queues /\ queues[queueMap[c]] # << >> /\ r = Head(queues[queueMap[c]])
      /\ queues' = [queues EXCEPT ![queueMap[c]] = Tail(@)]
  BY CompleteFacts, Zenon
<1>2. Heap
  BY Zenon DEF Heap, TypeOK
<1>3. /\ \A t \in DOMAIN queues' : IsInjective(queues'[t])
      /\ \A s, t \in DOMAIN queues' : \A x \in Requests : x \in Range(queues'[s]) /\ x \in Range(queues'[t]) => s = t
      /\ Queued(r) /\ ~Queued(r)' /\ \A x \in Requests : Queued(x)' => Queued(x)
  BY <1>1, <1>2, PoppedOwnership, Zenon
<1>4. \A x \in Requests : (Fresh(x)' => Fresh(x)) /\ \A p \in Readers : ReaderOwns(p, x)' => ReaderOwns(p, x)
  BY Zenon DEF Fresh, ReaderOwns
<1>5. outcome[r] = "none" /\ ~Fresh(r) /\ \A p \in Readers : ~ReaderOwns(p, r)
  BY <1>3, Zenon DEF Ownership
<1>6. SingleOutcome'
  BY <1>1, <1>5, Zenon DEF Ownership, SingleOutcome
<1>7. ASSUME NEW x \in Requests, Fresh(x)' \/ Queued(x)' \/ (\E p \in Readers : ReaderOwns(p, x)')
      PROVE  outcome'[x] = "none"
  <2>1. x # r
    BY <1>3, <1>4, <1>5, <1>7, Zenon
  <2> QED BY <1>1, <1>3, <1>4, <1>7, <2>1, Zenon DEF Ownership
<1>8. ASSUME NEW x \in Requests PROVE Queued(x)' => ~Fresh(x)'
  BY <1>3, <1>4, Zenon DEF Ownership
<1>9. ASSUME NEW x \in Requests, NEW p \in Readers, ReaderOwns(p, x)'
      PROVE  ~Fresh(x)' /\ ~Queued(x)' /\ \A o \in Readers : ReaderOwns(o, x)' => p = o
  BY <1>3, <1>4, <1>9, Zenon DEF Ownership
<1> QED BY <1>3, <1>6, <1>7, <1>8, <1>9, Zenon DEF Ownership

\* The sender puts its request in a queue, once.
LEMMA PushOwnership ==
    ASSUME TypeOK, Hands, Ownership, NEW r \in Requests, SendPush(r)
    PROVE  Ownership'
PROOF
<1>1. /\ snd[r] = "push" /\ ref[r] \in DOMAIN queues /\ UNCHANGED <<rd, outcome>>
      /\ \/ queues' = queues /\ snd' = [snd EXCEPT ![r] = "failed"]
         \/ queues' = [queues EXCEPT ![ref[r]] = Push(@, r)] /\ snd' = [snd EXCEPT ![r] = "rlock"]
  BY PushEffect, Zenon
<1>2. snd \in [Requests -> {"idle", "get", "push", "rlock", "send", "accepted", "failed"}] /\ Heap
  BY Zenon DEF TypeOK, Heap
<1>3. /\ HandsKept /\ Fresh(r) /\ ~Fresh(r)' /\ \A x \in Requests \ {r} : Fresh(x)' => Fresh(x)
      /\ \A p \in Readers, x \in Requests : ReaderOwns(p, x)' => ReaderOwns(p, x)
  BY <1>1, <1>2, Zenon DEF HandsKept, Fresh, ReaderOwns
<1>4. CASE queues' = queues
  BY <1>1, <1>3, <1>4, QuietOwnership, Zenon
<1>5. CASE queues' = [queues EXCEPT ![ref[r]] = Push(@, r)]
  <2>1. outcome[r] = "none" /\ ~Queued(r) /\ \A p \in Readers : ~ReaderOwns(p, r)
    BY <1>3, Zenon DEF Ownership
  <2>2. \A t \in DOMAIN queues : r \notin Range(queues[t])
    BY <2>1, Zenon DEF Queued
  <2>3. /\ DOMAIN queues' = DOMAIN queues /\ \A t \in DOMAIN queues \ {ref[r]} : queues'[t] = queues[t]
        /\ Range(queues'[ref[r]]) = Range(queues[ref[r]]) \cup {r} /\ IsInjective(queues'[ref[r]])
    BY <1>1, <1>2, <1>5, <2>2, PushedHeap, Zenon DEF SameQueue, Ownership
  <2>4. \A x \in Requests \ {r} : Queued(x)' => Queued(x)
    BY <1>1, <2>3, Zenon DEF Queued
  <2>5. /\ \A t \in DOMAIN queues' : IsInjective(queues'[t])
        /\ \A s, t \in DOMAIN queues' :
               \A x \in Requests : x \in Range(queues'[s]) /\ x \in Range(queues'[t]) => s = t
    BY <2>2, <2>3 DEF Ownership
  <2>6. SingleOutcome' /\ \A x \in Requests : outcome'[x] = outcome[x]
    BY <1>1, Zenon DEF Ownership, SingleOutcome
  <2>7. ASSUME NEW x \in Requests, Fresh(x)' \/ Queued(x)' \/ (\E p \in Readers : ReaderOwns(p, x)')
        PROVE  outcome'[x] = "none"
    <3>1. CASE x = r
      BY <2>1, <2>6, <3>1, Zenon
    <3>2. CASE x # r
      BY <1>3, <2>4, <2>6, <2>7, <3>2, Zenon DEF Ownership
    <3> QED BY <3>1, <3>2, Zenon
  <2>8. ASSUME NEW x \in Requests PROVE Queued(x)' => ~Fresh(x)'
    BY <1>3, <2>4, Zenon DEF Ownership
  <2>9. ASSUME NEW x \in Requests, NEW p \in Readers, ReaderOwns(p, x)'
        PROVE  ~Fresh(x)' /\ ~Queued(x)' /\ \A o \in Readers : ReaderOwns(o, x)' => p = o
    <3>1. x # r /\ ReaderOwns(p, x)
      BY <1>3, <2>1, <2>9, Zenon
    <3> QED BY <1>3, <2>4, <2>9, <3>1, Zenon DEF Ownership
  <2> QED BY <2>5, <2>6, <2>7, <2>8, <2>9, Zenon DEF Ownership
<1> QED BY <1>1, <1>4, <1>5, Zenon

\* The read goroutine pops the request and has it in hand until it has called the handler.
LEMMA ReadOwnership ==
    ASSUME TypeOK, Hands, Ownership, NEW p \in Readers, Reads(p)
    PROVE  Ownership'
PROOF
<1>0. /\ rd \in [Readers -> [pc : {"idle", "pop", "delete", "signal"}, id : Requests \cup {None}, q : QueueRef]]
      /\ outcome \in [Requests -> Outcomes] /\ Heap
  BY Zenon DEF TypeOK, Heap
<1>1. ASSUME NEW c \in Clients, ReadReply(p, c) PROVE Ownership'
  <2>1. HandsKept /\ UNCHANGED <<queues, outcome>>
    BY <1>0, <1>1, Zenon DEF ReadReply, HandsKept, Fresh, ReaderOwns
  <2> QED BY <2>1, QuietOwnership, Zenon
<1>2. CASE ReadPop(p)
  <2>1. UNCHANGED <<snd, outcome>> /\ rd[p].q \in DOMAIN queues /\ rd[p].pc = "pop"
    BY <1>2, PopEffect, Zenon DEF ReadPop
  <2>2. CASE queues' = queues /\ rd' = [rd EXCEPT ![p] = [pc |-> "idle", id |-> None, q |-> 0]]
    <3>1. HandsKept
      BY <1>0, <2>1, <2>2, Zenon DEF HandsKept, Fresh, ReaderOwns
    <3> QED BY <2>1, <2>2, <3>1, QuietOwnership, Zenon
  <2>3. CASE /\ queues' = [queues EXCEPT ![rd[p].q] = Tail(@)]
             /\ queues[rd[p].q] # << >> /\ Head(queues[rd[p].q]) = rd[p].id
             /\ rd' = [rd EXCEPT ![p] = [pc |-> "delete", id |-> rd[p].id, q |-> 0]]
    <3>0. PICK r \in Requests : r = rd[p].id
      BY <1>2, PopEffect, Zenon
    <3>1. /\ \A t \in DOMAIN queues' : IsInjective(queues'[t])
          /\ \A s, t \in DOMAIN queues' :
                 \A x \in Requests : x \in Range(queues'[s]) /\ x \in Range(queues'[t]) => s = t
          /\ r \in Requests /\ Queued(r) /\ ~Queued(r)' /\ \A x \in Requests : Queued(x)' => Queued(x)
      BY <1>0, <2>1, <2>3, <3>0, PoppedOwnership, Zenon
    <3>2. /\ \A x \in Requests : Fresh(x)' = Fresh(x)
          /\ \A x \in Requests, o \in Readers : ReaderOwns(o, x)' = (ReaderOwns(o, x) \/ (o = p /\ x = r))
      BY <1>0, <2>1, <2>3, <3>0, Zenon DEF Fresh, ReaderOwns
    <3>3. outcome[r] = "none" /\ ~Fresh(r) /\ \A o \in Readers : ~ReaderOwns(o, r)
      BY <3>1, Zenon DEF Ownership
    <3>4. \A x \in Requests : ~ReaderOwns(p, x)
      BY <2>1, Zenon DEF ReaderOwns
    <3> QED BY <2>1, <3>1, <3>2, <3>3, <3>4, Zenon DEF Ownership, SingleOutcome
  <2> QED BY <1>2, <2>2, <2>3, PopEffect, Zenon
<1>3. CASE ReadDelete(p)
  <2>1. HandsKept /\ UNCHANGED <<queues, outcome>>
    BY <1>0, <1>3, Zenon DEF ReadDelete, HandsKept, Fresh, ReaderOwns
  <2> QED BY <2>1, QuietOwnership, Zenon
<1>4. CASE ReadSignal(p)
  <2> DEFINE r == rd[p].id
  <2>1. r \in Requests /\ ReaderOwns(p, r)
    BY <1>0, <1>4, Zenon DEF ReadSignal, Hands, ReaderOwns
  <2> HIDE DEF r
  <2>2. outcome[r] = "none" /\ ~Fresh(r) /\ ~Queued(r) /\ \A o \in Readers : ReaderOwns(o, r) => o = p
    BY <2>1, Zenon DEF Ownership
  <2>3. outcome' = [outcome EXCEPT ![r] = IF @ = "none" THEN "response" ELSE "twice"] /\ UNCHANGED <<queues, snd>>
    BY <1>4, Zenon DEF ReadSignal, Notify, r
  <2>4. outcome'[r] = "response" /\ \A x \in Requests \ {r} : outcome'[x] = outcome[x]
    BY <1>0, <2>1, <2>2, <2>3, Zenon
  <2>5. \A x \in Requests : Fresh(x)' = Fresh(x) /\ Queued(x)' = Queued(x)
    BY <2>3, Zenon DEF Fresh, Queued
  <2>6. \A x \in Requests, o \in Readers : ReaderOwns(o, x)' => ReaderOwns(o, x) /\ o # p
    BY <1>0, <1>4, Zenon DEF ReadSignal, ReaderOwns
  <2> QED BY <2>1, <2>2, <2>3, <2>4, <2>5, <2>6 DEF Ownership, SingleOutcome
<1> QED BY <1>1, <1>2, <1>3, <1>4, Zenon DEF Reads, ReadStep

\* The stop arm takes the requests of the detached queues and reports each of them.
LEMMA DrainOwnership ==
    ASSUME TypeOK, Hands, Ownership, PumpDrain
    PROVE  Ownership'
PROOF
<1>1. /\ queues' = [q \in DOMAIN queues |-> IF q \in detached THEN << >> ELSE queues[q]]
      /\ UNCHANGED <<snd, rd>> /\ Heap
      /\ outcome' = [r \in Requests |-> IF r \notin Outstanding THEN outcome[r]
                                        ELSE IF outcome[r] = "none" THEN "stopped" ELSE "twice"]
  BY Zenon DEF PumpDrain, TypeOK, Heap
<1>2. /\ DOMAIN queues' = DOMAIN queues /\ \A t \in DOMAIN queues \ detached : queues'[t] = queues[t]
      /\ \A t \in DOMAIN queues \cap detached : queues'[t] = << >>
  BY <1>1, DrainedHeap, Zenon DEF SameQueue
<1>3. Range(<< >>) = {} /\ IsInjective(<< >>)
  BY DEF Range, IsInjective
<1>4. \A r \in Requests : r \in Outstanding => \E q \in DOMAIN queues \cap detached : r \in Range(queues[q])
  <2>1. detached \subseteq DOMAIN queues
    BY <1>1 DEF Hands, TypeOK, QueueRef, Heap
  <2> QED BY <2>1, Zenon DEF Outstanding
<1>5. \A t \in DOMAIN queues : Range(queues'[t]) = IF t \in detached THEN {} ELSE Range(queues[t])
  BY <1>2, <1>3, Zenon
<1>6. \A r \in Requests : r \in Outstanding => Queued(r) /\ ~Queued(r)'
  BY <1>2, <1>4, <1>5, Zenon DEF Queued, Ownership
<1>7. \A r \in Requests : Queued(r)' => Queued(r)
  BY <1>2, <1>5, Zenon DEF Queued
<1>8. \A r \in Requests : Fresh(r)' = Fresh(r) /\ \A p \in Readers : ReaderOwns(p, r)' = ReaderOwns(p, r)
  BY <1>1, Zenon DEF Fresh, ReaderOwns
<1>9. /\ \A t \in DOMAIN queues' : IsInjective(queues'[t])
      /\ \A s, t \in DOMAIN queues' : \A x \in Requests : x \in Range(queues'[s]) /\ x \in Range(queues'[t]) => s = t
  BY <1>2, <1>3, <1>5, Zenon DEF Ownership
<1>10. \A r \in Requests : /\ r \notin Outstanding => outcome'[r] = outcome[r]
                           /\ r \in Outstanding => /\ outcome'[r] = "stopped" /\ ~Fresh(r)
                                                   /\ \A p \in Readers : ~ReaderOwns(p, r)
  BY <1>1, <1>6, Zenon DEF Ownership
<1> QED BY <1>6, <1>7, <1>8, <1>9, <1>10, Zenon DEF Ownership, SingleOutcome

\* onClientConnected adds an empty queue.
LEMMA GrownOwnership ==
    ASSUME TypeOK, Ownership, queues' = Append(queues, << >>), UNCHANGED <<snd, rd, outcome>>
    PROVE  Ownership'
PROOF
<1>1. Heap
  BY Zenon DEF TypeOK, Heap
<1>2. /\ DOMAIN queues' = DOMAIN queues \cup {Len(queues) + 1} /\ \A t \in DOMAIN queues : queues'[t] = queues[t]
      /\ queues'[Len(queues) + 1] = << >>
  BY <1>1, GrownHeap, Zenon DEF SameQueue
<1>3. Range(<< >>) = {} /\ IsInjective(<< >>)
  BY DEF Range, IsInjective
<1>4. \A r \in Requests : Fresh(r)' = Fresh(r) /\ \A p \in Readers : ReaderOwns(p, r)' = ReaderOwns(p, r)
  BY Zenon DEF Fresh, ReaderOwns
<1>5. \A r \in Requests : Queued(r)' => Queued(r)
  BY <1>2, <1>3, Zenon DEF Queued
<1>6. /\ \A t \in DOMAIN queues' : IsInjective(queues'[t])
      /\ \A s, t \in DOMAIN queues' : \A x \in Requests : x \in Range(queues'[s]) /\ x \in Range(queues'[t]) => s = t
  BY <1>2, <1>3, Zenon DEF Ownership
<1> QED BY <1>4, <1>5, <1>6, Zenon DEF Ownership, SingleOutcome

\* However a response, a timeout, a context, a failed write and Stop race, a request keeps one owner.
LEMMA OwnershipStep ==
    ASSUME TypeOK, Hands, Ownership, [Next]_vars
    PROVE  Ownership'
PROOF
<1>0. snd \in [Requests -> {"idle", "get", "push", "rlock", "send", "accepted", "failed"}]
  BY Zenon DEF TypeOK
<1>k. UNCHANGED <<snd, rd>> => HandsKept
  BY Zenon DEF HandsKept, Fresh, ReaderOwns
<1>c. ASSUME UNCHANGED <<snd, rd>>, NoCompletion \/ \E c \in Clients, r \in Requests : Completes(c, r)
      PROVE  Ownership'
  BY <1>k, <1>c, CompleteOwnership, QuietOwnership, Zenon DEF NoCompletion
<1>1. ASSUME NEW r \in Requests, Sends(r) PROVE Ownership'
  <2>1. CASE SendPush(r)
    BY <2>1, PushOwnership, Zenon
  <2>2. CASE ~SendPush(r)
    <3>1. HandsKept /\ UNCHANGED <<queues, outcome>>
      BY <1>0, <2>2, <1>1, Zenon DEF Sends, SendIsRunning, SendStep, SendGet, SendRLock, SendPost, HandsKept,
             Fresh, ReaderOwns
    <3> QED BY <3>1, QuietOwnership, Zenon
  <2> QED BY <2>1, <2>2, Zenon
<1>2. ASSUME NEW r \in Requests, Watches(r) PROVE Ownership'
  BY <1>k, <1>2, QuietOwnership, WatchFrame, Zenon
<1>3. ASSUME NEW p \in Readers, Reads(p) PROVE Ownership'
  BY <1>3, ReadOwnership, Zenon
<1>4. CASE TakeToken
  BY <1>c, <1>4, TokenEffect, Zenon DEF PumpFrame
<1>5. CASE PumpGuard \/ PumpLoop
  BY <1>k, <1>c, <1>5, DispatchEffect, QuietOwnership, Zenon DEF PumpFrame
<1>6. CASE PumpWrite
  <2>1. NoCompletion \/ (cur \in Requests /\ clientID \in Clients /\ Owned(clientID, cur)
                         /\ Complete(clientID, cur, "write"))
    BY <1>k, <1>6, QuietOwnership, Zenon DEF PumpWrite, NoCompletion, TypeOK, Hands
  <2>2. UNCHANGED <<snd, rd>>
    BY <1>k, <1>6, QuietOwnership, Zenon DEF PumpWrite
  <2> QED BY <1>c, <2>1, <2>2, Zenon DEF Completes
<1>7. CASE PumpArm
  BY <1>k, <1>7, QuietOwnership, Zenon DEF PumpArm
<1>8. CASE PumpStopped
  BY <1>k, <1>8, QuietOwnership, Zenon DEF PumpStopped
<1>9. CASE PumpClearAll
  BY <1>k, <1>9, QuietOwnership, Zenon DEF PumpClearAll
<1>10. CASE PumpDrain
  BY <1>10, DrainOwnership, Zenon
<1>11. ASSUME NEW c \in Clients, Links(c) PROVE Ownership'
  <2>1. UNCHANGED <<snd, rd, outcome>> /\ (queues' = queues \/ queues' = Append(queues, << >>))
    BY <1>k, <1>11, QuietOwnership, Zenon DEF Links, Register, OnClientConnected, CreateClient, GetOrCreate,
           Unregister, DeleteClient,
              DeleteRemove, DeleteRLock, DeletePost, DeleteTimeout, ClearClientPendingRequest
  <2> QED BY <1>k, <2>1, QuietOwnership, GrownOwnership, Zenon
<1>12. CASE Controls
  BY <1>k, <1>12, QuietOwnership, ControlFrame, Zenon
<1>13. CASE UNCHANGED vars
  BY <1>k, <1>13, QuietOwnership, Zenon DEF vars
<1> QED BY <1>1, <1>2, <1>3, <1>4, <1>5, <1>6, <1>7, <1>8, <1>9, <1>10, <1>11, <1>12, <1>13, Zenon
     DEF Next, Step, Finished, Pump, TakeToken, Sends, Watches, Reads, Links, Controls

-----------------------------------------------------------------------------
(* The inductive invariant *)

\* Nothing is queued and nobody has anything in hand before the first Start.
LEMMA InitIndInv == Init => IndInv
PROOF
<1> SUFFICES ASSUME Init PROVE IndInv
  BY Zenon
<1>0. queues = << >> /\ DOMAIN queues = {} /\ Len(queues) = 0 /\ 0 \in QueueRef /\ queues \in Seq(Seq(Requests))
  BY DEF Init, QueueRef
<1>1. TypeOK
  <2>1. /\ queueMap \in [Clients -> QueueRef] /\ removed \subseteq QueueRef /\ detached \subseteq QueueRef
        /\ clientQueue \in QueueRef /\ ref \in [Requests -> QueueRef]
        /\ rd \in [Readers -> [pc : {"idle", "pop", "delete", "signal"}, id : Requests \cup {None}, q : QueueRef]]
    BY <1>0, Zenon DEF Init
  <2>2. /\ requestChannel \in Seq(Token) /\ Len(requestChannel) <= ChannelCap
        /\ readyForDispatch \in Seq(Requests) /\ Len(readyForDispatch) <= 1
        /\ timerC \in Seq(Requests) /\ Len(timerC) <= TokenCap
        /\ cancelC \in Seq(Requests) /\ Len(cancelC) <= TokenCap
    BY DEF Init
  <2>3. /\ pending \in [Clients -> Requests \cup {None}] /\ ctx \in [Clients -> Requests \cup {None, "inactive"}]
        /\ dispatched \in [Clients -> Requests \cup {None}] /\ outcome \in [Requests -> Outcomes]
        /\ sent \in [Requests -> Nat]
    BY Zenon DEF Init, Outcomes
  <2>4. /\ snd \in [Requests -> {"idle", "get", "push", "rlock", "send", "accepted", "failed"}]
        /\ watch \in [Requests -> {"none", "watch", "expired", "reaped", "done"}]
        /\ conn \in [Clients -> 0 .. MaxConns] /\ conns \in [Clients -> 0 .. MaxConns]
        /\ disc \in [Clients -> {"idle", "remove", "rlock", "send", "ack", "clear"}]
        /\ stop \in [Stoppers -> {"idle", "lock", "wait"}] /\ link \in [Clients -> BOOLEAN]
    BY DEF Init
  <2>5. /\ pc = "off" /\ running = FALSE /\ stopped = FALSE /\ rdy = FALSE /\ ctxDone = {} /\ clientID = None
        /\ cur = None /\ starter = "idle" /\ starts \in 0 .. MaxStarts
    BY DEF Init
  <2> QED BY <1>0, <2>1, <2>2, <2>3, <2>4, <2>5, Zenon DEF TypeOK
<1>2. Session
  BY Zenon DEF Init, Session
<1>3. Hands
  BY DEF Init, Hands
<1>4. Ownership
  <2>1. \A r \in Requests : Fresh(r) /\ ~Queued(r) /\ outcome[r] = "none" /\ \A p \in Readers : ~ReaderOwns(p, r)
    BY <1>0, Zenon DEF Init, Fresh, Queued, ReaderOwns
  <2> QED BY <1>0, <2>1, Zenon DEF Ownership, SingleOutcome
<1> QED BY <1>1, <1>2, <1>3, <1>4, Zenon DEF IndInv

\* IndInv is inductive.
LEMMA StepIndInv == IndInv /\ [Next]_vars => IndInv'
PROOF BY TypeStep, SessionStep, HandsStep, OwnershipStep, Zenon DEF IndInv

\* In every reachable state: types, sessions, what the goroutines have in hand, and one owner for every request.
THEOREM IndInvHolds == Spec => []IndInv
PROOF BY InitIndInv, StepIndInv, PTL DEF Spec

\* Type correctness of the server dispatcher, with the capacities of its channels (dispatcher.go 681-695).
THEOREM TypeCorrect == Spec => []TypeOK
PROOF
<1>1. IndInv => TypeOK
  BY Zenon DEF IndInv
<1> QED BY <1>1, IndInvHolds, PTL

\* completeRequestOwned and the stop drain: the application is told about a request at most once, for any number
\* of clients, requests, read goroutines and sessions.
THEOREM SingleOutcomeHolds == Spec => []SingleOutcome
PROOF
<1>1. IndInv => SingleOutcome
  BY Zenon DEF IndInv, Ownership
<1> QED BY <1>1, IndInvHolds, PTL

\* CreateClient under the read lock: no client queue survives the pump of a session.
THEOREM NoQueueSurvivesStopHolds == Spec => []NoQueueSurvivesStop
PROOF
<1>1. IndInv => NoQueueSurvivesStop
  BY Zenon DEF IndInv, Session, NoQueueSurvivesStop
<1> QED BY <1>1, IndInvHolds, PTL

-----------------------------------------------------------------------------
(* What SendRequest accepts is reported, in a dispatcher that is started once *)

\* IsRunning keeps senders out before Start, and Start waits for Stop to drain what it detached.
LEMMA OneSessionStep ==
    ASSUME TypeOK, Session, Hands, OneSession, MaxStarts <= 1, [Next]_vars
    PROVE  OneSession'
PROOF
<1> USE DEF OneSession
<1>0. /\ snd \in [Requests -> {"idle", "get", "push", "rlock", "send", "accepted", "failed"}]
      /\ starts \in Nat /\ running \in BOOLEAN
  BY DEF TypeOK
<1>1. ASSUME NEW r \in Requests, Sends(r) PROVE OneSession'
  <2>1. CASE SendIsRunning(r)
    BY <1>0, <2>1 DEF SendIsRunning, CanRLock, Session
  <2>2. CASE SendGet(r)
    BY <1>0, <2>2, Zenon DEF SendGet
  <2>3. CASE SendPush(r)
    BY <1>0, <2>3, Zenon DEF SendPush
  <2>4. CASE SendRLock(r)
    BY <1>0, <2>4, Zenon DEF SendRLock
  <2>5. CASE SendPost(r)
    BY <1>0, <2>5, Zenon DEF SendPost, Post, HasRoom
  <2> QED BY <1>1, <2>1, <2>2, <2>3, <2>4, <2>5, Zenon DEF Sends, SendStep
<1>2. ASSUME NEW r \in Requests, Watches(r) PROVE OneSession'
  BY <1>0, <1>2, WatchFrame, Zenon
<1>3. ASSUME NEW p \in Readers, Reads(p) PROVE OneSession'
  BY <1>0, <1>3, ReadFrame, Zenon
<1>4. CASE TakeToken
  BY <1>0, <1>4, TokenEffect, Zenon DEF PumpFrame
<1>5. CASE PumpGuard \/ PumpLoop
  BY <1>0, <1>5, DispatchEffect, Zenon DEF PumpFrame
<1>6. CASE PumpWrite
  BY <1>0, <1>6, Zenon DEF PumpWrite
<1>7. CASE PumpArm
  BY <1>0, <1>7, Zenon DEF PumpArm
<1>8. CASE PumpStopped
  BY <1>0, <1>8, Zenon DEF PumpStopped
<1>9. CASE PumpClearAll
  BY <1>0, <1>9, Zenon DEF PumpClearAll
<1>10. CASE PumpDrain
  BY <1>0, <1>10, Zenon DEF PumpDrain, CloseDone
<1>11. ASSUME NEW c \in Clients, Links(c) PROVE OneSession'
  <2>1. UNCHANGED <<running, pc, starter, starts, snd, detached>>
    BY <1>0, <1>11, LinkFrame, Zenon
  <2> QED BY <2>1, Zenon
<1>12. CASE Controls
  <2>1. CASE CallStart
    BY <1>0, <2>1 DEF CallStart
  <2>2. CASE Start
    BY <1>0, <2>2, Zenon DEF Start, Session
  <2>3. ASSUME NEW s \in Stoppers, CallStop(s) PROVE OneSession'
    BY <1>0, <2>3, Zenon DEF CallStop
  <2>4. ASSUME NEW s \in Stoppers, StopClose(s) PROVE OneSession'
    BY <1>0, <2>4, Zenon DEF StopClose
  <2>5. ASSUME NEW s \in Stoppers, StopJoin(s) PROVE OneSession'
    BY <1>0, <2>5, Zenon DEF StopJoin
  <2> QED BY <1>12, <2>1, <2>2, <2>3, <2>4, <2>5, Zenon DEF Controls, Stop
<1>13. CASE UNCHANGED vars
  BY <1>0, <1>13, Zenon DEF vars
<1> QED BY <1>1, <1>2, <1>3, <1>4, <1>5, <1>6, <1>7, <1>8, <1>9, <1>10, <1>11, <1>12, <1>13, Zenon
     DEF Next, Step, Finished, Pump, TakeToken, Sends, Watches, Reads, Links, Controls

\* The requests of the queue q are about to be reported, or went with their client.
Kept(q) == q \in InMap \cup detached \cup removed

\* An outcome is never taken back.
LEMMA OutcomeStep ==
    ASSUME TypeOK, Hands, [Next]_vars, NEW r \in Requests, outcome'[r] = "none"
    PROVE  outcome[r] = "none"
PROOF
<1>0. outcome \in [Requests -> Outcomes] /\ \A p \in Readers : rd[p].pc # "idle" => rd[p].id \in Requests
  BY ReaderIds, Zenon DEF TypeOK
<1>c. (NoCompletion \/ \E c \in Clients, x \in Requests : Completes(c, x)) => outcome[r] = "none"
  <2>1. ASSUME NEW c \in Clients, NEW x \in Requests, Completes(c, x) PROVE outcome[r] = "none"
    <3>1. PICK k \in {"timeout", "ctx", "write"} :
            outcome' = [outcome EXCEPT ![x] = IF @ = "none" THEN k ELSE "twice"]
      BY <2>1, Zenon DEF Completes, Complete, Notify
    <3> QED BY <1>0, <3>1, Zenon
  <2> QED BY <2>1, Zenon DEF NoCompletion
<1>1. ASSUME NEW x \in Requests, Sends(x) PROVE outcome[r] = "none"
  BY <1>1, SendFrame, Zenon
<1>2. ASSUME NEW x \in Requests, Watches(x) PROVE outcome[r] = "none"
  BY <1>2, WatchFrame, Zenon
<1>3. ASSUME NEW p \in Readers, Reads(p) PROVE outcome[r] = "none"
  <2>1. CASE ReadSignal(p)
    BY <1>0, <2>1, Zenon DEF ReadSignal, Notify
  <2>2. CASE ~ReadSignal(p)
    BY <2>2, <1>3, Zenon DEF Reads, ReadReply, ReadStep, ReadPop, ReadDelete
  <2> QED BY <2>1, <2>2, Zenon
<1>4. CASE TakeToken
  BY <1>c, <1>4, TokenEffect, Zenon
<1>5. CASE PumpGuard \/ PumpLoop
  BY <1>c, <1>5, DispatchEffect, Zenon
<1>6. CASE PumpWrite
  <2>1. NoCompletion \/ (cur \in Requests /\ clientID \in Clients /\ Owned(clientID, cur)
                         /\ Complete(clientID, cur, "write"))
    BY <1>6, Zenon DEF PumpWrite, NoCompletion, TypeOK, Hands
  <2> QED BY <1>c, <2>1, Zenon DEF Completes
<1>7. CASE PumpArm
  BY <1>7, Zenon DEF PumpArm
<1>8. CASE PumpStopped
  BY <1>8, Zenon DEF PumpStopped
<1>9. CASE PumpClearAll
  BY <1>9, Zenon DEF PumpClearAll
<1>10. CASE PumpDrain
  BY <1>10, Zenon DEF PumpDrain, CloseDone
<1>11. ASSUME NEW c \in Clients, Links(c) PROVE outcome[r] = "none"
  BY <1>11, LinkFrame, Zenon
<1>12. CASE Controls
  BY <1>12, ControlFrame, Zenon
<1>13. CASE UNCHANGED vars
  BY <1>13, Zenon DEF vars
<1> QED BY <1>1, <1>2, <1>3, <1>4, <1>5, <1>6, <1>7, <1>8, <1>9, <1>10, <1>11, <1>12, <1>13, Zenon
     DEF Next, Step, Finished, Pump, TakeToken, Sends, Watches, Reads, Links, Controls

\* A request that leaves a queue is reported, or is in the hand of a read goroutine.
LEMMA QueueStep ==
    ASSUME TypeOK, Hands, [Next]_vars, NEW q \in DOMAIN queues, NEW r \in Requests, r \in Range(queues[q]),
           outcome'[r] = "none", outcome[r] = "none"
    PROVE  (q \in DOMAIN queues' /\ r \in Range(queues'[q])) \/ \E p \in Readers : ReaderOwns(p, r)'
PROOF
<1>0. /\ Heap /\ outcome \in [Requests -> Outcomes]
      /\ rd \in [Readers -> [pc : {"idle", "pop", "delete", "signal"}, id : Requests \cup {None}, q : QueueRef]]
  BY Zenon DEF TypeOK, Heap
<1> DEFINE Found == (q \in DOMAIN queues' /\ r \in Range(queues'[q])) \/ \E p \in Readers : ReaderOwns(p, r)'
<1>u. queues' = queues => Found
  BY Zenon
<1>c. (NoCompletion \/ \E c \in Clients, x \in Requests : Completes(c, x)) => Found
  <2>1. ASSUME NEW c \in Clients, NEW x \in Requests, Completes(c, x) PROVE Found
    <3>1. /\ queueMap[c] \in DOMAIN queues /\ queues[queueMap[c]] # << >> /\ x = Head(queues[queueMap[c]])
          /\ queues' = [queues EXCEPT ![queueMap[c]] = Tail(@)]
          /\ outcome[x] = "none" => outcome'[x] \in {"timeout", "ctx", "write"}
      BY <2>1, CompleteFacts, Zenon
    <3>2. x # r
      BY <3>1, Zenon
    <3>3. /\ DOMAIN queues' = DOMAIN queues /\ \A t \in DOMAIN queues \ {queueMap[c]} : queues'[t] = queues[t]
          /\ Range(queues[queueMap[c]]) = Range(queues'[queueMap[c]]) \cup {x}
      BY <1>0, <3>1, PoppedHeap, Zenon DEF SameQueue
    <3> QED BY <3>2, <3>3, Zenon
  <2> QED BY <1>u, <2>1, Zenon DEF NoCompletion
<1>1. ASSUME NEW x \in Requests, Sends(x) PROVE Found
  <2>1. CASE SendPush(x)
    <3>1. ref[x] \in DOMAIN queues /\ (queues' = queues \/ queues' = [queues EXCEPT ![ref[x]] = Push(@, x)])
      BY <2>1, PushEffect, Zenon
    <3>2. CASE queues' = [queues EXCEPT ![ref[x]] = Push(@, x)]
      <4>1. /\ DOMAIN queues' = DOMAIN queues /\ \A t \in DOMAIN queues \ {ref[x]} : queues'[t] = queues[t]
            /\ Range(queues'[ref[x]]) = Range(queues[ref[x]]) \cup {x}
        BY <1>0, <3>1, <3>2, PushedHeap, Zenon DEF SameQueue
      <4> QED BY <4>1, Zenon
    <3> QED BY <1>u, <3>1, <3>2, Zenon
  <2>2. CASE ~SendPush(x)
    BY <1>u, <2>2, <1>1, Zenon DEF Sends, SendIsRunning, SendStep, SendGet, SendRLock, SendPost
  <2> QED BY <2>1, <2>2, Zenon
<1>2. ASSUME NEW x \in Requests, Watches(x) PROVE Found
  BY <1>u, <1>2, WatchFrame, Zenon
<1>3. ASSUME NEW p \in Readers, Reads(p) PROVE Found
  <2>1. CASE ReadPop(p)
    <3>1. CASE /\ queues' = [queues EXCEPT ![rd[p].q] = Tail(@)]
               /\ queues[rd[p].q] # << >> /\ Head(queues[rd[p].q]) = rd[p].id
               /\ rd' = [rd EXCEPT ![p] = [pc |-> "delete", id |-> rd[p].id, q |-> 0]]
      <4>1. PICK t \in DOMAIN queues : t = rd[p].q
        BY <2>1, PopEffect, Zenon
      <4>2. /\ DOMAIN queues' = DOMAIN queues /\ \A s \in DOMAIN queues \ {t} : queues'[s] = queues[s]
            /\ Range(queues[t]) = Range(queues'[t]) \cup {rd[p].id}
        BY <1>0, <3>1, <4>1, PoppedHeap, Zenon DEF SameQueue
      <4>3. r = rd[p].id => ReaderOwns(p, r)'
        BY <1>0, <3>1, Zenon DEF ReaderOwns
      <4> QED BY <4>2, <4>3, Zenon
    <3> QED BY <1>u, <2>1, <3>1, PopEffect, Zenon
  <2>2. CASE ~ReadPop(p)
    BY <1>u, <2>2, <1>3, Zenon DEF Reads, ReadReply, ReadStep, ReadDelete, ReadSignal
  <2> QED BY <2>1, <2>2, Zenon
<1>4. CASE TakeToken
  BY <1>c, <1>4, TokenEffect, Zenon
<1>5. CASE PumpGuard \/ PumpLoop
  BY <1>u, <1>c, <1>5, DispatchEffect, Zenon
<1>6. CASE PumpWrite
  <2>1. NoCompletion \/ (cur \in Requests /\ clientID \in Clients /\ Owned(clientID, cur)
                         /\ Complete(clientID, cur, "write"))
    BY <1>u, <1>6, Zenon DEF PumpWrite, NoCompletion, TypeOK, Hands
  <2> QED BY <1>c, <2>1, Zenon DEF Completes
<1>7. CASE PumpArm
  BY <1>u, <1>7, Zenon DEF PumpArm
<1>8. CASE PumpStopped
  BY <1>u, <1>8, Zenon DEF PumpStopped
<1>9. CASE PumpClearAll
  BY <1>u, <1>9, Zenon DEF PumpClearAll
<1>10. CASE PumpDrain
  <2>1. /\ queues' = [t \in DOMAIN queues |-> IF t \in detached THEN << >> ELSE queues[t]]
        /\ r \in Outstanding => outcome'[r] # "none"
    BY <1>u, <1>10, Zenon DEF PumpDrain
  <2>2. q \notin detached
    BY <2>1, Zenon DEF Outstanding
  <2> QED BY <1>0, <2>1, <2>2, DrainedHeap, Zenon DEF SameQueue
<1>11. ASSUME NEW c \in Clients, Links(c) PROVE Found
  <2>1. queues' = queues \/ queues' = Append(queues, << >>)
    BY <1>u, <1>11, Zenon DEF Links, Register, OnClientConnected, CreateClient, GetOrCreate, Unregister, DeleteClient,
              DeleteRemove, DeleteRLock, DeletePost, DeleteTimeout, ClearClientPendingRequest
  <2> QED BY <1>0, <1>u, <2>1, GrownHeap, Zenon DEF SameQueue
<1>12. CASE Controls
  BY <1>u, <1>12, ControlFrame, Zenon
<1>13. CASE UNCHANGED vars
  BY <1>u, <1>13, Zenon DEF vars
<1> QED BY <1>1, <1>2, <1>3, <1>4, <1>5, <1>6, <1>7, <1>8, <1>9, <1>10, <1>11, <1>12, <1>13, Zenon
     DEF Next, Step, Finished, Pump, TakeToken, Sends, Watches, Reads, Links, Controls

\* A queue leaves the map for the drain of the pump, or with its client.
LEMMA KeptStep ==
    ASSUME TypeOK, Hands, OneSession, [Next]_vars, NEW q, q # 0, Kept(q), ~(PumpDrain /\ q \in detached)
    PROVE  Kept(q)'
PROOF
<1>0. queueMap \in [Clients -> QueueRef]
  BY Zenon DEF TypeOK
<1>u. UNCHANGED <<queueMap, removed, detached>> => Kept(q)'
  BY Zenon DEF Kept, InMap
<1>1. ASSUME NEW r \in Requests, Sends(r) PROVE Kept(q)'
  BY <1>u, <1>1, SendFrame, Zenon
<1>2. ASSUME NEW r \in Requests, Watches(r) PROVE Kept(q)'
  BY <1>u, <1>2, WatchFrame, Zenon
<1>3. ASSUME NEW p \in Readers, Reads(p) PROVE Kept(q)'
  BY <1>u, <1>3, ReadFrame, Zenon
<1>4. CASE TakeToken
  BY <1>u, <1>4, TokenEffect, Zenon DEF PumpFrame
<1>5. CASE PumpGuard \/ PumpLoop
  BY <1>u, <1>5, DispatchEffect, Zenon DEF PumpFrame
<1>6. CASE PumpWrite
  BY <1>u, <1>6, Zenon DEF PumpWrite
<1>7. CASE PumpArm
  BY <1>u, <1>7, Zenon DEF PumpArm
<1>8. CASE PumpStopped
  BY <1>8, Zenon DEF PumpStopped, OneSession, Kept
<1>9. CASE PumpClearAll
  BY <1>u, <1>9, Zenon DEF PumpClearAll
<1>10. CASE PumpDrain
  BY <1>0, <1>10, Zenon DEF PumpDrain, Kept, InMap
<1>11. ASSUME NEW c \in Clients, Links(c) PROVE Kept(q)'
  <2>1. CASE OnClientConnected(c)
    <3>1. /\ UNCHANGED <<removed, detached>>
          /\ queueMap' = queueMap \/ (queueMap[c] = 0 /\ \E n : queueMap' = [queueMap EXCEPT ![c] = n])
      BY <2>1, Zenon DEF OnClientConnected, CreateClient, GetOrCreate
    <3> QED BY <1>0, <3>1, Zenon DEF Kept, InMap
  <2>2. CASE DeleteRemove(c)
    <3>1. /\ queueMap' = [queueMap EXCEPT ![c] = 0] /\ removed' = removed \cup ({queueMap[c]} \ {0})
          /\ detached' = detached
      BY <2>2, Zenon DEF DeleteRemove
    <3> QED BY <1>0, <3>1 DEF Kept, InMap
  <2>3. CASE ~OnClientConnected(c) /\ ~DeleteRemove(c)
    BY <1>u, <2>3, <1>11, Zenon DEF Links, Register, Unregister, DeleteClient, DeleteRLock, DeletePost, DeleteTimeout,
              ClearClientPendingRequest
  <2> QED BY <2>1, <2>2, <2>3, Zenon
<1>12. CASE Controls
  BY <1>u, <1>12, Zenon DEF Controls, CallStart, Start, CallStop, Stop, StopClose, StopJoin
<1>13. CASE UNCHANGED vars
  BY <1>u, <1>13, Zenon DEF vars
<1> QED BY <1>1, <1>2, <1>3, <1>4, <1>5, <1>6, <1>7, <1>8, <1>9, <1>10, <1>11, <1>12, <1>13, Zenon
     DEF Next, Step, Finished, Pump, TakeToken, Sends, Watches, Reads, Links, Controls

\* A read goroutine that has won a request keeps it until it has called the handler.
LEMMA ReaderStep ==
    ASSUME TypeOK, Hands, [Next]_vars, NEW r \in Requests, NEW p \in Readers, ReaderOwns(p, r), outcome'[r] = "none"
    PROVE  ReaderOwns(p, r)'
PROOF
<1>0. /\ rd \in [Readers -> [pc : {"idle", "pop", "delete", "signal"}, id : Requests \cup {None}, q : QueueRef]]
      /\ outcome \in [Requests -> Outcomes]
  BY Zenon DEF TypeOK
<1>u. rd' = rd => ReaderOwns(p, r)'
  BY Zenon DEF ReaderOwns
<1>1. ASSUME NEW x \in Requests, Sends(x) PROVE ReaderOwns(p, r)'
  BY <1>u, <1>1, SendFrame, Zenon
<1>2. ASSUME NEW x \in Requests, Watches(x) PROVE ReaderOwns(p, r)'
  BY <1>u, <1>2, WatchFrame, Zenon
<1>3. ASSUME NEW o \in Readers, Reads(o) PROVE ReaderOwns(p, r)'
  <2>1. CASE o # p
    <3>1. rd'[p] = rd[p]
      BY <1>0, <2>1, <1>3, Zenon DEF Reads, ReadReply, ReadStep, ReadPop, ReadDelete, ReadSignal
    <3> QED BY <3>1, Zenon DEF ReaderOwns
  <2>2. CASE o = p /\ ReadDelete(p)
    BY <1>0, <2>2, Zenon DEF ReadDelete, ReaderOwns
  <2>3. CASE o = p /\ ReadSignal(p)
    BY <1>0, <2>3, Zenon DEF ReadSignal, Notify, ReaderOwns
  <2>4. CASE o = p /\ ~ReadDelete(p) /\ ~ReadSignal(p)
    BY <2>4, <1>3, Zenon DEF Reads, ReadReply, ReadStep, ReadPop, ReaderOwns
  <2> QED BY <2>1, <2>2, <2>3, <2>4, Zenon
<1>4. CASE TakeToken
  BY <1>u, <1>4, TokenEffect, Zenon DEF PumpFrame
<1>5. CASE PumpGuard \/ PumpLoop
  BY <1>u, <1>5, DispatchEffect, Zenon DEF PumpFrame
<1>6. CASE PumpWrite
  BY <1>u, <1>6, Zenon DEF PumpWrite
<1>7. CASE PumpArm
  BY <1>u, <1>7, Zenon DEF PumpArm
<1>8. CASE PumpStopped
  BY <1>u, <1>8, Zenon DEF PumpStopped
<1>9. CASE PumpClearAll
  BY <1>u, <1>9, Zenon DEF PumpClearAll
<1>10. CASE PumpDrain
  BY <1>u, <1>10, Zenon DEF PumpDrain, CloseDone
<1>11. ASSUME NEW c \in Clients, Links(c) PROVE ReaderOwns(p, r)'
  BY <1>u, <1>11, LinkFrame, Zenon
<1>12. CASE Controls
  BY <1>u, <1>12, ControlFrame, Zenon
<1>13. CASE UNCHANGED vars
  BY <1>u, <1>13, Zenon DEF vars
<1> QED BY <1>1, <1>2, <1>3, <1>4, <1>5, <1>6, <1>7, <1>8, <1>9, <1>10, <1>11, <1>12, <1>13, Zenon
     DEF Next, Step, Finished, Pump, TakeToken, Sends, Watches, Reads, Links, Controls

\* A request that somebody is going to report stays in hand until it is reported.
LEMMA InHandStep ==
    ASSUME TypeOK, Hands, OneSession, [Next]_vars, NEW r \in Requests, InHand(r), outcome'[r] = "none"
    PROVE  InHand(r)'
PROOF
<1>0. /\ outcome[r] = "none" /\ Heap
      /\ rd \in [Readers -> [pc : {"idle", "pop", "delete", "signal"}, id : Requests \cup {None}, q : QueueRef]]
      /\ outcome \in [Requests -> Outcomes]
  BY OutcomeStep, Zenon DEF TypeOK, Heap
<1>1. ASSUME NEW q \in DOMAIN queues, r \in Range(queues[q]), Kept(q) PROVE InHand(r)'
  <2>1. ~(PumpDrain /\ q \in detached)
    BY <1>1 DEF PumpDrain, Outstanding
  <2>2. q # 0
    BY <1>0, <1>1 DEF Heap
  <2>3. Kept(q)'
    BY <1>1, <2>1, <2>2, KeptStep, Zenon
  <2>4. (q \in DOMAIN queues' /\ r \in Range(queues'[q])) \/ \E p \in Readers : ReaderOwns(p, r)'
    BY <1>0, <1>1, QueueStep, Zenon
  <2> QED BY <2>3, <2>4, Zenon DEF InHand, Kept
<1>2. ASSUME NEW p \in Readers, ReaderOwns(p, r) PROVE InHand(r)'
  <2>1. ReaderOwns(p, r)'
    BY <1>0, <1>2, ReaderStep, Zenon
  <2> QED BY <2>1, Zenon DEF InHand
<1> QED BY <1>1, <1>2, Zenon DEF InHand, Kept

\* Start and Stop change d.running under the write lock, and a sender holds the read lock across its send.
RunKept == /\ running' /\ ~running => starter = "lock"
           /\ running /\ ~running' => \A r \in Requests : snd[r] # "send"

\* Every step respects the lock.
LEMMA RunStep ==
    ASSUME TypeOK, Hands, [Next]_vars
    PROVE  RunKept
PROOF
<1> USE DEF RunKept
<1>1. ASSUME NEW r \in Requests, Sends(r) PROVE RunKept
  BY <1>1, SendFrame, Zenon
<1>2. ASSUME NEW r \in Requests, Watches(r) PROVE RunKept
  BY <1>2, WatchFrame, Zenon
<1>3. ASSUME NEW p \in Readers, Reads(p) PROVE RunKept
  BY <1>3, ReadFrame, Zenon
<1>4. CASE TakeToken
  <2>1. running' = running
    BY <1>4, TokenEffect, Zenon DEF PumpFrame
  <2> QED BY <2>1
<1>5. CASE PumpGuard \/ PumpLoop
  <2>1. running' = running
    BY <1>5, DispatchEffect, Zenon DEF PumpFrame
  <2> QED BY <2>1
<1>6. CASE PumpWrite
  BY <1>6, Zenon DEF PumpWrite
<1>7. CASE PumpArm
  BY <1>7, Zenon DEF PumpArm
<1>8. CASE PumpStopped
  BY <1>8, Zenon DEF PumpStopped
<1>9. CASE PumpClearAll
  BY <1>9, Zenon DEF PumpClearAll
<1>10. CASE PumpDrain
  BY <1>10, Zenon DEF PumpDrain, CloseDone
<1>11. ASSUME NEW c \in Clients, Links(c) PROVE RunKept
  <2>1. running' = running
    BY <1>11, LinkFrame, Zenon
  <2> QED BY <2>1, Zenon
<1>12. CASE Controls
  <2>1. CASE CallStart
    BY <2>1, Zenon DEF CallStart
  <2>2. CASE Start
    BY <2>2, Zenon DEF Start
  <2>3. ASSUME NEW s \in Stoppers, CallStop(s) PROVE RunKept
    BY <2>3, Zenon DEF CallStop
  <2>4. ASSUME NEW s \in Stoppers, StopClose(s) PROVE RunKept
    BY <2>4, Zenon DEF StopClose, CanLock
  <2>5. ASSUME NEW s \in Stoppers, StopJoin(s) PROVE RunKept
    BY <2>5, Zenon DEF StopJoin
  <2> QED BY <1>12, <2>1, <2>2, <2>3, <2>4, <2>5, Zenon DEF Controls, Stop
<1>13. CASE UNCHANGED vars
  BY <1>13, Zenon DEF vars
<1> QED BY <1>1, <1>2, <1>3, <1>4, <1>5, <1>6, <1>7, <1>8, <1>9, <1>10, <1>11, <1>12, <1>13, Zenon
     DEF Next, Step, Finished, Pump, TakeToken, Sends, Watches, Reads, Links, Controls

\* Only its own goroutine moves a sender.
LEMMA SenderStep ==
    ASSUME TypeOK, Hands, [Next]_vars, NEW r \in Requests
    PROVE  Sends(r) \/ (snd'[r] = snd[r] /\ ref'[r] = ref[r])
PROOF
<1>0. /\ snd \in [Requests -> {"idle", "get", "push", "rlock", "send", "accepted", "failed"}]
      /\ ref \in [Requests -> QueueRef]
  BY Zenon DEF TypeOK
<1>1. ASSUME NEW x \in Requests, Sends(x) PROVE Sends(r) \/ (snd'[r] = snd[r] /\ ref'[r] = ref[r])
  <2>1. CASE x = r
    BY <2>1, <1>1, Zenon
  <2>2. CASE x # r
    BY <1>0, <2>2, <1>1, Zenon DEF Sends, SendIsRunning, SendStep, SendGet, SendPush, SendRLock, SendPost
  <2> QED BY <2>1, <2>2, Zenon
<1>2. ASSUME NEW x \in Requests, Watches(x) PROVE Sends(r) \/ (snd'[r] = snd[r] /\ ref'[r] = ref[r])
  BY <1>2, WatchFrame, Zenon
<1>3. ASSUME NEW p \in Readers, Reads(p) PROVE Sends(r) \/ (snd'[r] = snd[r] /\ ref'[r] = ref[r])
  BY <1>3, ReadFrame, Zenon
<1>4. CASE TakeToken
  BY <1>4, TokenEffect, Zenon DEF PumpFrame
<1>5. CASE PumpGuard \/ PumpLoop
  BY <1>5, DispatchEffect, Zenon DEF PumpFrame
<1>6. CASE PumpWrite
  BY <1>6, Zenon DEF PumpWrite
<1>7. CASE PumpArm
  BY <1>7, Zenon DEF PumpArm
<1>8. CASE PumpStopped
  BY <1>8, Zenon DEF PumpStopped
<1>9. CASE PumpClearAll
  BY <1>9, Zenon DEF PumpClearAll
<1>10. CASE PumpDrain
  BY <1>10, Zenon DEF PumpDrain, CloseDone
<1>11. ASSUME NEW c \in Clients, Links(c) PROVE Sends(r) \/ (snd'[r] = snd[r] /\ ref'[r] = ref[r])
  BY <1>11, LinkFrame, Zenon
<1>12. CASE Controls
  BY <1>12, ControlFrame, Zenon
<1>13. CASE UNCHANGED vars
  BY <1>13, Zenon DEF vars
<1> QED BY <1>1, <1>2, <1>3, <1>4, <1>5, <1>6, <1>7, <1>8, <1>9, <1>10, <1>11, <1>12, <1>13, Zenon
     DEF Next, Step, Finished, Pump, TakeToken, Sends, Watches, Reads, Links, Controls

\* What was accepted and not yet reported is in hand.
Promised ==
    \A r \in Requests : /\ snd[r] = "push" /\ running => ref[r] \in InMap \cup removed
                        /\ snd[r] = "send" => running
                        /\ snd[r] = "rlock" /\ running /\ outcome[r] = "none" => InHand(r)
                        /\ snd[r] \in {"send", "accepted"} /\ outcome[r] = "none" => InHand(r)

\* Once the pump has gone nothing is in the map or detached, so what is in hand went with its client or is with a
\* read goroutine.
LEMMA PromisedIsReported == IndInv /\ OneSession => (Reported <=> Promised)
PROOF
<1> SUFFICES ASSUME IndInv, OneSession PROVE Reported <=> Promised
  BY Zenon
<1>1. Heap /\ removed \subseteq 0..Len(queues) /\ 0 \notin removed
  BY Zenon DEF IndInv, TypeOK, Hands, QueueRef, Heap
<1>2. removed \subseteq DOMAIN queues
  BY <1>1 DEF Heap
<1>3. pc = "off" => detached = {} /\ InMap = {}
  BY Zenon DEF IndInv, Session, OneSession, InMap
<1>4. ASSUME NEW r \in Requests, pc = "off"
      PROVE  InHand(r) <=> \/ \E q \in removed : r \in Range(queues[q])
                           \/ \E p \in Readers : ReaderOwns(p, r)
  BY <1>2, <1>3, <1>4, Zenon DEF InHand
<1>5. AcceptedIsReported <=> \A r \in Requests : snd[r] = "accepted" /\ outcome[r] = "none" => InHand(r)
  BY <1>4, Zenon DEF AcceptedIsReported
<1> QED BY <1>5, Zenon DEF Reported, Promised

\* ... also after a step.
LEMMA PromisedIsReportedNext == IndInv' /\ OneSession' => (Reported' <=> Promised')
PROOF BY PromisedIsReported, PTL

\* A sender gives up, or leaves its request where it will be reported.
LEMMA PromisedStep ==
    ASSUME IndInv, OneSession, MaxStarts <= 1, Promised, [Next]_vars
    PROVE  Promised'
PROOF
<1>0. IndInv' /\ OneSession' /\ TypeOK /\ Session /\ Hands
  BY StepIndInv, OneSessionStep, Zenon DEF IndInv
<1>1. /\ queueMap \in [Clients -> QueueRef] /\ ref \in [Requests -> QueueRef] /\ running \in BOOLEAN
      /\ snd \in [Requests -> {"idle", "get", "push", "rlock", "send", "accepted", "failed"}]
  BY <1>0, Zenon DEF TypeOK
<1>2. ASSUME NEW r \in Requests
      PROVE  /\ snd'[r] = "push" /\ running' => ref'[r] \in InMap' \cup removed'
             /\ snd'[r] = "send" => running'
             /\ snd'[r] = "rlock" /\ running' /\ outcome'[r] = "none" => InHand(r)'
             /\ snd'[r] \in {"send", "accepted"} /\ outcome'[r] = "none" => InHand(r)'
  <2>0. InHand(r) /\ outcome'[r] = "none" => InHand(r)'
    BY <1>0, InHandStep, Zenon
  <2>1. CASE snd'[r] = snd[r] /\ ref'[r] = ref[r]
    <3>1. running' /\ snd[r] \in {"push", "rlock"} => running
      BY <1>0, RunStep, Zenon DEF RunKept, OneSession
    <3>2. snd'[r] = "send" => running'
      BY <1>0, <1>1, <2>1, RunStep, Zenon DEF RunKept, Promised
    <3>3. outcome'[r] = "none" => outcome[r] = "none"
      BY <1>0, OutcomeStep, Zenon
    <3>4. snd'[r] = "push" /\ running' => ref'[r] \in InMap' \cup removed'
      <4> SUFFICES ASSUME snd'[r] = "push", running' PROVE ref'[r] \in InMap' \cup removed'
        BY Zenon
      <4>1. running /\ ref[r] \in InMap \cup removed /\ ref[r] # 0
        BY <1>0, <2>1, <3>1, Zenon DEF Promised, Hands
      <4>2. ~PumpDrain
        BY <1>0, <4>1, Zenon DEF PumpDrain, Session
      <4>3. PICK q : q = ref[r]
        BY Zenon
      <4>4. Kept(q)'
        BY <1>0, <4>1, <4>2, <4>3, KeptStep, Zenon DEF Kept
      <4>5. detached' = {}
        BY <1>0, Zenon DEF IndInv, Session, OneSession
      <4> QED BY <2>1, <4>3, <4>4, <4>5, Zenon DEF Kept
    <3> QED BY <2>0, <2>1, <3>1, <3>2, <3>3, <3>4, Zenon DEF Promised
  <2>2. CASE SendIsRunning(r) \/ SendGet(r)
    <3>1. /\ snd'[r] \in {"get", "failed", "push"}
          /\ snd'[r] = "push" => ref'[r] = queueMap[ClientOf[r]] /\ ref'[r] # 0 /\ queueMap' = queueMap
      BY <1>1, <2>2, Zenon DEF SendIsRunning, SendGet
    <3> QED BY <3>1, Zenon DEF InMap
  <2>3. CASE SendPush(r)
    <3>1. /\ snd[r] = "push" /\ ref[r] \in DOMAIN queues
          /\ UNCHANGED <<running, queueMap, removed, detached>>
          /\ \/ snd'[r] = "failed"
             \/ queues' = [queues EXCEPT ![ref[r]] = Push(@, r)] /\ snd'[r] = "rlock"
      BY <1>0, <1>1, <2>3, PushEffect
    <3>2. CASE snd'[r] = "failed"
      BY <3>2, Zenon
    <3>3. CASE queues' = [queues EXCEPT ![ref[r]] = Push(@, r)] /\ snd'[r] = "rlock" /\ running'
      <4>1. PICK q \in DOMAIN queues : q = ref[r]
        BY <3>1, Zenon
      <4>2. q \in InMap \cup removed
        BY <3>1, <3>3, <4>1, Zenon DEF Promised
      <4>3. queues' = [queues EXCEPT ![q] = Push(@, r)] /\ Heap
        BY <1>0, <3>3, <4>1, Zenon DEF TypeOK, Heap
      <4>4. q \in DOMAIN queues' /\ r \in Range(queues'[q])
        <5>1. DOMAIN queues' = DOMAIN queues /\ Range(queues'[q]) = Range(queues[q]) \cup {r}
          BY <4>3, PushedHeap, Zenon
        <5> QED BY <5>1, Zenon
      <4>5. Kept(q)'
        BY <3>1, <4>2, Zenon DEF Kept, InMap
      <4> QED BY <3>3, <4>4, <4>5, Zenon DEF InHand, Kept
    <3> QED BY <3>1, <3>2, <3>3, Zenon
  <2>4. CASE SendRLock(r)
    <3>1. /\ snd[r] = "rlock" /\ UNCHANGED <<running, outcome>>
          /\ snd'[r] = IF running THEN "send" ELSE "failed"
      BY <1>1, <2>4, Zenon DEF SendRLock
    <3> QED BY <2>0, <3>1, Zenon DEF Promised
  <2>5. CASE SendPost(r)
    <3>1. snd[r] = "send" /\ outcome' = outcome /\ snd'[r] = "accepted"
      BY <1>1, <2>5, Zenon DEF SendPost
    <3> QED BY <2>0, <3>1, Zenon DEF Promised
  <2> QED BY <1>0, <2>1, <2>2, <2>3, <2>4, <2>5, SenderStep, Zenon DEF Sends, SendStep
<1> QED BY <1>2, Zenon DEF Promised

\* Nobody has sent anything before the first Start.
LEMMA InitReported == Init => OneSession /\ Reported
PROOF BY Zenon DEF Init, OneSession, Reported, AcceptedIsReported

\* Reported is inductive, relative to IndInv, in a dispatcher that is started once.
LEMMA StepReported == IndInv /\ OneSession /\ Reported /\ MaxStarts <= 1 /\ [Next]_vars => OneSession' /\ Reported'
PROOF
<1> SUFFICES ASSUME IndInv, OneSession, Reported, MaxStarts <= 1, [Next]_vars PROVE OneSession' /\ Reported'
  BY Zenon
<1>1. IndInv' /\ OneSession'
  BY StepIndInv, OneSessionStep, Zenon DEF IndInv
<1>2. Promised'
  BY PromisedIsReported, PromisedStep, Zenon
<1> QED BY <1>1, <1>2, PromisedIsReportedNext, Zenon

\* SendRequest and the stop drain (dispatcher.go 823-841, 872-917): in a dispatcher that is started once, a request
\* that was accepted is reported, will be, or went with its client.
THEOREM AcceptedIsReportedHolds == MaxStarts <= 1 => (Spec => []AcceptedIsReported)
PROOF
<1> SUFFICES ASSUME MaxStarts <= 1 PROVE Spec => []AcceptedIsReported
  BY Zenon
<1>1. IndInv /\ OneSession /\ Reported /\ [Next]_vars => OneSession' /\ Reported'
  BY StepReported, Zenon
<1>2. Reported => AcceptedIsReported
  BY Zenon DEF Reported
<1> QED BY <1>1, <1>2, InitReported, IndInvHolds, PTL DEF Spec

=============================================================================

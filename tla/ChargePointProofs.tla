------------------------- MODULE ChargePointProofs -------------------------
(* Proofs about ChargePoint, for any requests, inbound calls and number of  *)
(* Starts and Stops.                                                        *)
EXTENDS ChargePoint, TLAPS

USE ChargePointAssumption
USE DEF sndVars, dispVars, netVars, handlerVars, ctlVars, genVars, queueVars, sendUnchanged,
        pumpUnchanged, readUnchanged, handlerUnchanged, ctlUnchanged

\* What ReplyTo says of the messages in the channel and in the hands of the readers.
LEMMA ReplyFacts ==
    ASSUME NEW r \in Requests
    PROVE  /\ ReplyTo(r, <<"reply", r>>) /\ ~ReplyTo(r, None)
           /\ \A i \in Inbound : ~ReplyTo(r, <<"request", i>>)
           /\ \A m \in Messages : ReplyTo(r, m) => m[1] = "reply" /\ m[2] = r
           /\ \A q \in Requests : <<"reply", q>> \in Messages
           /\ \A i \in Inbound : <<"request", i>> \in Messages
           /\ \A m \in Messages : m[1] \in {"reply", "request"} /\ m[2] \in Requests \cup Inbound
PROOF BY DEF ReplyTo, Messages

\* Every variable stays in its range: a callback is called once because it is registered
\* once, and a generation is one of the counted Starts.
LEMMA TypeStep == TypeOK /\ OneHand /\ Generations /\ StopOrder /\ [Next]_vars => TypeOK'
PROOF
<1> SUFFICES ASSUME TypeOK, OneHand, Generations, StopOrder, [Next]_vars PROVE TypeOK'
  BY Zenon
<1> USE DEF TypeOK, Gens
<1>1. ASSUME NEW r \in Requests, SendChecks(r) PROVE TypeOK'
  <2>1. CASE pump # "off"
    BY <1>1, <2>1, ZenonT(20) DEF SendChecks, Acquire, Free
  <2>2. CASE ~(pump # "off")
    BY <1>1, <2>2, ZenonT(20) DEF SendChecks, Acquire, Free
  <2> QED BY <2>1, <2>2, Zenon
<1>2. ASSUME NEW r \in Requests, SendPushes(r) PROVE TypeOK'
  BY <1>2, ZenonT(20) DEF SendPushes
<1>29. ASSUME NEW r \in Requests, SendRLocks(r) PROVE TypeOK'
  <2>1. CASE running
    BY <1>29, <2>1, ZenonT(20) DEF SendRLocks
  <2>2. CASE ~running
    BY <1>29, <2>2, ZenonT(20) DEF SendRLocks, Abandon
  <2> QED BY <2>1, <2>2, Zenon
<1>3. ASSUME NEW r \in Requests, SendPosts(r) PROVE TypeOK'
  BY <1>3 DEF SendPosts, Register, OneHand, Registered
<1>4. ASSUME NEW r \in Requests, LoadStopC(r) PROVE TypeOK'
  BY <1>4 DEF LoadStopC
<1>5. ASSUME NEW r \in Requests, AwaitCtxResult(r) PROVE TypeOK'
  BY <1>5 DEF AwaitCtxResult
<1>6. ASSUME NEW r \in Requests, PumpDispatches(r) PROVE TypeOK'
  BY <1>6, ZenonT(20) DEF PumpDispatches, Cancel
<1>7. ASSUME NEW r \in Requests, PumpTimesOut(r) PROVE TypeOK'
  BY <1>7, ZenonT(20) DEF PumpTimesOut, Cancel
<1>8. ASSUME NEW r \in Requests, PumpDrains(r) PROVE TypeOK'
  BY <1>8, Zenon DEF PumpDrains, Cancel
<1>9. ASSUME NEW r \in Requests, Reply(r) PROVE TypeOK'
  BY <1>9 DEF Reply, StopOrder, Messages
<1>10. ASSUME NEW i \in Inbound, Call(i) PROVE TypeOK'
  BY <1>10 DEF Call, StopOrder, Messages
<1>11. CASE PumpTakes
  BY <1>11 DEF PumpTakes
<1>12. CASE PumpSeesStop
  BY <1>12, Zenon DEF PumpSeesStop, Pumping
<1>13. CASE PumpExits
  BY <1>13 DEF PumpExits
<1>14. CASE OnRequestTimeout
  BY <1>14 DEF OnRequestTimeout, Messages
<1>15. ASSUME NEW g \in Gens, Forward(g) PROVE TypeOK'
  BY <1>15 DEF Forward
<1>16. ASSUME NEW g \in Gens, HandlerTakes(g) PROVE TypeOK'
  BY <1>16 DEF HandlerTakes, Goes, Messages
<1>17. ASSUME NEW g \in Gens, HandlerStops(g) PROVE TypeOK'
  BY <1>17 DEF HandlerStops, Goes
<1>18. ASSUME NEW g \in Gens, ClearCallbacks(g) PROVE TypeOK'
  BY <1>18 DEF ClearCallbacks, Goes, DrainAll, Free
<1>19. ASSUME NEW g \in Gens, HandleReply(g) PROVE TypeOK'
  <2>1. callbacks' \subseteq Requests /\ UNCHANGED <<callbacksMutex, incoming, errC, handlerUnchanged>>
    BY <1>19, Zenon DEF HandleReply, Dequeue
  <2>2. calls' \in [Requests -> 0..1]
    <3>1. CASE handling[g] \in callbacks
      <4>1. handling[g] \in Requests /\ calls[handling[g]] = 0
        BY <3>1, Zenon DEF OneHand
      <4>2. calls' = [calls EXCEPT ![handling[g]] = @ + 1]
        BY <1>19, <3>1, Zenon DEF HandleReply
      <4> QED BY <4>1, <4>2
    <3>2. CASE handling[g] \notin callbacks
      BY <1>19, <3>2, Zenon DEF HandleReply
    <3> QED BY <3>1, <3>2, Zenon
  <2>3. /\ handler' \in [Gens -> {"off", "select", "reply", "request", "report", "clear", "done"}]
        /\ handling' \in [Gens -> {None} \cup Requests \cup Inbound]
    BY <1>19, Zenon DEF HandleReply, Goes
  <2> QED BY <2>1, <2>2, <2>3
<1>20. ASSUME NEW g \in Gens, HandlerReports(g) PROVE TypeOK'
  BY <1>20 DEF HandlerReports, Goes
<1>21. ASSUME NEW g \in Gens, HandleRequest(g) PROVE TypeOK'
  BY <1>21 DEF HandleRequest, Goes
<1>22. ASSUME NEW k \in {"start", "stop"}, Control(k) PROVE TypeOK'
  BY <1>22 DEF Control, StartRetires
<1>23. CASE CloseStopC
  BY <1>23 DEF CloseStopC
<1>24. CASE StopClient
  BY <1>24, Zenon DEF StopClient
<1>25. CASE StopJoins
  BY <1>25, Zenon DEF StopJoins
<1>26. CASE StopExpires
  BY <1>26, Zenon DEF StopExpires
<1>27. CASE StartGeneration
  <2>1. CASE /\ running' = TRUE /\ tokens' = 0 /\ pump' = "idle" /\ joined' = gen'
             /\ Goes(gen', "select", None)
    BY <1>27, <2>1 DEF Generations, StartGeneration, Goes
  <2>2. CASE UNCHANGED <<tokens, running, pump, joined, handlerVars>>
    BY <1>27, <2>2 DEF Generations, StartGeneration
  <2> QED BY <1>27, <2>1, <2>2, Zenon DEF Generations, StartGeneration
<1>28. CASE UNCHANGED vars
  BY <1>28 DEF vars
<1> QED BY <1>1, <1>2, <1>29, <1>3, <1>4, <1>5, <1>6, <1>7, <1>8, <1>9, <1>10, <1>11, <1>12, <1>13,
<1>14, <1>15, <1>16, <1>17, <1>18, <1>19, <1>20, <1>21, <1>22, <1>23, <1>24, <1>25,
<1>26, <1>27, <1>28, Zenon
     DEF Next, SendGoesOn, Pump, Handler, ControlGoesOn, Finished

\* TryQueue's mutex has one owner, and a callback one hand, through every step.
LEMMA HandStep == TypeOK /\ OneHand /\ [Next]_vars => OneHand'
PROOF
<1> SUFFICES ASSUME TypeOK, OneHand, [Next]_vars PROVE OneHand'
  BY Zenon
<1> USE DEF TypeOK, OneHand, Registered
<1>1. ASSUME NEW r \in Requests, SendChecks(r) PROVE OneHand'
  BY <1>1 DEF SendChecks, MaySend, Acquire, Free
<1>2. ASSUME NEW r \in Requests, SendPushes(r) PROVE OneHand'
  BY <1>2 DEF SendPushes
<1>29. ASSUME NEW r \in Requests, SendRLocks(r) PROVE OneHand'
  BY <1>29 DEF SendRLocks, Abandon
<1>3. ASSUME NEW r \in Requests, SendPosts(r) PROVE OneHand'
  BY <1>3 DEF SendPosts, Register
<1>4. ASSUME NEW r \in Requests, LoadStopC(r) PROVE OneHand'
  BY <1>4, Zenon DEF LoadStopC
<1>5. ASSUME NEW r \in Requests, AwaitCtxResult(r) PROVE OneHand'
  BY <1>5, Zenon DEF AwaitCtxResult
<1>6. ASSUME NEW r \in Requests, PumpDispatches(r) PROVE OneHand'
  BY <1>6, Zenon DEF PumpDispatches, Cancel
<1>7. ASSUME NEW r \in Requests, PumpTimesOut(r) PROVE OneHand'
  BY <1>7, Zenon DEF PumpTimesOut, Cancel
<1>8. ASSUME NEW r \in Requests, PumpDrains(r) PROVE OneHand'
  BY <1>8, Zenon DEF PumpDrains, Cancel
<1>9. ASSUME NEW r \in Requests, Reply(r) PROVE OneHand'
  BY <1>9, Zenon DEF Reply
<1>10. ASSUME NEW i \in Inbound, Call(i) PROVE OneHand'
  BY <1>10, Zenon DEF Call
<1>11. CASE PumpTakes
  BY <1>11, Zenon DEF PumpTakes
<1>12. CASE PumpSeesStop
  BY <1>12, Zenon DEF PumpSeesStop, Pumping
<1>13. CASE PumpExits
  BY <1>13, Zenon DEF PumpExits
<1>14. CASE OnRequestTimeout
  BY <1>14, Zenon DEF OnRequestTimeout
<1>15. ASSUME NEW g \in Gens, Forward(g) PROVE OneHand'
  BY <1>15, Zenon DEF Forward
<1>16. ASSUME NEW g \in Gens, HandlerTakes(g) PROVE OneHand'
  BY <1>16, Zenon DEF HandlerTakes, Goes
<1>17. ASSUME NEW g \in Gens, HandlerStops(g) PROVE OneHand'
  BY <1>17, Zenon DEF HandlerStops, Goes
<1>18. ASSUME NEW g \in Gens, ClearCallbacks(g) PROVE OneHand'
  BY <1>18, Zenon DEF ClearCallbacks, Goes, DrainAll, Free
<1>19. ASSUME NEW g \in Gens, HandleReply(g) PROVE OneHand'
  BY <1>19 DEF HandleReply, Goes, Dequeue, Free
<1>20. ASSUME NEW g \in Gens, HandlerReports(g) PROVE OneHand'
  BY <1>20, Zenon DEF HandlerReports, Goes
<1>21. ASSUME NEW g \in Gens, HandleRequest(g) PROVE OneHand'
  BY <1>21, Zenon DEF HandleRequest, Goes
<1>22. ASSUME NEW k \in {"start", "stop"}, Control(k) PROVE OneHand'
  BY <1>22, Zenon DEF Control, StartRetires
<1>23. CASE CloseStopC
  BY <1>23, Zenon DEF CloseStopC
<1>24. CASE StopClient
  BY <1>24, Zenon DEF StopClient
<1>25. CASE StopJoins
  BY <1>25, Zenon DEF StopJoins
<1>26. CASE StopExpires
  BY <1>26, Zenon DEF StopExpires
<1>27. CASE StartGeneration
  BY <1>27, Zenon DEF StartGeneration, Goes
<1>28. CASE UNCHANGED vars
  BY <1>28, Zenon DEF vars
<1> QED BY <1>1, <1>2, <1>29, <1>3, <1>4, <1>5, <1>6, <1>7, <1>8, <1>9, <1>10, <1>11, <1>12, <1>13,
<1>14, <1>15, <1>16, <1>17, <1>18, <1>19, <1>20, <1>21, <1>22, <1>23, <1>24, <1>25,
<1>26, <1>27, <1>28, Zenon
     DEF Next, SendGoesOn, Pump, Handler, ControlGoesOn, Finished

\* A Start joins the previous handler before it spawns the next, and stopC is closed before
\* the dispatcher is stopped.
LEMMA GenerationStep ==
    TypeOK /\ OneHandler /\ Generations /\ StopOrder /\ [Next]_vars
    => (OneHandler /\ Generations /\ StopOrder)'
PROOF
<1> SUFFICES ASSUME TypeOK, OneHandler, Generations, StopOrder, [Next]_vars
             PROVE  (OneHandler /\ Generations /\ StopOrder)'
  BY Zenon
<1> USE DEF TypeOK, OneHandler, Generations, StopOrder, Alive, Gens
<1>1. ASSUME NEW r \in Requests, SendChecks(r) PROVE (OneHandler /\ Generations /\ StopOrder)'
  BY <1>1, Zenon DEF SendChecks, MaySend, Acquire, Free
<1>2. ASSUME NEW r \in Requests, SendPushes(r) PROVE (OneHandler /\ Generations /\ StopOrder)'
  BY <1>2 DEF SendPushes
<1>29. ASSUME NEW r \in Requests, SendRLocks(r) PROVE (OneHandler /\ Generations /\ StopOrder)'
  BY <1>29, Zenon DEF SendRLocks, Abandon
<1>3. ASSUME NEW r \in Requests, SendPosts(r) PROVE (OneHandler /\ Generations /\ StopOrder)'
  BY <1>3 DEF SendPosts, Register
<1>4. ASSUME NEW r \in Requests, LoadStopC(r) PROVE (OneHandler /\ Generations /\ StopOrder)'
  BY <1>4, Zenon DEF LoadStopC
<1>5. ASSUME NEW r \in Requests, AwaitCtxResult(r) PROVE (OneHandler /\ Generations /\ StopOrder)'
  BY <1>5, Zenon DEF AwaitCtxResult
<1>6. ASSUME NEW r \in Requests, PumpDispatches(r) PROVE (OneHandler /\ Generations /\ StopOrder)'
  BY <1>6, Zenon DEF PumpDispatches, Cancel
<1>7. ASSUME NEW r \in Requests, PumpTimesOut(r) PROVE (OneHandler /\ Generations /\ StopOrder)'
  BY <1>7, Zenon DEF PumpTimesOut, Cancel
<1>8. ASSUME NEW r \in Requests, PumpDrains(r) PROVE (OneHandler /\ Generations /\ StopOrder)'
  BY <1>8, Zenon DEF PumpDrains, Cancel
<1>9. ASSUME NEW r \in Requests, Reply(r) PROVE (OneHandler /\ Generations /\ StopOrder)'
  BY <1>9, Zenon DEF Reply
<1>10. ASSUME NEW i \in Inbound, Call(i) PROVE (OneHandler /\ Generations /\ StopOrder)'
  BY <1>10, Zenon DEF Call
<1>11. CASE PumpTakes
  BY <1>11, Zenon DEF PumpTakes
<1>12. CASE PumpSeesStop
  BY <1>12, Zenon DEF PumpSeesStop, Pumping
<1>13. CASE PumpExits
  BY <1>13, Zenon DEF PumpExits
<1>14. CASE OnRequestTimeout
  BY <1>14, Zenon DEF OnRequestTimeout
<1>15. ASSUME NEW g \in Gens, Forward(g) PROVE (OneHandler /\ Generations /\ StopOrder)'
  BY <1>15, Zenon DEF Forward
<1>16. ASSUME NEW g \in Gens, HandlerTakes(g) PROVE (OneHandler /\ Generations /\ StopOrder)'
  BY <1>16 DEF HandlerTakes, Goes, Messages
<1>17. ASSUME NEW g \in Gens, HandlerStops(g) PROVE (OneHandler /\ Generations /\ StopOrder)'
  BY <1>17 DEF HandlerStops, Goes
<1>18. ASSUME NEW g \in Gens, ClearCallbacks(g) PROVE (OneHandler /\ Generations /\ StopOrder)'
  BY <1>18 DEF ClearCallbacks, Goes, DrainAll, Free
<1>19. ASSUME NEW g \in Gens, HandleReply(g) PROVE (OneHandler /\ Generations /\ StopOrder)'
  BY <1>19 DEF HandleReply, Goes, Dequeue, Free
<1>20. ASSUME NEW g \in Gens, HandlerReports(g) PROVE (OneHandler /\ Generations /\ StopOrder)'
  BY <1>20 DEF HandlerReports, Goes
<1>21. ASSUME NEW g \in Gens, HandleRequest(g) PROVE (OneHandler /\ Generations /\ StopOrder)'
  BY <1>21 DEF HandleRequest, Goes
<1>22. ASSUME NEW k \in {"start", "stop"}, Control(k) PROVE (OneHandler /\ Generations /\ StopOrder)'
  BY <1>22 DEF Control, StartRetires
<1>23. CASE CloseStopC
  BY <1>23, Zenon DEF CloseStopC
<1>24. CASE StopClient
  BY <1>24 DEF StopClient
<1>25. CASE StopJoins
  BY <1>25, Zenon DEF StopJoins
<1>26. CASE StopExpires
  BY <1>26, Zenon DEF StopExpires
<1>27. CASE StartGeneration
  <2>1. CASE /\ running' = TRUE /\ tokens' = 0 /\ pump' = "idle" /\ joined' = gen'
             /\ Goes(gen', "select", None)
    BY <1>27, <2>1 DEF StartGeneration, Goes
  <2>2. CASE UNCHANGED <<tokens, running, pump, joined, handlerVars>>
    BY <1>27, <2>2 DEF StartGeneration
  <2> QED BY <1>27, <2>1, <2>2, Zenon DEF StartGeneration
<1>28. CASE UNCHANGED vars
  BY <1>28, Zenon DEF vars
<1> QED BY <1>1, <1>2, <1>29, <1>3, <1>4, <1>5, <1>6, <1>7, <1>8, <1>9, <1>10, <1>11, <1>12, <1>13,
<1>14, <1>15, <1>16, <1>17, <1>18, <1>19, <1>20, <1>21, <1>22, <1>23, <1>24, <1>25,
<1>26, <1>27, <1>28, Zenon
     DEF Next, SendGoesOn, Pump, Handler, ControlGoesOn, Finished

\* What a step does to those who are in charge of a callback that is or is being registered.
ChargeKept == \A q \in Requests :
    InCharge(q) /\ gen \notin closed
        => InCharge(q)' \/ (snd'[q] \notin {"rlock", "post"} /\ q \notin callbacks')

\* Who is in charge of q depends on these variables only.
LEMMA ChargeFrame ==
    ASSUME NEW q \in Requests, disp'[q] = disp[q],
           UNCHANGED <<hook, incoming, reader, handler, handling>>
    PROVE  InCharge(q)' <=> InCharge(q)
PROOF BY Zenon DEF InCharge

\* As long as stopC is open, no step loses the message a registered callback waits for: only
\* the callback's own delivery ends the charge.
LEMMA InChargeKept == TypeOK /\ OneHand /\ Generations /\ StopOrder /\ [Next]_vars => ChargeKept
PROOF
<1> SUFFICES ASSUME TypeOK, OneHand, Generations, StopOrder, [Next]_vars PROVE ChargeKept
  BY Zenon
<1>1. ASSUME NEW r \in Requests, SendChecks(r) PROVE ChargeKept
  BY <1>1, ChargeFrame, Zenon DEF SendChecks, ChargeKept
<1>2. ASSUME NEW r \in Requests, SendPushes(r) PROVE ChargeKept
  <2> SUFFICES ASSUME NEW q \in Requests, InCharge(q), gen \notin closed
             PROVE  InCharge(q)' \/ (snd'[q] \notin {"rlock", "post"} /\ q \notin callbacks')
    BY Zenon DEF ChargeKept
  <2> QED BY <1>2, ReplyFacts DEF InCharge, TypeOK, SendPushes
<1>29. ASSUME NEW r \in Requests, SendRLocks(r) PROVE ChargeKept
  BY <1>29, ChargeFrame, Zenon DEF SendRLocks, ChargeKept
<1>3. ASSUME NEW r \in Requests, SendPosts(r) PROVE ChargeKept
  BY <1>3, ChargeFrame, Zenon DEF SendPosts, ChargeKept
<1>4. ASSUME NEW r \in Requests, LoadStopC(r) PROVE ChargeKept
  BY <1>4, ChargeFrame, Zenon DEF LoadStopC, ChargeKept
<1>5. ASSUME NEW r \in Requests, AwaitCtxResult(r) PROVE ChargeKept
  BY <1>5, ChargeFrame, Zenon DEF AwaitCtxResult, ChargeKept
<1>6. ASSUME NEW r \in Requests, PumpDispatches(r) PROVE ChargeKept
  <2> SUFFICES ASSUME NEW q \in Requests, InCharge(q), gen \notin closed
             PROVE  InCharge(q)' \/ (snd'[q] \notin {"rlock", "post"} /\ q \notin callbacks')
    BY Zenon DEF ChargeKept
  <2> QED BY <1>6, ReplyFacts DEF InCharge, TypeOK, PumpDispatches, Cancel
<1>7. ASSUME NEW r \in Requests, PumpTimesOut(r) PROVE ChargeKept
  <2> SUFFICES ASSUME NEW q \in Requests, InCharge(q), gen \notin closed
             PROVE  InCharge(q)' \/ (snd'[q] \notin {"rlock", "post"} /\ q \notin callbacks')
    BY Zenon DEF ChargeKept
  <2> QED BY <1>7, ReplyFacts DEF InCharge, TypeOK, PumpTimesOut, Cancel
<1>8. ASSUME NEW r \in Requests, PumpDrains(r) PROVE ChargeKept
  <2> SUFFICES ASSUME NEW q \in Requests, InCharge(q), gen \notin closed
             PROVE  InCharge(q)' \/ (snd'[q] \notin {"rlock", "post"} /\ q \notin callbacks')
    BY Zenon DEF ChargeKept
  <2> QED BY <1>8, ReplyFacts DEF InCharge, TypeOK, PumpDrains, Cancel
<1>9. ASSUME NEW r \in Requests, Reply(r) PROVE ChargeKept
  <2> SUFFICES ASSUME NEW q \in Requests, InCharge(q), gen \notin closed PROVE InCharge(q)'
    BY Zenon DEF ChargeKept
  <2>1. gen \in Gens
    BY <1>9 DEF Reply, StopOrder, TypeOK, Gens
  <2>2. ReplyTo(r, reader'[gen])
    <3>1. reader' = [reader EXCEPT ![gen] = <<"reply", r>>] /\ gen \in DOMAIN reader
      BY <1>9, <2>1, Zenon DEF Reply, TypeOK
    <3>2. reader'[gen] = <<"reply", r>>
      BY <3>1, Zenon
    <3> QED BY <3>2, ReplyFacts, ZenonT(20)
  <2>3. CASE q = r
    BY <2>1, <2>2, <2>3, Zenon DEF InCharge
  <2>4. CASE q # r
    <3>1. disp'[q] = disp[q] /\ \A c \in Gens : ReplyTo(q, reader[c]) => ReplyTo(q, reader'[c])
      BY <1>9, <2>1, <2>4, ReplyFacts DEF Reply, TypeOK
    <3> QED BY <1>9, <3>1, Zenon DEF Reply, InCharge
  <2> QED BY <2>3, <2>4, Zenon
<1>10. ASSUME NEW i \in Inbound, Call(i) PROVE ChargeKept
  <2> SUFFICES ASSUME NEW q \in Requests, InCharge(q), gen \notin closed
             PROVE  InCharge(q)' \/ (snd'[q] \notin {"rlock", "post"} /\ q \notin callbacks')
    BY Zenon DEF ChargeKept
  <2> QED BY <1>10, ReplyFacts DEF InCharge, TypeOK, Call
<1>11. CASE PumpTakes
  BY <1>11, ChargeFrame, Zenon DEF PumpTakes, ChargeKept
<1>12. CASE PumpSeesStop
  <2> SUFFICES ASSUME NEW q \in Requests, InCharge(q), gen \notin closed
             PROVE  InCharge(q)' \/ (snd'[q] \notin {"rlock", "post"} /\ q \notin callbacks')
    BY Zenon DEF ChargeKept
  <2> QED BY <1>12, ReplyFacts, Zenon DEF InCharge, TypeOK, PumpSeesStop, Pumping, StopOrder
<1>13. CASE PumpExits
  <2> SUFFICES ASSUME NEW q \in Requests, InCharge(q), gen \notin closed
             PROVE  InCharge(q)' \/ (snd'[q] \notin {"rlock", "post"} /\ q \notin callbacks')
    BY Zenon DEF ChargeKept
  <2> QED BY <1>13, ReplyFacts, Zenon DEF InCharge, TypeOK, PumpExits, StopOrder
<1>14. CASE OnRequestTimeout
  <2> SUFFICES ASSUME NEW q \in Requests, InCharge(q), gen \notin closed PROVE InCharge(q)'
    BY Zenon DEF ChargeKept
  <2>1. incoming = None /\ hook \in Requests /\ incoming' = <<"reply", hook>>
    BY <1>14, Zenon DEF OnRequestTimeout, TypeOK
  <2>2. ReplyTo(hook, incoming') /\ ~ReplyTo(q, incoming)
    BY <2>1, ReplyFacts, Zenon
  <2> QED BY <1>14, <2>2, Zenon DEF OnRequestTimeout, InCharge
<1>15. ASSUME NEW g \in Gens, Forward(g) PROVE ChargeKept
  <2> SUFFICES ASSUME NEW q \in Requests, InCharge(q), gen \notin closed
             PROVE  InCharge(q)' \/ (snd'[q] \notin {"rlock", "post"} /\ q \notin callbacks')
    BY Zenon DEF ChargeKept
  <2> QED BY <1>15, ReplyFacts DEF InCharge, TypeOK, Forward
<1>16. ASSUME NEW g \in Gens, HandlerTakes(g) PROVE ChargeKept
  <2> SUFFICES ASSUME NEW q \in Requests, InCharge(q), gen \notin closed
             PROVE  InCharge(q)' \/ (snd'[q] \notin {"rlock", "post"} /\ q \notin callbacks')
    BY Zenon DEF ChargeKept
  <2> QED BY <1>16, ReplyFacts DEF InCharge, TypeOK, HandlerTakes, Goes
<1>17. ASSUME NEW g \in Gens, HandlerStops(g) PROVE ChargeKept
  <2> SUFFICES ASSUME NEW q \in Requests, InCharge(q), gen \notin closed
             PROVE  InCharge(q)' \/ (snd'[q] \notin {"rlock", "post"} /\ q \notin callbacks')
    BY Zenon DEF ChargeKept
  <2> QED BY <1>17, ReplyFacts DEF InCharge, TypeOK, HandlerStops, Goes
<1>18. ASSUME NEW g \in Gens, ClearCallbacks(g) PROVE ChargeKept
  <2> SUFFICES ASSUME NEW q \in Requests, InCharge(q), gen \notin closed
             PROVE  InCharge(q)' \/ (snd'[q] \notin {"rlock", "post"} /\ q \notin callbacks')
    BY Zenon DEF ChargeKept
  <2> QED BY <1>18, ReplyFacts DEF InCharge, TypeOK, ClearCallbacks, Goes, DrainAll, Free
<1>19. ASSUME NEW g \in Gens, HandleReply(g) PROVE ChargeKept
  <2> SUFFICES ASSUME NEW q \in Requests, InCharge(q), gen \notin closed
             PROVE  InCharge(q)' \/ (snd'[q] \notin {"rlock", "post"} /\ q \notin callbacks')
    BY Zenon DEF ChargeKept
   <2> QED BY <1>19, ReplyFacts DEF InCharge, TypeOK, HandleReply, Goes, Dequeue, Free,
       OneHand, Registered
<1>20. ASSUME NEW g \in Gens, HandlerReports(g) PROVE ChargeKept
  <2> SUFFICES ASSUME NEW q \in Requests, InCharge(q), gen \notin closed
             PROVE  InCharge(q)' \/ (snd'[q] \notin {"rlock", "post"} /\ q \notin callbacks')
    BY Zenon DEF ChargeKept
  <2> QED BY <1>20, ReplyFacts DEF InCharge, TypeOK, HandlerReports, Goes
<1>21. ASSUME NEW g \in Gens, HandleRequest(g) PROVE ChargeKept
  <2> SUFFICES ASSUME NEW q \in Requests, InCharge(q), gen \notin closed
             PROVE  InCharge(q)' \/ (snd'[q] \notin {"rlock", "post"} /\ q \notin callbacks')
    BY Zenon DEF ChargeKept
  <2> QED BY <1>21, ReplyFacts DEF InCharge, TypeOK, HandleRequest, Goes
<1>22. ASSUME NEW k \in {"start", "stop"}, Control(k) PROVE ChargeKept
  BY <1>22, ChargeFrame, Zenon DEF Control, ChargeKept
<1>23. CASE CloseStopC
  BY <1>23, ChargeFrame, Zenon DEF CloseStopC, ChargeKept
<1>24. CASE StopClient
  BY <1>24, ChargeFrame, Zenon DEF StopClient, ChargeKept
<1>25. CASE StopJoins
  BY <1>25, ChargeFrame, Zenon DEF StopJoins, ChargeKept
<1>26. CASE StopExpires
  BY <1>26, ChargeFrame, Zenon DEF StopExpires, ChargeKept
<1>27. CASE StartGeneration
  <2> SUFFICES ASSUME NEW q \in Requests, InCharge(q), gen \notin closed PROVE InCharge(q)'
    BY Zenon DEF ChargeKept
  <2>1. \A g \in Gens : handler[g] = "reply" => handler'[g] = "reply" /\ handling'[g] = handling[g]
    BY <1>27 DEF StartGeneration, Goes, TypeOK, Generations, Gens
  <2> QED BY <1>27, <2>1, Zenon DEF StartGeneration, InCharge
<1>28. CASE UNCHANGED vars
  BY <1>28, ChargeFrame, Zenon DEF vars, ChargeKept
<1> QED BY <1>1, <1>2, <1>29, <1>3, <1>4, <1>5, <1>6, <1>7, <1>8, <1>9, <1>10, <1>11, <1>12, <1>13,
<1>14, <1>15, <1>16, <1>17, <1>18, <1>19, <1>20, <1>21, <1>22, <1>23, <1>24, <1>25,
<1>26, <1>27, <1>28, Zenon
     DEF Next, SendGoesOn, Pump, Handler, ControlGoesOn, Finished

\* What a step does to a sender's place and to its callback, ...
SenderMoves == \A r \in Requests :
    /\ snd'[r] \in {"idle", "push"} => /\ snd[r] \in {"idle", "push"}
                                       /\ disp[r] = "none" => disp'[r] = "none"
    /\ snd'[r] = "post" => snd[r] = "post" \/ (running /\ snd[r] = "rlock")
    /\ snd'[r] \in {"rlock", "post"} =>
           \/ snd[r] \in {"rlock", "post"} /\ pushGen'[r] = pushGen[r]
           \/ disp'[r] = "queued"
    /\ r \in callbacks' => /\ pushGen'[r] = pushGen[r]
                           /\ \/ r \in callbacks /\ regGen'[r] = regGen[r]
                              \/ snd[r] = "post"

\* ... and what it does to the generation they belong to.
GenerationMoves ==
    \/ gen' = gen /\ closed \subseteq closed' /\ running' = running
    \/ /\ UNCHANGED <<gen, closed, snd, callbacks, pushGen, regGen>> /\ (gen = 0 \/ gen \in closed)
       /\ \A r \in Requests : snd[r] # "post"
    \/ UNCHANGED <<snd, callbacks, pushGen, regGen>> /\ gen' = gen + 1 /\ ~running

\* Senders move forward, and only SendPosts registers.
LEMMA SenderMovesStep == TypeOK /\ OneHand /\ [Next]_vars => SenderMoves
PROOF
<1> SUFFICES ASSUME TypeOK, OneHand, [Next]_vars PROVE SenderMoves
  BY Zenon
<1> USE DEF TypeOK, SenderMoves
<1>1. ASSUME NEW r \in Requests, SendChecks(r) PROVE SenderMoves
  BY <1>1 DEF SendChecks, MaySend, Acquire, Free
<1>2. ASSUME NEW r \in Requests, SendPushes(r) PROVE SenderMoves
  BY <1>2 DEF SendPushes, OneHand, Registered
<1>29. ASSUME NEW r \in Requests, SendRLocks(r) PROVE SenderMoves
  BY <1>29 DEF SendRLocks, Abandon
<1>3. ASSUME NEW r \in Requests, SendPosts(r) PROVE SenderMoves
  BY <1>3, Zenon DEF SendPosts, Register
<1>4. ASSUME NEW r \in Requests, LoadStopC(r) PROVE SenderMoves
  BY <1>4, Zenon DEF LoadStopC
<1>5. ASSUME NEW r \in Requests, AwaitCtxResult(r) PROVE SenderMoves
  BY <1>5, Zenon DEF AwaitCtxResult
<1>6. ASSUME NEW r \in Requests, PumpDispatches(r) PROVE SenderMoves
  BY <1>6, Zenon DEF PumpDispatches, Cancel
<1>7. ASSUME NEW r \in Requests, PumpTimesOut(r) PROVE SenderMoves
  BY <1>7, Zenon DEF PumpTimesOut, Cancel
<1>8. ASSUME NEW r \in Requests, PumpDrains(r) PROVE SenderMoves
  BY <1>8, Zenon DEF PumpDrains, Cancel
<1>9. ASSUME NEW r \in Requests, Reply(r) PROVE SenderMoves
  BY <1>9, Zenon DEF Reply
<1>10. ASSUME NEW i \in Inbound, Call(i) PROVE SenderMoves
  BY <1>10, Zenon DEF Call
<1>11. CASE PumpTakes
  BY <1>11, Zenon DEF PumpTakes
<1>12. CASE PumpSeesStop
  BY <1>12, Zenon DEF PumpSeesStop, Pumping
<1>13. CASE PumpExits
  BY <1>13, Zenon DEF PumpExits
<1>14. CASE OnRequestTimeout
  BY <1>14, Zenon DEF OnRequestTimeout
<1>15. ASSUME NEW g \in Gens, Forward(g) PROVE SenderMoves
  BY <1>15, Zenon DEF Forward
<1>16. ASSUME NEW g \in Gens, HandlerTakes(g) PROVE SenderMoves
  BY <1>16, Zenon DEF HandlerTakes, Goes
<1>17. ASSUME NEW g \in Gens, HandlerStops(g) PROVE SenderMoves
  BY <1>17, Zenon DEF HandlerStops, Goes
<1>18. ASSUME NEW g \in Gens, ClearCallbacks(g) PROVE SenderMoves
  BY <1>18, Zenon DEF ClearCallbacks, Goes, DrainAll, Free
<1>19. ASSUME NEW g \in Gens, HandleReply(g) PROVE SenderMoves
  BY <1>19, Zenon DEF HandleReply, Goes, Dequeue, Free
<1>20. ASSUME NEW g \in Gens, HandlerReports(g) PROVE SenderMoves
  BY <1>20, Zenon DEF HandlerReports, Goes
<1>21. ASSUME NEW g \in Gens, HandleRequest(g) PROVE SenderMoves
  BY <1>21, Zenon DEF HandleRequest, Goes
<1>22. ASSUME NEW k \in {"start", "stop"}, Control(k) PROVE SenderMoves
  BY <1>22, Zenon DEF Control, StartRetires
<1>23. CASE CloseStopC
  BY <1>23, Zenon DEF CloseStopC
<1>24. CASE StopClient
  BY <1>24, Zenon DEF StopClient
<1>25. CASE StopJoins
  BY <1>25, Zenon DEF StopJoins
<1>26. CASE StopExpires
  BY <1>26, Zenon DEF StopExpires
<1>27. CASE StartGeneration
  BY <1>27, Zenon DEF StartGeneration, Goes
<1>28. CASE UNCHANGED vars
  BY <1>28, Zenon DEF vars
<1> QED BY <1>1, <1>2, <1>29, <1>3, <1>4, <1>5, <1>6, <1>7, <1>8, <1>9, <1>10, <1>11, <1>12, <1>13,
<1>14, <1>15, <1>16, <1>17, <1>18, <1>19, <1>20, <1>21, <1>22, <1>23, <1>24, <1>25,
<1>26, <1>27, <1>28, Zenon
     DEF Next, SendGoesOn, Pump, Handler, ControlGoesOn, Finished

\* The dispatcher stops when stopC is closed, and a new generation finds it stopped.
LEMMA GenerationMovesStep == TypeOK /\ Generations /\ StopOrder /\ [Next]_vars => GenerationMoves
PROOF
<1> SUFFICES ASSUME TypeOK, Generations, StopOrder, [Next]_vars PROVE GenerationMoves
  BY Zenon
<1> USE DEF TypeOK, GenerationMoves
<1>1. ASSUME NEW r \in Requests, SendChecks(r) PROVE GenerationMoves
  BY <1>1, Zenon DEF SendChecks, MaySend, Acquire, Free
<1>2. ASSUME NEW r \in Requests, SendPushes(r) PROVE GenerationMoves
  BY <1>2, Zenon DEF SendPushes
<1>29. ASSUME NEW r \in Requests, SendRLocks(r) PROVE GenerationMoves
  BY <1>29, Zenon DEF SendRLocks, Abandon
<1>3. ASSUME NEW r \in Requests, SendPosts(r) PROVE GenerationMoves
  BY <1>3, Zenon DEF SendPosts, Register
<1>4. ASSUME NEW r \in Requests, LoadStopC(r) PROVE GenerationMoves
  BY <1>4, Zenon DEF LoadStopC
<1>5. ASSUME NEW r \in Requests, AwaitCtxResult(r) PROVE GenerationMoves
  BY <1>5, Zenon DEF AwaitCtxResult
<1>6. ASSUME NEW r \in Requests, PumpDispatches(r) PROVE GenerationMoves
  BY <1>6, Zenon DEF PumpDispatches, Cancel
<1>7. ASSUME NEW r \in Requests, PumpTimesOut(r) PROVE GenerationMoves
  BY <1>7, Zenon DEF PumpTimesOut, Cancel
<1>8. ASSUME NEW r \in Requests, PumpDrains(r) PROVE GenerationMoves
  BY <1>8, Zenon DEF PumpDrains, Cancel
<1>9. ASSUME NEW r \in Requests, Reply(r) PROVE GenerationMoves
  BY <1>9, Zenon DEF Reply
<1>10. ASSUME NEW i \in Inbound, Call(i) PROVE GenerationMoves
  BY <1>10, Zenon DEF Call
<1>11. CASE PumpTakes
  BY <1>11, Zenon DEF PumpTakes
<1>12. CASE PumpSeesStop
  BY <1>12, Zenon DEF PumpSeesStop, Pumping
<1>13. CASE PumpExits
  BY <1>13, Zenon DEF PumpExits
<1>14. CASE OnRequestTimeout
  BY <1>14, Zenon DEF OnRequestTimeout
<1>15. ASSUME NEW g \in Gens, Forward(g) PROVE GenerationMoves
  BY <1>15, Zenon DEF Forward
<1>16. ASSUME NEW g \in Gens, HandlerTakes(g) PROVE GenerationMoves
  BY <1>16, Zenon DEF HandlerTakes, Goes
<1>17. ASSUME NEW g \in Gens, HandlerStops(g) PROVE GenerationMoves
  BY <1>17, Zenon DEF HandlerStops, Goes
<1>18. ASSUME NEW g \in Gens, ClearCallbacks(g) PROVE GenerationMoves
  BY <1>18, Zenon DEF ClearCallbacks, Goes, DrainAll, Free
<1>19. ASSUME NEW g \in Gens, HandleReply(g) PROVE GenerationMoves
  BY <1>19, Zenon DEF HandleReply, Goes, Dequeue, Free
<1>20. ASSUME NEW g \in Gens, HandlerReports(g) PROVE GenerationMoves
  BY <1>20, Zenon DEF HandlerReports, Goes
<1>21. ASSUME NEW g \in Gens, HandleRequest(g) PROVE GenerationMoves
  BY <1>21, Zenon DEF HandleRequest, Goes
<1>22. ASSUME NEW k \in {"start", "stop"}, Control(k) PROVE GenerationMoves
  BY <1>22, Zenon DEF Control, StartRetires
<1>23. CASE CloseStopC
  BY <1>23, Zenon DEF CloseStopC
<1>24. CASE StopClient
  BY <1>24, Zenon DEF StopClient, StopOrder
<1>25. CASE StopJoins
  BY <1>25, Zenon DEF StopJoins
<1>26. CASE StopExpires
  BY <1>26, Zenon DEF StopExpires
<1>27. CASE StartGeneration
  BY <1>27, Zenon DEF StartGeneration, Goes, Generations, StopOrder
<1>28. CASE UNCHANGED vars
  BY <1>28, Zenon DEF vars
<1> QED BY <1>1, <1>2, <1>29, <1>3, <1>4, <1>5, <1>6, <1>7, <1>8, <1>9, <1>10, <1>11, <1>12, <1>13,
<1>14, <1>15, <1>16, <1>17, <1>18, <1>19, <1>20, <1>21, <1>22, <1>23, <1>24, <1>25,
<1>26, <1>27, <1>28, Zenon
     DEF Next, SendGoesOn, Pump, Handler, ControlGoesOn, Finished


\* So a callback of the current generation keeps somebody in charge until Stop.
LEMMA ChargeStep ==
    TypeOK /\ OneHand /\ Generations /\ StopOrder /\ TypeOK' /\ StopOrder'
    /\ Charge /\ NoneForgotten /\ [Next]_vars
    => (Charge /\ NoneForgotten)'
PROOF
<1> SUFFICES ASSUME TypeOK, OneHand, Generations, StopOrder, TypeOK', StopOrder',
                    Charge, NoneForgotten, [Next]_vars
             PROVE (Charge /\ NoneForgotten)'
  BY Zenon
<1>1. ChargeKept /\ SenderMoves /\ GenerationMoves
  BY InChargeKept, SenderMovesStep, GenerationMovesStep, Zenon
<1>2. \A r \in Requests : disp'[r] = "queued" => InCharge(r)'
  BY Zenon DEF InCharge
<1>3. Charge'
  <2> SUFFICES ASSUME NEW r \in Requests
               PROVE  /\ snd'[r] \in {"idle", "push"} => disp'[r] = "none"
                      /\ snd'[r] = "post" => running'
                      /\ snd'[r] \in {"rlock", "post"} /\ pushGen'[r] = gen'
                             => gen' \in closed' \/ InCharge(r)'
    BY Zenon DEF Charge
  <2>1. ASSUME snd'[r] \in {"idle", "push"} PROVE disp'[r] = "none"
    <3>1. snd[r] \in {"idle", "push"} /\ (disp[r] = "none" => disp'[r] = "none")
      BY <1>1, <2>1, Zenon DEF SenderMoves
    <3> QED BY <3>1, Zenon DEF Charge
  <2>2. ASSUME snd'[r] = "post" PROVE running'
    <3>1. running /\ (snd[r] = "post" \/ snd' # snd)
      BY <1>1, <2>2 DEF SenderMoves, Charge
    <3> QED BY <1>1, <2>2, <3>1, Zenon DEF GenerationMoves
  <2>3. ASSUME snd'[r] \in {"rlock", "post"}, pushGen'[r] = gen'
        PROVE  gen' \in closed' \/ InCharge(r)'
    <3>1. CASE disp'[r] = "queued"
      BY <1>2, <3>1, Zenon
    <3>2. CASE snd[r] \in {"rlock", "post"} /\ pushGen'[r] = pushGen[r]
      <4>1. gen \in Nat /\ pushGen[r] \in Nat /\ pushGen[r] <= gen
        BY DEF Generations, TypeOK
      <4>2. gen' = gen /\ closed \subseteq closed'
        BY <1>1, <2>3, <3>2, <4>1 DEF GenerationMoves
      <4>3. gen \in closed \/ InCharge(r)
        BY <2>3, <3>2, <4>2, Zenon DEF Charge
      <4> QED BY <1>1, <2>3, <4>2, <4>3, Zenon DEF ChargeKept
    <3> QED BY <1>1, <2>3, <3>1, <3>2, Zenon DEF SenderMoves
  <2> QED BY <2>1, <2>2, <2>3, Zenon
<1>4. NoneForgotten'
  <2> SUFFICES ASSUME gen' \notin closed', NEW r \in callbacks', pushGen'[r] = gen',
                      regGen'[r] = gen'
               PROVE  running' /\ Alive(gen)' /\ InCharge(r)'
    BY Zenon DEF NoneForgotten
  <2>1. r \in Requests /\ gen \in Nat /\ regGen[r] \in Nat /\ regGen[r] <= gen
    BY DEF Generations, TypeOK
  <2>2. gen' = gen /\ gen \notin closed
    BY <1>1, <2>1 DEF GenerationMoves
  <2>3. running /\ InCharge(r)
    <3>1. pushGen[r] = gen /\ ((r \in callbacks /\ regGen[r] = gen) \/ snd[r] = "post")
      BY <1>1, <2>1, <2>2, Zenon DEF SenderMoves
    <3> QED BY <2>1, <2>2, <3>1, Zenon DEF NoneForgotten, Charge
  <2>4. running'
    <3>1. gen # 0
      BY <2>1, <2>3 DEF StopOrder
    <3> QED BY <1>1, <2>2, <2>3, <3>1, Zenon DEF GenerationMoves
  <2>5. InCharge(r)'
    BY <1>1, <2>1, <2>2, <2>3, Zenon DEF ChargeKept
  <2>6. Alive(gen)'
    BY <2>4, Zenon DEF StopOrder
  <2> QED BY <2>4, <2>5, <2>6, Zenon
<1> QED BY <1>3, <1>4, Zenon

\* The invariant holds before the first Start.
LEMMA InitIndInv == Init => IndInv
PROOF
<1> SUFFICES ASSUME Init PROVE IndInv
  BY Zenon
<1>1. TypeOK
  <2>1. /\ reader \in [Gens -> Messages \cup {None}] /\ incoming \in Messages \cup {None}
        /\ handler \in [Gens -> {"off", "select", "reply", "request", "report", "clear", "done"}]
        /\ handling \in [Gens -> {None} \cup Requests \cup Inbound]
    BY Zenon DEF Init
  <2>2. /\ pushGen \in [Requests -> 0..MaxControls]
        /\ regGen \in [Requests -> 0..MaxControls] /\ waits \in [Requests -> 0..MaxControls]
        /\ calls \in [Requests -> 0..1] /\ gen \in 0..MaxControls /\ joined \in 0..gen
        /\ tokens \in 0..1 /\ controls \in 0..MaxControls
    BY DEF Init
  <2> QED BY <2>1, <2>2, Zenon DEF Init, InitCallbacks, Free, TypeOK
<1> QED BY <1>1 DEF Init, InitCallbacks, Free, IndInv, TypeOK, OneHandler, OneHand, Registered,
                   Generations, StopOrder, Alive, Charge, NoneForgotten, Gens

\* Every step preserves it.
LEMMA StepIndInv == IndInv /\ [Next]_vars => IndInv'
PROOF
<1> SUFFICES ASSUME IndInv, [Next]_vars PROVE IndInv'
  BY Zenon
<1>1. TypeOK' /\ OneHand' /\ (OneHandler /\ Generations /\ StopOrder)'
  BY TypeStep, HandStep, GenerationStep, Zenon DEF IndInv
<1> QED BY <1>1, ChargeStep, Zenon DEF IndInv

\* Mutex, callbacks, generations and handlers stay in step, whatever Starts, Stops, expired
\* StopCtx, replies and timeouts come in which order.
THEOREM IndInvHolds == Spec => []IndInv
PROOF
<1>1. IndInv /\ [Next]_vars => IndInv'
  BY StepIndInv, Zenon
<1> QED BY <1>1, InitIndInv, PTL DEF Spec

\* The facade's variables keep their types; in particular no callback is called twice.
THEOREM TypeCorrect == Spec => []TypeOK
PROOF BY IndInvHolds, PTL DEF IndInv

\* incoming has one consumer at a time, and it is one that the next Stop joins
\* (retirePreviousGeneration), even after a StopCtx that gave up or a Start that failed.
THEOREM OneHandlerHolds == Spec => []OneHandler
PROOF BY IndInvHolds, PTL DEF IndInv

\* A callback whose request was pushed and registered in the current generation is not
\* forgotten before Stop.
THEOREM NoneForgottenHolds == Spec => []NoneForgotten
PROOF BY IndInvHolds, PTL DEF IndInv

\* No handler clears callbacks that a later generation has registered (asyncCallbackHandler).
THEOREM ClearsOwnHolds == Spec => ClearsOwn
PROOF
<1>1. IndInv => \A g \in Gens : ClearCallbacks(g) => \A r \in callbacks : regGen[r] <= g
  BY DEF IndInv, TypeOK, OneHandler, Generations, ClearCallbacks
<1> QED BY <1>1, IndInvHolds, PTL DEF Spec, ClearsOwn

=============================================================================

----------------------- MODULE ClientDispatcherProofs -----------------------
(* Proofs about ClientDispatcher, for any requests, readers, stoppers and bounds. *)
EXTENDS ClientDispatcher, TLAPS

USE DEF queueVars, chanVars, timerVars, pumpVars, linkVars, ctlVars, sendUnchanged,
        readUnchanged, pumpUnchanged, hookUnchanged, ctlUnchanged

\* Push adds its request and nothing else.
LEMMA PushFacts ==
    ASSUME NEW q \in Seq(Requests), NEW r \in Requests
    PROVE  /\ Push(q, r) \in Seq(Requests)
           /\ Range(Push(q, r)) = Range(q) \cup {r}
           /\ DOMAIN Push(q, r) = 1..(Len(q) + 1)
           /\ \A i \in 1..Len(q) : Push(q, r)[i] = q[i]
           /\ Push(q, r)[Len(q) + 1] = r
           /\ IsInjective(q) /\ r \notin Range(q) => IsInjective(Push(q, r))
PROOF
<1>1. /\ Push(q, r) \in Seq(Requests)
      /\ DOMAIN Push(q, r) = 1..(Len(q) + 1)
      /\ \A i \in 1..Len(q) : Push(q, r)[i] = q[i]
      /\ Push(q, r)[Len(q) + 1] = r
  BY DEF Push
<1>2. DOMAIN q = 1..Len(q) /\ Len(q) \in Nat
  OBVIOUS
<1>3. Range(Push(q, r)) = Range(q) \cup {r}
  BY <1>1, <1>2 DEF Range
<1>4. IsInjective(q) /\ r \notin Range(q) => IsInjective(Push(q, r))
  BY <1>1, <1>2 DEF Range, IsInjective
<1> QED BY <1>1, <1>3, <1>4, Zenon

\* A successful PopIf removes the front, and a queue without duplicates no longer
\* holds it.
LEMMA TailFacts ==
    ASSUME NEW q \in Seq(Requests), q # << >>
    PROVE  /\ Tail(q) \in Seq(Requests)
           /\ Head(q) \in Requests /\ Head(q) \in Range(q) /\ Head(q) = q[1]
           /\ 1 \in DOMAIN q
           /\ Range(Tail(q)) \subseteq Range(q)
           /\ DOMAIN Tail(q) = 1..(Len(q) - 1)
           /\ \A i \in DOMAIN Tail(q) : Tail(q)[i] = q[i + 1] /\ i + 1 \in DOMAIN q
           /\ IsInjective(q) => IsInjective(Tail(q)) /\ Head(q) \notin Range(Tail(q))
PROOF
<1>1. /\ Tail(q) \in Seq(Requests) /\ Len(q) \in Nat \ {0}
      /\ Head(q) \in Requests /\ Head(q) = q[1]
      /\ DOMAIN q = 1..Len(q)
      /\ DOMAIN Tail(q) = 1..(Len(q) - 1)
      /\ \A i \in 1..(Len(q) - 1) : Tail(q)[i] = q[i + 1]
  OBVIOUS
<1>2. \A i \in DOMAIN Tail(q) : Tail(q)[i] = q[i + 1] /\ i + 1 \in DOMAIN q
  BY <1>1
<1>3. Range(Tail(q)) \subseteq Range(q) /\ Head(q) \in Range(q) /\ 1 \in DOMAIN q
  BY <1>1, <1>2 DEF Range
<1>4. IsInjective(q) => IsInjective(Tail(q)) /\ Head(q) \notin Range(Tail(q))
  BY <1>1, <1>2 DEF Range, IsInjective
<1> QED BY <1>1, <1>2, <1>3, <1>4, Zenon

\* The first report is recorded as it is, and nobody else's record changes.
LEMMA NotifyFacts ==
    ASSUME outcome \in [Requests -> Outcomes],
           NEW r \in Requests, NEW k \in Outcomes, Notify(r, k)
    PROVE  /\ outcome' \in [Requests -> Outcomes]
           /\ \A x \in Requests : x # r => outcome'[x] = outcome[x]
           /\ outcome[r] = "none" => outcome'[r] = k
PROOF BY Zenon DEF Notify, Outcomes

\* The initial state has the types.
LEMMA InitTypeOK == Init => TypeOK
PROOF
<1> SUFFICES ASSUME Init PROVE TypeOK
  BY Zenon
<1> USE ConstantsAssumption DEF Init
<1>1. requestQueue \in Seq(Requests) /\ outstanding \in Seq(Requests)
  OBVIOUS
<1>2. rd \in [Readers -> [pc : {"idle", "pop", "delete", "deliver"}, id : Requests \cup {None}]]
  BY Zenon
<1>3. /\ snd \in [Requests -> {"idle", "push", "rlock", "send", "accepted", "failed"}]
      /\ stop \in [Stoppers -> {"idle", "isRunning", "lock", "wait"}]
      /\ sent \in [Requests -> Nat]
      /\ outcome \in [Requests -> Outcomes]
  BY Zenon DEF Outcomes
<1>4. ctxDone \in SUBSET Cancelable
  BY Zenon
<1>5. DataTypes
  BY <1>1, <1>2, <1>3, <1>4, Zenon DEF DataTypes, PumpPC, Reasons
<1>6. FlagTypes /\ Hands
  BY Zenon DEF FlagTypes, Hands
<1> QED BY <1>5, <1>6, Zenon DEF TypeOK

\* Flags stay Boolean.
LEMMA FlagStep == FlagTypes /\ [Next]_vars => FlagTypes'
PROOF
<1> SUFFICES ASSUME FlagTypes, [Next]_vars PROVE FlagTypes'
  BY Zenon
<1> USE DEF FlagTypes, StopDrainReset, TimerArmDone
<1>1. CASE TimerFire
  BY <1>1, Zenon DEF TimerFire
<1>2. ASSUME NEW r \in Requests, CtxFire(r) PROVE FlagTypes'
  BY <1>2, Zenon DEF CtxFire
<1>3. ASSUME NEW r \in Requests, SendIsRunning(r) PROVE FlagTypes'
  BY <1>3, Zenon DEF SendIsRunning
<1>4. ASSUME NEW r \in Requests, SendPush(r) PROVE FlagTypes'
  BY <1>4, Zenon DEF SendPush
<1>5. ASSUME NEW r \in Requests, SendRLock(r) PROVE FlagTypes'
  BY <1>5, Zenon DEF SendRLock
<1>6. ASSUME NEW r \in Requests, SendPost(r) PROVE FlagTypes'
  BY <1>6, Zenon DEF SendPost
<1>7. ASSUME NEW p \in Readers, ReadReply(p) PROVE FlagTypes'
  BY <1>7, Zenon DEF ReadReply
<1>8. ASSUME NEW p \in Readers, ReadPop(p) PROVE FlagTypes'
  BY <1>8, Zenon DEF ReadPop
<1>9. ASSUME NEW p \in Readers, ReadDelete(p) PROVE FlagTypes'
  BY <1>9, Zenon DEF ReadDelete
<1>10. ASSUME NEW p \in Readers, ReadDeliver(p) PROVE FlagTypes'
  BY <1>10, Zenon DEF ReadDeliver
<1>11. CASE PumpReconcile
  BY <1>11, Zenon DEF PumpReconcile
<1>12. CASE PumpPosted
  BY <1>12, Zenon DEF PumpPosted
<1>13. CASE PumpClosed
  BY <1>13, Zenon DEF PumpClosed
<1>14. CASE PumpTick
  BY <1>14, Zenon DEF PumpTick
<1>15. CASE PumpReady
  BY <1>15, Zenon DEF PumpReady
<1>16. CASE PumpCtxDone
  BY <1>16, Zenon DEF PumpCtxDone
<1>17. CASE PumpExpired
  BY <1>17, Zenon DEF PumpExpired
<1>18. CASE PumpPeekExpired
  BY <1>18, Zenon DEF PumpPeekExpired
<1>19. CASE PumpPop
  BY <1>19, Zenon DEF PumpPop
<1>20. CASE PumpCancel
  BY <1>20, Zenon DEF PumpCancel
<1>21. CASE PumpCompleted
  BY <1>21, Zenon DEF PumpCompleted
<1>22. CASE PumpPausedCheck
  BY <1>22, Zenon DEF PumpPausedCheck
<1>23. CASE PumpDispatch
  BY <1>23, Zenon DEF PumpDispatch
<1>24. CASE PumpArm
  BY <1>24, Zenon DEF PumpArm
<1>25. CASE PumpClear
  BY <1>25, Zenon DEF PumpClear
<1>26. CASE PumpDrain
  BY <1>26, Zenon DEF PumpDrain
<1>27. CASE PumpExit
  BY <1>27, Zenon DEF PumpExit
<1>28. CASE Disconnected
  BY <1>28, Zenon DEF Disconnected
<1>29. CASE Pause
  BY <1>29, Zenon DEF Pause
<1>30. CASE Reconnected
  BY <1>30, Zenon DEF Reconnected
<1>31. CASE ResumeCheck
  BY <1>31, Zenon DEF ResumeCheck
<1>32. CASE ResumeRearm
  BY <1>32, Zenon DEF ResumeRearm
<1>33. CASE ResumeReady
  BY <1>33, Zenon DEF ResumeReady
<1>34. CASE ClientStart
  BY <1>34, Zenon DEF ClientStart
<1>35. CASE ClientStartWithRetries
  BY <1>35, Zenon DEF ClientStartWithRetries
<1>36. CASE Dialled
  BY <1>36, Zenon DEF Dialled
<1>37. CASE Start
  BY <1>37, Zenon DEF Start
<1>38. ASSUME NEW s \in Stoppers, ClientStop(s) PROVE FlagTypes'
  BY <1>38, Zenon DEF ClientStop
<1>39. ASSUME NEW s \in Stoppers, StopIsRunning(s) PROVE FlagTypes'
  BY <1>39, Zenon DEF StopIsRunning
<1>40. ASSUME NEW s \in Stoppers, StopClose(s) PROVE FlagTypes'
  BY <1>40, Zenon DEF StopClose
<1>41. ASSUME NEW s \in Stoppers, StopJoin(s) PROVE FlagTypes'
  BY <1>41, Zenon DEF StopJoin
<1>42. CASE UNCHANGED vars
  BY <1>42, Zenon DEF vars
<1> QED
  BY <1>1, <1>2, <1>3, <1>4, <1>5, <1>6, <1>7, <1>8, <1>9, <1>10, <1>11, <1>12,
     <1>13, <1>14, <1>15, <1>16, <1>17, <1>18, <1>19, <1>20, <1>21, <1>22, <1>23,
     <1>24, <1>25, <1>26, <1>27, <1>28, <1>29, <1>30, <1>31, <1>32, <1>33, <1>34,
     <1>35, <1>36, <1>37, <1>38, <1>39, <1>40, <1>41, <1>42, Zenon
     DEF Next, Send, Read, Pump, Hook, Stop, Finished

\* The other variables keep their types.
LEMMA DataStep == TypeOK /\ [Next]_vars => DataTypes'
PROOF
<1> SUFFICES ASSUME TypeOK, [Next]_vars PROVE DataTypes'
  BY Zenon
<1> USE ConstantsAssumption DEF TypeOK, DataTypes, PumpPC, Reasons, Outcomes
<1>1. CASE TimerFire
  BY <1>1 DEF TimerFire
<1>2. ASSUME NEW r \in Requests, CtxFire(r) PROVE DataTypes'
  BY <1>2 DEF CtxFire
<1>3. ASSUME NEW r \in Requests, SendIsRunning(r) PROVE DataTypes'
  BY <1>3 DEF SendIsRunning
<1>4. ASSUME NEW r \in Requests, SendPush(r) PROVE DataTypes'
  <2>1. requestQueue' \in Seq(Requests)
    <3>1. Push(requestQueue, r) \in Seq(Requests)
      BY PushFacts, Zenon
    <3> QED BY <1>4, <3>1, Zenon DEF SendPush
  <2>2. snd' \in [Requests -> {"idle", "push", "rlock", "send", "accepted", "failed"}]
    <3>1. /\ snd \in [Requests -> {"idle", "push", "rlock", "send", "accepted", "failed"}]
          /\ snd' \in {[snd EXCEPT ![r] = "failed"], [snd EXCEPT ![r] = "rlock"]}
      BY <1>4, Zenon DEF SendPush
    <3> HIDE DEF TypeOK, DataTypes
    <3> QED BY <3>1, Zenon
  <2> QED BY <1>4, <2>1, <2>2 DEF SendPush
<1>5. ASSUME NEW r \in Requests, SendRLock(r) PROVE DataTypes'
  BY <1>5 DEF SendRLock
<1>6. ASSUME NEW r \in Requests, SendPost(r) PROVE DataTypes'
  BY <1>6 DEF SendPost
<1>7. ASSUME NEW p \in Readers, ReadReply(p) PROVE DataTypes'
  BY <1>7 DEF ReadReply, HasPendingRequest
<1>8. ASSUME NEW p \in Readers, ReadPop(p) PROVE DataTypes'
  <2>1. requestQueue' \in Seq(Requests)
    BY <1>8, TailFacts, Zenon DEF ReadPop, PopIf, FrontIs, IsEmpty
  <2>2. CASE FrontIs(requestQueue, rd[p].id)
    <3>1. rd' = [rd EXCEPT ![p] = [pc |-> "delete", id |-> rd[p].id]]
      BY <1>8, <2>2, Zenon DEF ReadPop
    <3>2. rd' \in [Readers -> [pc : {"idle", "pop", "delete", "deliver"}, id : Requests \cup {None}]]
      BY <3>1, Zenon
    <3> QED BY <1>8, <2>1, <3>2 DEF ReadPop
  <2>3. CASE ~FrontIs(requestQueue, rd[p].id)
    <3>1. rd' = [rd EXCEPT ![p] = [pc |-> "idle", id |-> None]]
      BY <1>8, <2>3, Zenon DEF ReadPop
    <3> QED BY <1>8, <2>1, <3>1 DEF ReadPop
  <2> QED BY <2>2, <2>3, Zenon
<1>9. ASSUME NEW p \in Readers, ReadDelete(p) PROVE DataTypes'
  <2>1. rd' \in [Readers -> [pc : {"idle", "pop", "delete", "deliver"}, id : Requests \cup {None}]]
    <3>1. /\ rd \in [Readers -> [pc : {"idle", "pop", "delete", "deliver"}, id : Requests \cup {None}]]
          /\ rd' = [rd EXCEPT ![p].pc = "deliver"]
      BY <1>9, Zenon DEF ReadDelete
    <3> HIDE DEF TypeOK, DataTypes
    <3> QED BY <3>1, Zenon
  <2>2. pending' \in Requests \cup {None}
    BY <1>9, Zenon DEF ReadDelete, DeletePendingRequest
  <2> QED BY <1>9, <2>1, <2>2 DEF ReadDelete
<1>10. ASSUME NEW p \in Readers, ReadDeliver(p) PROVE DataTypes'
  <2>1. rd' \in [Readers -> [pc : {"idle", "pop", "delete", "deliver"}, id : Requests \cup {None}]]
    BY <1>10, Zenon DEF ReadDeliver
  <2>2. outcome' \in [Requests -> Outcomes]
    <3>1. rd[p].id \in Requests
      BY <1>10, Zenon DEF ReadDeliver, Hands
    <3> QED BY <1>10, <3>1, NotifyFacts, Zenon DEF ReadDeliver
  <2> QED BY <1>10, <2>1, <2>2 DEF ReadDeliver
<1>11. CASE PumpReconcile
  BY <1>11 DEF PumpReconcile
<1>12. CASE PumpPosted
  BY <1>12 DEF PumpPosted
<1>13. CASE PumpClosed
  BY <1>13 DEF PumpClosed, DrainAll
<1>14. CASE PumpTick
  BY <1>14 DEF PumpTick
<1>15. CASE PumpReady
  BY <1>15 DEF PumpReady
<1>16. CASE PumpCtxDone
  BY <1>16 DEF PumpCtxDone
<1>17. CASE PumpExpired
  BY <1>17 DEF PumpExpired, TimerArmDone
<1>18. CASE PumpPeekExpired
  BY <1>18, TailFacts DEF PumpPeekExpired, NoBundle, IsEmpty, Peek, TimerArmDone
<1>19. CASE PumpPop
  BY <1>19, TailFacts DEF PumpPop, PopIf, FrontIs, IsEmpty
<1>20. CASE PumpCancel
  <2>1. pending' \in Requests \cup {None} /\ pc' \in PumpPC
    BY <1>20, Zenon DEF PumpCancel, DeletePendingRequest
  <2>2. outcome' \in [Requests -> Outcomes]
    <3>1. cur \in Requests /\ (IF why = "drop" THEN "ctx" ELSE why) \in Outcomes
      BY <1>20, Zenon DEF PumpCancel, Hands
    <3> QED BY <1>20, <3>1, NotifyFacts, Zenon DEF PumpCancel
  <2> QED BY <1>20, <2>1, <2>2 DEF PumpCancel
<1>21. CASE PumpCompleted
  BY <1>21 DEF PumpCompleted, TimerArmDone, StopDrainReset
<1>22. CASE PumpPausedCheck
  BY <1>22 DEF PumpPausedCheck
<1>23. CASE PumpDispatch
  <2>1. CASE ~CanDispatch
    BY <1>23, <2>1 DEF PumpDispatch
  <2>2. CASE CanDispatch
    <3>1. cur' \in Requests
      BY <1>23, <2>2, TailFacts DEF PumpDispatch, CanDispatch, IsEmpty, Peek
    <3>2. pending' \in Requests \cup {None}
      BY <1>23, <2>2, <3>1, Zenon DEF PumpDispatch, AddPendingRequest
    <3>3. sent' = sent \/ sent' = [sent EXCEPT ![cur'] = @ + 1]
      BY <1>23, <2>2, Zenon DEF PumpDispatch
    <3>4. sent' \in [Requests -> Nat]
      <4>1. sent \in [Requests -> Nat]
        BY Zenon
      <4> HIDE DEF TypeOK, DataTypes
      <4> QED BY <3>1, <3>3, <4>1
    <3>5. pc' \in PumpPC /\ why' \in Reasons \cup {"none"}
      BY <1>23, <2>2, Zenon DEF PumpDispatch
    <3> QED BY <1>23, <3>1, <3>2, <3>4, <3>5 DEF PumpDispatch
  <2> QED BY <2>1, <2>2, Zenon
<1>24. CASE PumpArm
  BY <1>24 DEF PumpArm, StopDrainReset
<1>25. CASE PumpClear
  BY <1>25 DEF PumpClear
<1>26. CASE PumpDrain
  BY <1>26 DEF PumpDrain
<1>27. CASE PumpExit
  BY <1>27 DEF PumpExit
<1>28. CASE Disconnected
  BY <1>28 DEF Disconnected
<1>29. CASE Pause
  BY <1>29 DEF Pause, StopDrainReset
<1>30. CASE Reconnected
  BY <1>30 DEF Reconnected
<1>31. CASE ResumeCheck
  BY <1>31 DEF ResumeCheck
<1>32. CASE ResumeRearm
  BY <1>32 DEF ResumeRearm, StopDrainReset
<1>33. CASE ResumeReady
  BY <1>33 DEF ResumeReady
<1>34. CASE ClientStart
  BY <1>34 DEF ClientStart
<1>35. CASE ClientStartWithRetries
  BY <1>35 DEF ClientStartWithRetries
<1>36. CASE Dialled
  BY <1>36 DEF Dialled
<1>37. CASE Start
  BY <1>37, Zenon DEF Start
<1>38. ASSUME NEW s \in Stoppers, ClientStop(s) PROVE DataTypes'
  BY <1>38 DEF ClientStop
<1>39. ASSUME NEW s \in Stoppers, StopIsRunning(s) PROVE DataTypes'
  BY <1>39 DEF StopIsRunning
<1>40. ASSUME NEW s \in Stoppers, StopClose(s) PROVE DataTypes'
  <2>1. requestChannel' \in {"nil", "open", "closed"}
    BY <1>40, Zenon DEF StopClose
  <2>2. stop' \in [Stoppers -> {"idle", "isRunning", "lock", "wait"}]
    <3>1. /\ stop \in [Stoppers -> {"idle", "isRunning", "lock", "wait"}]
          /\ stop' \in {[stop EXCEPT ![s] = "wait"], [stop EXCEPT ![s] = "idle"]}
      BY <1>40, Zenon DEF StopClose
    <3> HIDE DEF TypeOK, DataTypes
    <3> QED BY <3>1, Zenon
  <2> QED BY <1>40, <2>1, <2>2 DEF StopClose
<1>41. ASSUME NEW s \in Stoppers, StopJoin(s) PROVE DataTypes'
  BY <1>41 DEF StopJoin
<1>42. CASE UNCHANGED vars
  BY <1>42 DEF vars
<1> QED
  BY <1>1, <1>2, <1>3, <1>4, <1>5, <1>6, <1>7, <1>8, <1>9, <1>10, <1>11, <1>12,
     <1>13, <1>14, <1>15, <1>16, <1>17, <1>18, <1>19, <1>20, <1>21, <1>22, <1>23,
     <1>24, <1>25, <1>26, <1>27, <1>28, <1>29, <1>30, <1>31, <1>32, <1>33, <1>34,
     <1>35, <1>36, <1>37, <1>38, <1>39, <1>40, <1>41, <1>42, Zenon
     DEF Next, Send, Read, Pump, Hook, Stop, Finished

\* Nobody handles the nil element of an empty queue.
LEMMA HandStep == TypeOK /\ [Next]_vars => Hands'
PROOF
<1> SUFFICES ASSUME TypeOK, [Next]_vars PROVE Hands'
  BY Zenon
<1> USE ConstantsAssumption DEF TypeOK, DataTypes, Hands, PumpPC
<1>1. CASE TimerFire
  BY <1>1, Zenon DEF TimerFire
<1>2. ASSUME NEW r \in Requests, CtxFire(r) PROVE Hands'
  BY <1>2, Zenon DEF CtxFire
<1>3. ASSUME NEW r \in Requests, SendIsRunning(r) PROVE Hands'
  BY <1>3, Zenon DEF SendIsRunning
<1>4. ASSUME NEW r \in Requests, SendPush(r) PROVE Hands'
  BY <1>4, PushFacts, Zenon DEF SendPush
<1>5. ASSUME NEW r \in Requests, SendRLock(r) PROVE Hands'
  BY <1>5, Zenon DEF SendRLock
<1>6. ASSUME NEW r \in Requests, SendPost(r) PROVE Hands'
  BY <1>6, Zenon DEF SendPost
<1>7. ASSUME NEW p \in Readers, ReadReply(p) PROVE Hands'
  BY <1>7, Zenon DEF ReadReply, HasPendingRequest
<1>8. ASSUME NEW p \in Readers, ReadPop(p) PROVE Hands'
  BY <1>8, TailFacts DEF ReadPop, PopIf, FrontIs, IsEmpty
<1>9. ASSUME NEW p \in Readers, ReadDelete(p) PROVE Hands'
  BY <1>9, Zenon DEF ReadDelete, DeletePendingRequest
<1>10. ASSUME NEW p \in Readers, ReadDeliver(p) PROVE Hands'
  BY <1>10, Zenon DEF ReadDeliver, Notify
<1>11. CASE PumpReconcile
  BY <1>11, Zenon DEF PumpReconcile
<1>12. CASE PumpPosted
  BY <1>12, Zenon DEF PumpPosted
<1>13. CASE PumpClosed
  BY <1>13, Zenon DEF PumpClosed, DrainAll
<1>14. CASE PumpTick
  BY <1>14, Zenon DEF PumpTick
<1>15. CASE PumpReady
  BY <1>15, Zenon DEF PumpReady
<1>16. CASE PumpCtxDone
  BY <1>16, Zenon DEF PumpCtxDone
<1>17. CASE PumpExpired
  BY <1>17, Zenon DEF PumpExpired, TimerArmDone
<1>18. CASE PumpPeekExpired
  BY <1>18, TailFacts DEF PumpPeekExpired, NoBundle, IsEmpty, Peek, TimerArmDone
<1>19. CASE PumpPop
  BY <1>19, TailFacts, Zenon DEF PumpPop, PopIf, FrontIs, IsEmpty
<1>20. CASE PumpCancel
  BY <1>20, Zenon DEF PumpCancel, DeletePendingRequest, Notify
<1>21. CASE PumpCompleted
  BY <1>21, Zenon DEF PumpCompleted, TimerArmDone, StopDrainReset
<1>22. CASE PumpPausedCheck
  BY <1>22, Zenon DEF PumpPausedCheck
<1>23. CASE PumpDispatch
  BY <1>23, TailFacts DEF PumpDispatch, CanDispatch, IsEmpty, Peek, AddPendingRequest, HasPendingRequest
<1>24. CASE PumpArm
  BY <1>24, Zenon DEF PumpArm, StopDrainReset
<1>25. CASE PumpClear
  BY <1>25, Zenon DEF PumpClear
<1>26. CASE PumpDrain
  BY <1>26, Zenon DEF PumpDrain
<1>27. CASE PumpExit
  BY <1>27, Zenon DEF PumpExit
<1>28. CASE Disconnected
  BY <1>28, Zenon DEF Disconnected
<1>29. CASE Pause
  BY <1>29, Zenon DEF Pause, StopDrainReset
<1>30. CASE Reconnected
  BY <1>30, Zenon DEF Reconnected
<1>31. CASE ResumeCheck
  BY <1>31, Zenon DEF ResumeCheck
<1>32. CASE ResumeRearm
  BY <1>32, Zenon DEF ResumeRearm, StopDrainReset
<1>33. CASE ResumeReady
  BY <1>33, Zenon DEF ResumeReady
<1>34. CASE ClientStart
  BY <1>34, Zenon DEF ClientStart
<1>35. CASE ClientStartWithRetries
  BY <1>35, Zenon DEF ClientStartWithRetries
<1>36. CASE Dialled
  BY <1>36, Zenon DEF Dialled
<1>37. CASE Start
  BY <1>37, Zenon DEF Start
<1>38. ASSUME NEW s \in Stoppers, ClientStop(s) PROVE Hands'
  BY <1>38, Zenon DEF ClientStop
<1>39. ASSUME NEW s \in Stoppers, StopIsRunning(s) PROVE Hands'
  BY <1>39, Zenon DEF StopIsRunning
<1>40. ASSUME NEW s \in Stoppers, StopClose(s) PROVE Hands'
  BY <1>40, Zenon DEF StopClose
<1>41. ASSUME NEW s \in Stoppers, StopJoin(s) PROVE Hands'
  BY <1>41, Zenon DEF StopJoin
<1>42. CASE UNCHANGED vars
  BY <1>42, Zenon DEF vars
<1> QED
  BY <1>1, <1>2, <1>3, <1>4, <1>5, <1>6, <1>7, <1>8, <1>9, <1>10, <1>11, <1>12,
     <1>13, <1>14, <1>15, <1>16, <1>17, <1>18, <1>19, <1>20, <1>21, <1>22, <1>23,
     <1>24, <1>25, <1>26, <1>27, <1>28, <1>29, <1>30, <1>31, <1>32, <1>33, <1>34,
     <1>35, <1>36, <1>37, <1>38, <1>39, <1>40, <1>41, <1>42, Zenon
     DEF Next, Send, Read, Pump, Hook, Stop, Finished

\* Session is inductive.
LEMMA SessionStep == TypeOK /\ Session /\ [Next]_vars => Session'
PROOF
<1> SUFFICES ASSUME TypeOK, Session, [Next]_vars PROVE Session'
  BY Zenon
<1> USE ConstantsAssumption
    DEF TypeOK, DataTypes, PumpPC, Session, SendOnOpenChannel, CanLock, Quiescent
<1>1. CASE TimerFire
  BY <1>1, Zenon DEF TimerFire
<1>2. ASSUME NEW r \in Requests, CtxFire(r) PROVE Session'
  BY <1>2, Zenon DEF CtxFire
<1>3. ASSUME NEW r \in Requests, SendIsRunning(r) PROVE Session'
  BY <1>3, Zenon DEF SendIsRunning
<1>4. ASSUME NEW r \in Requests, SendPush(r) PROVE Session'
  BY <1>4 DEF SendPush
<1>5. ASSUME NEW r \in Requests, SendRLock(r) PROVE Session'
  BY <1>5, Zenon DEF SendRLock
<1>6. ASSUME NEW r \in Requests, SendPost(r) PROVE Session'
  BY <1>6, Zenon DEF SendPost
<1>7. ASSUME NEW p \in Readers, ReadReply(p) PROVE Session'
  BY <1>7, Zenon DEF ReadReply, HasPendingRequest
<1>8. ASSUME NEW p \in Readers, ReadPop(p) PROVE Session'
  BY <1>8, Zenon DEF ReadPop, FrontIs, IsEmpty
<1>9. ASSUME NEW p \in Readers, ReadDelete(p) PROVE Session'
  BY <1>9, Zenon DEF ReadDelete
<1>10. ASSUME NEW p \in Readers, ReadDeliver(p) PROVE Session'
  BY <1>10, Zenon DEF ReadDeliver
<1>11. CASE PumpReconcile
  BY <1>11, Zenon DEF PumpReconcile
<1>12. CASE PumpPosted
  BY <1>12, Zenon DEF PumpPosted
<1>13. CASE PumpClosed
  BY <1>13, Zenon DEF PumpClosed, DrainAll
<1>14. CASE PumpTick
  BY <1>14, Zenon DEF PumpTick
<1>15. CASE PumpReady
  BY <1>15, Zenon DEF PumpReady
<1>16. CASE PumpCtxDone
  BY <1>16, Zenon DEF PumpCtxDone
<1>17. CASE PumpExpired
  BY <1>17, Zenon DEF PumpExpired, TimerArmDone
<1>18. CASE PumpPeekExpired
  BY <1>18, Zenon DEF PumpPeekExpired, NoBundle, IsEmpty, TimerArmDone
<1>19. CASE PumpPop
  BY <1>19, Zenon DEF PumpPop, FrontIs, IsEmpty
<1>20. CASE PumpCancel
  BY <1>20, Zenon DEF PumpCancel
<1>21. CASE PumpCompleted
  BY <1>21, Zenon DEF PumpCompleted, TimerArmDone, StopDrainReset
<1>22. CASE PumpPausedCheck
  BY <1>22, Zenon DEF PumpPausedCheck
<1>23. CASE PumpDispatch
  BY <1>23, Zenon DEF PumpDispatch, CanDispatch, IsEmpty, HasPendingRequest
<1>24. CASE PumpArm
  BY <1>24, Zenon DEF PumpArm, StopDrainReset
<1>25. CASE PumpClear
  BY <1>25, Zenon DEF PumpClear
<1>26. CASE PumpDrain
  BY <1>26, Zenon DEF PumpDrain
<1>27. CASE PumpExit
  BY <1>27, Zenon DEF PumpExit
<1>28. CASE Disconnected
  BY <1>28, Zenon DEF Disconnected
<1>29. CASE Pause
  BY <1>29, Zenon DEF Pause, StopDrainReset
<1>30. CASE Reconnected
  BY <1>30, Zenon DEF Reconnected
<1>31. CASE ResumeCheck
  BY <1>31, Zenon DEF ResumeCheck
<1>32. CASE ResumeRearm
  BY <1>32, Zenon DEF ResumeRearm, StopDrainReset
<1>33. CASE ResumeReady
  BY <1>33, Zenon DEF ResumeReady
<1>34. CASE ClientStart
  BY <1>34, Zenon DEF ClientStart
<1>35. CASE ClientStartWithRetries
  BY <1>35, Zenon DEF ClientStartWithRetries
<1>36. CASE Dialled
  BY <1>36, Zenon DEF Dialled
<1>37. CASE Start
  BY <1>37, Zenon DEF Start
<1>38. ASSUME NEW s \in Stoppers, ClientStop(s) PROVE Session'
  BY <1>38, Zenon DEF ClientStop
<1>39. ASSUME NEW s \in Stoppers, StopIsRunning(s) PROVE Session'
  BY <1>39, Zenon DEF StopIsRunning
<1>40. ASSUME NEW s \in Stoppers, StopClose(s) PROVE Session'
  BY <1>40, Zenon DEF StopClose
<1>41. ASSUME NEW s \in Stoppers, StopJoin(s) PROVE Session'
  BY <1>41, Zenon DEF StopJoin
<1>42. CASE UNCHANGED vars
  BY <1>42, Zenon DEF vars
<1> QED
  BY <1>1, <1>2, <1>3, <1>4, <1>5, <1>6, <1>7, <1>8, <1>9, <1>10, <1>11, <1>12,
     <1>13, <1>14, <1>15, <1>16, <1>17, <1>18, <1>19, <1>20, <1>21, <1>22, <1>23,
     <1>24, <1>25, <1>26, <1>27, <1>28, <1>29, <1>30, <1>31, <1>32, <1>33, <1>34,
     <1>35, <1>36, <1>37, <1>38, <1>39, <1>40, <1>41, <1>42, Zenon
     DEF Next, Send, Read, Pump, Hook, Stop, Finished

-----------------------------------------------------------------------------
(* Ownership: every request is in at most one hand *)

\* What the steps below need to know about types.
LEMMA Typed ==
    ASSUME TypeOK
    PROVE  /\ requestQueue \in Seq(Requests) /\ outstanding \in Seq(Requests)
           /\ outcome \in [Requests -> Outcomes]
           /\ Range(requestQueue) \subseteq Requests
           /\ Range(outstanding) \subseteq Requests
           /\ Claimed \subseteq Requests
PROOF
<1>1. /\ requestQueue \in Seq(Requests) /\ outstanding \in Seq(Requests)
      /\ outcome \in [Requests -> Outcomes]
  BY Zenon DEF TypeOK, DataTypes
<1>2. Range(requestQueue) \subseteq Requests /\ Range(outstanding) \subseteq Requests
  BY <1>1 DEF Range
<1> QED BY <1>1, <1>2, Zenon DEF Claimed

\* A step that moves no request between hands preserves Ownership.
LEMMA OwnershipFrame ==
    ASSUME TypeOK, Ownership,
           UNCHANGED <<requestQueue, outstanding, outcome>>,
           \A r \in Requests : Fresh(r)' => Fresh(r),
           \A r \in Requests : Fresh(r) => sent'[r] = sent[r],
           \A r \in Requests : PumpOwns(r)' <=> PumpOwns(r),
           \A r \in Requests, p \in Readers : ReaderOwns(p, r)' <=> ReaderOwns(p, r),
           outstanding # << >> => pc' \in {"clear", "drain"}
    PROVE  Ownership'
PROOF
<1>1. Range(requestQueue) \subseteq Requests /\ Range(outstanding) \subseteq Requests
  BY Typed, Zenon
<1>2. Claimed' = Claimed /\ Claimed \subseteq Requests
  BY Zenon DEF Claimed
<1>3. IsInjective(requestQueue')
  BY Zenon DEF Ownership, IsInjective
<1> QED BY <1>1, <1>2, <1>3, Zenon DEF Ownership, SingleOutcome

\* The steps of the timer, the contexts, the hooks and the callers of Start and Stop.
LEMMA OwnershipQuiet ==
    ASSUME TypeOK, Ownership,
           UNCHANGED <<requestQueue, outstanding, outcome, sent, rd, snd, cur, pc>>
    PROVE  Ownership'
PROOF
<1>1. /\ \A r \in Requests : (Fresh(r)' <=> Fresh(r)) /\ (PumpOwns(r)' <=> PumpOwns(r))
      /\ \A r \in Requests, p \in Readers : ReaderOwns(p, r)' <=> ReaderOwns(p, r)
  BY Zenon DEF Fresh, PumpOwns, ReaderOwns
<1>2. outstanding # << >> => pc' \in {"clear", "drain"}
  BY Zenon DEF Ownership
<1> QED BY <1>1, <1>2, OwnershipFrame, Zenon

\* The steps of the pump that complete no request.
LEMMA OwnershipPump ==
    ASSUME TypeOK, Ownership,
           UNCHANGED <<requestQueue, outstanding, outcome, sent, rd, snd>>,
           pc \notin {"cancel", "clear", "drain"}, pc' # "cancel"
    PROVE  Ownership'
PROOF
<1>1. /\ \A r \in Requests : (Fresh(r)' <=> Fresh(r)) /\ (PumpOwns(r)' <=> PumpOwns(r))
      /\ \A r \in Requests, p \in Readers : ReaderOwns(p, r)' <=> ReaderOwns(p, r)
  BY Zenon DEF Fresh, PumpOwns, ReaderOwns
<1>2. outstanding = << >>
  BY Zenon DEF Ownership
<1> QED BY <1>1, <1>2, OwnershipFrame, Zenon

\* Push takes a request from its sender's hands into the queue.
LEMMA OwnershipPush ==
    ASSUME TypeOK, Ownership, NEW r \in Requests, Fresh(r),
           requestQueue' = Push(requestQueue, r),
           UNCHANGED <<outstanding, outcome, sent, pc>>,
           \A x \in Requests : Fresh(x)' => Fresh(x) /\ x # r,
           \A x \in Requests : PumpOwns(x)' <=> PumpOwns(x),
           \A x \in Requests, p \in Readers : ReaderOwns(p, x)' <=> ReaderOwns(p, x)
    PROVE  Ownership'
PROOF
<1>1. /\ Range(requestQueue) \subseteq Requests /\ Range(outstanding) \subseteq Requests
      /\ Claimed \subseteq Requests /\ requestQueue \in Seq(Requests)
  BY Typed, Zenon
<1>2. Claimed' = Claimed
  BY Zenon DEF Claimed
<1>3. r \notin Range(requestQueue) /\ r \notin Claimed /\ outcome[r] = "none"
  BY Zenon DEF Ownership
<1>4. IsInjective(requestQueue)
  BY Zenon DEF Ownership
<1>5. /\ Range(Push(requestQueue, r)) = Range(requestQueue) \cup {r}
      /\ IsInjective(Push(requestQueue, r))
  BY <1>1, <1>3, <1>4, PushFacts, Zenon
<1>a. Range(requestQueue') = Range(requestQueue) \cup {r}
  BY <1>5, Zenon
<1>6. IsInjective(requestQueue')
  BY <1>5, Zenon DEF IsInjective
<1>7. \A x \in Range(requestQueue') : ~Fresh(x)' /\ x \notin Claimed' /\ outcome'[x] = "none"
  BY <1>1, <1>2, <1>3, <1>a, Zenon DEF Ownership
<1>8. \A x \in Claimed' : ~Fresh(x)' /\ outcome'[x] = "none"
  BY <1>1, <1>2, Zenon DEF Ownership
<1>9. \A x \in Range(outstanding'), p \in Readers : ~ReaderOwns(p, x)'
  BY <1>1, Zenon DEF Ownership
<1> QED BY <1>6, <1>7, <1>8, <1>9, Zenon DEF Ownership, SingleOutcome

\* A won PopIf takes the front of the queue into the winner's hands.
LEMMA OwnershipClaim ==
    ASSUME TypeOK, Ownership, requestQueue # << >>, NEW r, r = Head(requestQueue),
           requestQueue' = Tail(requestQueue),
           UNCHANGED <<outstanding, outcome, sent>>,
           outstanding # << >> => pc' \in {"clear", "drain"},
           \A x \in Requests : Fresh(x)' <=> Fresh(x),
           \A x \in Requests \ {r} : PumpOwns(x)' <=> PumpOwns(x),
           \A x \in Requests \ {r}, p \in Readers : ReaderOwns(p, x)' <=> ReaderOwns(p, x),
           \A p \in Readers : ReaderOwns(p, r)' => ~PumpOwns(r)',
           \A p, q \in Readers : ReaderOwns(p, r)' /\ ReaderOwns(q, r)' => p = q,
           PumpOwns(r)' \/ \E p \in Readers : ReaderOwns(p, r)'
    PROVE  Ownership' /\ Claimed' = Claimed \cup {r}
PROOF
<1>1. /\ Range(requestQueue) \subseteq Requests /\ Range(outstanding) \subseteq Requests
      /\ Claimed \subseteq Requests /\ requestQueue \in Seq(Requests)
  BY Typed, Zenon
<1>2. IsInjective(requestQueue)
  BY Zenon DEF Ownership
<1>3. /\ r \in Requests /\ r \in Range(requestQueue) /\ r \notin Range(Tail(requestQueue))
      /\ Range(requestQueue') \subseteq Range(requestQueue)
      /\ IsInjective(Tail(requestQueue))
  BY <1>1, <1>2, TailFacts, Zenon
<1>4. IsInjective(requestQueue')
  BY <1>3, Zenon DEF IsInjective
<1>5. r \notin Claimed /\ outcome[r] = "none" /\ ~Fresh(r)
  BY <1>3, Zenon DEF Ownership
<1>6. Claimed' = Claimed \cup {r}
  BY <1>3, <1>5, Zenon DEF Claimed
<1>7. r \notin Range(outstanding)
  BY <1>1, <1>5, Zenon DEF Claimed
<1>8. \A x \in Range(requestQueue') : ~Fresh(x)' /\ x \notin Claimed' /\ outcome'[x] = "none"
  BY <1>1, <1>3, <1>6, Zenon DEF Ownership
<1>9. \A x \in Claimed' : ~Fresh(x)' /\ outcome'[x] = "none"
  BY <1>1, <1>3, <1>5, <1>6 DEF Ownership
<1>10. \A x \in Range(outstanding'), p \in Readers : ~ReaderOwns(p, x)'
  BY <1>1, <1>7, Zenon DEF Ownership
<1>11. \A x \in Requests, p \in Readers : ReaderOwns(p, x)' => ~PumpOwns(x)'
  BY DEF Ownership
<1>12. \A x \in Requests, p, q \in Readers : ReaderOwns(p, x)' /\ ReaderOwns(q, x)' => p = q
  BY DEF Ownership
<1>13. \A x \in Requests : Fresh(x)' => outcome'[x] = "none" /\ sent'[x] = 0
  BY Zenon DEF Ownership
<1> QED BY <1>4, <1>6, <1>8, <1>9, <1>10, <1>11, <1>12, <1>13, Zenon DEF Ownership, SingleOutcome

\* Reporting a claimed request takes it out of its owner's hands for good.
LEMMA OwnershipSettle ==
    ASSUME TypeOK, Ownership, NEW r \in Requests, NEW k \in Outcomes \ {"none", "twice"},
           PumpOwns(r) \/ \E p \in Readers : ReaderOwns(p, r),
           Notify(r, k),
           UNCHANGED <<requestQueue, outstanding, sent>>,
           outstanding # << >> => pc' \in {"clear", "drain"},
           r \notin Range(outstanding),
           \A x \in Requests : Fresh(x)' <=> Fresh(x),
           \A x \in Requests : PumpOwns(x)' <=> PumpOwns(x) /\ x # r,
           \A x \in Requests, p \in Readers : ReaderOwns(p, x)' <=> ReaderOwns(p, x) /\ x # r
    PROVE  Ownership' /\ Claimed' = Claimed \ {r} /\ r \in Claimed
PROOF
<1>1. /\ Range(requestQueue) \subseteq Requests /\ Range(outstanding) \subseteq Requests
      /\ Claimed \subseteq Requests /\ outcome \in [Requests -> Outcomes]
  BY Typed, Zenon
<1>2. r \in Claimed
  BY Zenon DEF Claimed
<1>3. ~Fresh(r) /\ outcome[r] = "none"
  BY <1>2, Zenon DEF Ownership
<1>4. outcome'[r] = k /\ \A x \in Requests : x # r => outcome'[x] = outcome[x]
  BY <1>1, <1>3, NotifyFacts, Zenon
<1>5. Claimed' = Claimed \ {r}
  BY Zenon DEF Claimed
<1>6. IsInjective(requestQueue')
  BY Zenon DEF Ownership, IsInjective
<1>7. \A x \in Range(requestQueue') : ~Fresh(x)' /\ x \notin Claimed' /\ outcome'[x] = "none"
  BY <1>1, <1>2, <1>4, <1>5, Zenon DEF Ownership
<1>8. \A x \in Claimed' : ~Fresh(x)' /\ outcome'[x] = "none"
  BY <1>1, <1>4, <1>5, Zenon DEF Ownership
<1>9. \A x \in Range(outstanding'), p \in Readers : ~ReaderOwns(p, x)'
  BY <1>1, Zenon DEF Ownership
<1>10. \A x \in Requests : Fresh(x)' => outcome'[x] = "none" /\ sent'[x] = 0
  BY <1>3, <1>4, Zenon DEF Ownership
<1>11. SingleOutcome'
  BY <1>4, Zenon DEF Ownership, SingleOutcome
<1>12. /\ \A x \in Requests, p \in Readers : ReaderOwns(p, x)' => ~PumpOwns(x)'
       /\ \A x \in Requests, p, q \in Readers : ReaderOwns(p, x)' /\ ReaderOwns(q, x)' => p = q
  BY Zenon DEF Ownership
<1> QED BY <1>2, <1>5, <1>6, <1>7, <1>8, <1>9, <1>10, <1>11, <1>12, Zenon DEF Ownership

\* DrainAll takes the whole queue into the hands of the stop arm.
LEMMA OwnershipDrainAll ==
    ASSUME TypeOK, Ownership, outstanding = << >>,
           requestQueue' = << >>, outstanding' = requestQueue, pc' = "clear",
           UNCHANGED <<rd, snd, outcome, sent>>,
           \A x \in Requests : ~PumpOwns(x)
    PROVE  Ownership' /\ Claimed' = Claimed \cup Range(requestQueue)
PROOF
<1>1. Range(requestQueue) \subseteq Requests /\ Claimed \subseteq Requests
  BY Typed, Zenon
<1>2. Range(<< >>) = {} /\ IsInjective(<< >>)
  BY DEF Range, IsInjective
<1>3. /\ \A x \in Requests : ~PumpOwns(x)' /\ (Fresh(x)' <=> Fresh(x))
      /\ \A x \in Requests, p \in Readers : ReaderOwns(p, x)' <=> ReaderOwns(p, x)
  BY Zenon DEF PumpOwns, Fresh, ReaderOwns
<1>4. Claimed' = Claimed \cup Range(requestQueue)
  BY <1>1, <1>2, <1>3, Zenon DEF Claimed
<1>5. \A x \in Claimed' : ~Fresh(x)' /\ outcome'[x] = "none"
  BY <1>1, <1>3, <1>4, Zenon DEF Ownership
<1>6. \A x \in Range(outstanding'), p \in Readers : ~ReaderOwns(p, x)'
  BY <1>1, <1>3, Zenon DEF Ownership, Claimed
<1>7. IsInjective(requestQueue') /\ Range(requestQueue') = {}
  BY <1>2, Zenon DEF IsInjective, Range
<1>8. \A x \in Requests, p, q \in Readers : ReaderOwns(p, x)' /\ ReaderOwns(q, x)' => p = q
  BY <1>3, Zenon DEF Ownership
<1>9. \A x \in Requests : Fresh(x)' => outcome'[x] = "none" /\ sent'[x] = 0
  BY <1>3, Zenon DEF Ownership
<1> QED BY <1>3, <1>4, <1>5, <1>6, <1>7, <1>8, <1>9, Zenon DEF Ownership, SingleOutcome

\* The stop arm reports what it drained and empties the queue again.
LEMMA OwnershipDrain ==
    ASSUME TypeOK, Ownership, PumpDrain
    PROVE  /\ Ownership' /\ Claimed' = Claimed \ Range(outstanding)
           /\ \A x \in Requests : IF x \in Range(outstanding) THEN outcome'[x] = "stopped"
                                                         ELSE outcome'[x] = outcome[x]
PROOF
<1>1. /\ Range(requestQueue) \subseteq Requests /\ Range(outstanding) \subseteq Requests
      /\ Claimed \subseteq Requests
  BY Typed, Zenon
<1>2. Range(<< >>) = {} /\ IsInjective(<< >>)
  BY DEF Range, IsInjective
<1>3. requestQueue' = << >> /\ outstanding' = << >> /\ UNCHANGED <<rd, snd, sent>>
  BY Zenon DEF PumpDrain
<1>4. /\ \A x \in Requests : ~PumpOwns(x) /\ ~PumpOwns(x)' /\ (Fresh(x)' <=> Fresh(x))
      /\ \A x \in Requests, p \in Readers : ReaderOwns(p, x)' <=> ReaderOwns(p, x)
  BY <1>3, Zenon DEF PumpDrain, PumpOwns, Fresh, ReaderOwns
<1>5. \A x \in Range(outstanding) : x \in Claimed /\ outcome[x] = "none" /\ ~Fresh(x)
  BY <1>1, Zenon DEF Claimed, Ownership
<1>6. \A x \in Requests : IF x \in Range(outstanding) THEN outcome'[x] = "stopped"
                                                 ELSE outcome'[x] = outcome[x]
  BY <1>5, Zenon DEF PumpDrain
<1>7. Claimed' = Claimed \ Range(outstanding)
  <2>1. \A x \in Range(outstanding), p \in Readers : ~ReaderOwns(p, x)
    BY Zenon DEF Ownership
  <2> QED BY <1>2, <1>3, <1>4, <2>1, Zenon DEF Claimed
<1>8. IsInjective(requestQueue') /\ Range(requestQueue') = {} /\ Range(outstanding') = {}
  BY <1>2, <1>3, Zenon DEF IsInjective, Range
<1>9. \A x \in Claimed' : ~Fresh(x)' /\ outcome'[x] = "none"
  BY <1>1, <1>4, <1>6, <1>7, Zenon DEF Ownership
<1>10. \A x \in Requests : Fresh(x)' => outcome'[x] = "none" /\ sent'[x] = 0
  BY <1>3, <1>4, <1>5, <1>6, Zenon DEF Ownership
<1>11. SingleOutcome'
  BY <1>6, Zenon DEF Ownership, SingleOutcome
<1>12. \A x \in Requests, p, q \in Readers : ReaderOwns(p, x)' /\ ReaderOwns(q, x)' => p = q
  BY <1>4, Zenon DEF Ownership
<1> QED BY <1>3, <1>4, <1>6, <1>7, <1>8, <1>9, <1>10, <1>11, <1>12, Zenon DEF Ownership

\* Ownership is inductive.
LEMMA OwnershipStep == TypeOK /\ Session /\ Ownership /\ [Next]_vars => Ownership'
PROOF
<1> SUFFICES ASSUME TypeOK, Session, Ownership, [Next]_vars PROVE Ownership'
  BY Zenon
<1>0. snd \in [Requests -> {"idle", "push", "rlock", "send", "accepted", "failed"}]
  BY Zenon DEF TypeOK, DataTypes
<1>R. rd \in [Readers -> [pc : {"idle", "pop", "delete", "deliver"}, id : Requests \cup {None}]]
  BY Zenon DEF TypeOK, DataTypes
<1>P. outstanding # << >> => pc \in {"clear", "drain"}
  BY Zenon DEF Ownership
<1>1. CASE TimerFire
  BY <1>1, OwnershipQuiet, Zenon DEF TimerFire
<1>2. ASSUME NEW r \in Requests, CtxFire(r) PROVE Ownership'
  BY <1>2, OwnershipQuiet, Zenon DEF CtxFire
<1>3. ASSUME NEW r \in Requests, SendIsRunning(r) PROVE Ownership'
  <2>1. /\ UNCHANGED <<requestQueue, outstanding, outcome, sent, rd, cur, pc>>
        /\ \A x \in Requests : Fresh(x)' => Fresh(x)
    BY <1>3, <1>0, Zenon DEF SendIsRunning, Fresh
  <2>2. /\ \A x \in Requests : PumpOwns(x)' <=> PumpOwns(x)
        /\ \A x \in Requests, p \in Readers : ReaderOwns(p, x)' <=> ReaderOwns(p, x)
    BY <2>1, Zenon DEF PumpOwns, ReaderOwns
  <2> QED BY <2>1, <2>2, <1>P, OwnershipFrame, Zenon
<1>4. ASSUME NEW r \in Requests, SendPush(r) PROVE Ownership'
  <2>1. /\ UNCHANGED <<outstanding, outcome, sent, pc, cur, rd>>
        /\ snd[r] = "push" /\ snd' = [snd EXCEPT ![r] = snd'[r]]
        /\ snd'[r] \in {"failed", "rlock"}
    BY <1>4, <1>0, Zenon DEF SendPush
  <2>2. \A x \in Requests : Fresh(x)' => Fresh(x) /\ x # r
    BY <1>0, <2>1, Zenon DEF Fresh
  <2>3. \A x \in Requests : PumpOwns(x)' <=> PumpOwns(x)
    BY <2>1, Zenon DEF PumpOwns
  <2>4. \A x \in Requests, p \in Readers : ReaderOwns(p, x)' <=> ReaderOwns(p, x)
    BY <2>1, Zenon DEF ReaderOwns
  <2>5. CASE requestQueue' = requestQueue
    BY <2>1, <2>2, <2>3, <2>4, <2>5, <1>P, OwnershipFrame, Zenon
  <2>6. CASE requestQueue' = Push(requestQueue, r)
    BY <2>1, <2>2, <2>3, <2>4, <2>6, OwnershipPush, Zenon DEF Fresh
  <2> QED BY <1>4, <2>5, <2>6, Zenon DEF SendPush
<1>5. ASSUME NEW r \in Requests, SendRLock(r) PROVE Ownership'
  <2>1. /\ UNCHANGED <<requestQueue, outstanding, outcome, sent, rd, cur, pc>>
        /\ \A x \in Requests : Fresh(x)' => Fresh(x)
    BY <1>5, <1>0, Zenon DEF SendRLock, Fresh
  <2>2. /\ \A x \in Requests : PumpOwns(x)' <=> PumpOwns(x)
        /\ \A x \in Requests, p \in Readers : ReaderOwns(p, x)' <=> ReaderOwns(p, x)
    BY <2>1, Zenon DEF PumpOwns, ReaderOwns
  <2> QED BY <2>1, <2>2, <1>P, OwnershipFrame, Zenon
<1>6. ASSUME NEW r \in Requests, SendPost(r) PROVE Ownership'
  <2>1. /\ UNCHANGED <<requestQueue, outstanding, outcome, sent, rd, cur, pc>>
        /\ \A x \in Requests : Fresh(x)' => Fresh(x)
    BY <1>6, <1>0, Zenon DEF SendPost, Fresh
  <2>2. /\ \A x \in Requests : PumpOwns(x)' <=> PumpOwns(x)
        /\ \A x \in Requests, p \in Readers : ReaderOwns(p, x)' <=> ReaderOwns(p, x)
    BY <2>1, Zenon DEF PumpOwns, ReaderOwns
  <2> QED BY <2>1, <2>2, <1>P, OwnershipFrame, Zenon
<1>7. ASSUME NEW p \in Readers, ReadReply(p) PROVE Ownership'
  <2>1. /\ UNCHANGED <<requestQueue, outstanding, outcome, sent, snd, cur, pc>>
        /\ \A x \in Requests, y \in Readers : ReaderOwns(y, x)' <=> ReaderOwns(y, x)
    BY <1>7, <1>R, Zenon DEF ReadReply, ReaderOwns
  <2>2. \A x \in Requests : (PumpOwns(x)' <=> PumpOwns(x)) /\ (Fresh(x)' <=> Fresh(x))
    BY <2>1, Zenon DEF PumpOwns, Fresh
  <2> QED BY <2>1, <2>2, <1>P, OwnershipFrame, Zenon
<1>8. ASSUME NEW p \in Readers, ReadPop(p) PROVE Ownership'
  <2>1. CASE ~FrontIs(requestQueue, rd[p].id)
    <3>1. /\ UNCHANGED <<requestQueue, outstanding, outcome, sent, snd, cur, pc>>
          /\ \A x \in Requests, y \in Readers : ReaderOwns(y, x)' <=> ReaderOwns(y, x)
      BY <1>8, <1>R, <2>1, Zenon DEF ReadPop, PopIf, ReaderOwns
    <3>2. \A x \in Requests : (PumpOwns(x)' <=> PumpOwns(x)) /\ (Fresh(x)' <=> Fresh(x))
      BY <3>1, Zenon DEF PumpOwns, Fresh
    <3> QED BY <3>1, <3>2, <1>P, OwnershipFrame, Zenon
  <2>2. CASE FrontIs(requestQueue, rd[p].id)
    <3>1. /\ requestQueue # << >> /\ requestQueue' = Tail(requestQueue)
          /\ rd[p].id = Head(requestQueue) /\ UNCHANGED <<outstanding, outcome, sent, cur, pc, snd>>
      BY <1>8, <2>2, Zenon DEF ReadPop, PopIf, FrontIs, IsEmpty
    <3>2. \A x \in Requests, y \in Readers :
              ReaderOwns(y, x)' <=> ReaderOwns(y, x) \/ (y = p /\ x = rd[p].id)
      BY <1>8, <1>R, <2>2, Zenon DEF ReadPop, ReaderOwns
    <3>3. \A x \in Requests : (PumpOwns(x)' <=> PumpOwns(x)) /\ (Fresh(x)' <=> Fresh(x))
      BY <3>1, Zenon DEF PumpOwns, Fresh
    <3>4. rd[p].id \in Requests /\ rd[p].id \in Range(requestQueue)
      BY <3>1, TailFacts, Typed, Zenon
    <3>5. ~PumpOwns(rd[p].id) /\ \A y \in Readers : ~ReaderOwns(y, rd[p].id)
      BY <3>4, Zenon DEF Ownership, Claimed
    <3>6. outstanding # << >> => pc' \in {"clear", "drain"}
      BY <3>1, Zenon DEF Ownership
    <3>8. PICK r \in Requests : r = rd[p].id
      BY <3>4, Zenon
    <3>9. /\ \A y \in Readers : ReaderOwns(y, r)' => ~PumpOwns(r)'
          /\ \A y, z \in Readers : ReaderOwns(y, r)' /\ ReaderOwns(z, r)' => y = z
          /\ ReaderOwns(p, r)'
      BY <3>2, <3>3, <3>5, <3>8, Zenon
    <3>10. \A x \in Requests \ {r}, y \in Readers : ReaderOwns(y, x)' <=> ReaderOwns(y, x)
      BY <3>2, <3>8, Zenon
    <3> QED BY <3>1, <3>3, <3>6, <3>8, <3>9, <3>10, OwnershipClaim, Zenon
  <2> QED BY <2>1, <2>2, Zenon
<1>9. ASSUME NEW p \in Readers, ReadDelete(p) PROVE Ownership'
  <2>1. /\ UNCHANGED <<requestQueue, outstanding, outcome, sent, snd, cur, pc>>
        /\ \A x \in Requests, y \in Readers : ReaderOwns(y, x)' <=> ReaderOwns(y, x)
    BY <1>9, <1>R, Zenon DEF ReadDelete, ReaderOwns
  <2>2. \A x \in Requests : (PumpOwns(x)' <=> PumpOwns(x)) /\ (Fresh(x)' <=> Fresh(x))
    BY <2>1, Zenon DEF PumpOwns, Fresh
  <2> QED BY <2>1, <2>2, <1>P, OwnershipFrame, Zenon
<1>10. ASSUME NEW p \in Readers, ReadDeliver(p) PROVE Ownership'
  <2>1. rd[p].pc = "deliver" /\ UNCHANGED <<requestQueue, outstanding, sent, cur, pc, snd>>
    BY <1>10, Zenon DEF ReadDeliver
  <2>2. PICK r \in Requests : r = rd[p].id /\ ReaderOwns(p, r)
    BY <1>R, <2>1, Zenon DEF ReaderOwns, TypeOK, Hands
  <2>3. /\ \A y \in Readers \ {p} : ~ReaderOwns(y, r)
        /\ r \notin Range(outstanding) /\ ~PumpOwns(r)
    BY <2>2, Zenon DEF Ownership
  <2>4. \A x \in Requests, y \in Readers : ReaderOwns(y, x)' <=> ReaderOwns(y, x) /\ y # p
    BY <1>10, <1>R, Zenon DEF ReadDeliver, ReaderOwns
  <2>5. \A x \in Requests : ReaderOwns(p, x) => x = r
    BY <2>2, Zenon DEF ReaderOwns
  <2>6. \A x \in Requests, y \in Readers : ReaderOwns(y, x)' <=> ReaderOwns(y, x) /\ x # r
    BY <2>3, <2>4, <2>5, Zenon
  <2>7. \A x \in Requests : (PumpOwns(x)' <=> PumpOwns(x) /\ x # r) /\ (Fresh(x)' <=> Fresh(x))
    BY <2>1, <2>3, Zenon DEF PumpOwns, Fresh
  <2>8. Notify(r, "response") /\ "response" \in Outcomes \ {"none", "twice"}
    BY <1>10, <2>2, Zenon DEF ReadDeliver, Notify, Outcomes
  <2>9. outstanding # << >> => pc' \in {"clear", "drain"}
    BY <2>1, Zenon DEF Ownership
  <2> QED BY <2>1, <2>2, <2>3, <2>6, <2>7, <2>8, <2>9, OwnershipSettle, Zenon
<1>11. CASE PumpReconcile
  BY <1>11, OwnershipPump, Zenon DEF PumpReconcile
<1>12. CASE PumpPosted
  BY <1>12, OwnershipPump, Zenon DEF PumpPosted
<1>13. CASE PumpClosed
  <2>1. /\ requestQueue' = << >> /\ outstanding' = requestQueue /\ pc' = "clear"
        /\ pc = "select" /\ UNCHANGED <<rd, snd, outcome, sent>>
    BY <1>13, Zenon DEF PumpClosed, DrainAll
  <2>2. outstanding = << >> /\ \A x \in Requests : ~PumpOwns(x)
    BY <2>1, Zenon DEF Ownership, PumpOwns
  <2> QED BY <2>1, <2>2, OwnershipDrainAll, Zenon
<1>14. CASE PumpTick
  BY <1>14, OwnershipPump, Zenon DEF PumpTick
<1>15. CASE PumpReady
  BY <1>15, OwnershipPump, Zenon DEF PumpReady
<1>16. CASE PumpCtxDone
  BY <1>16, OwnershipPump, Zenon DEF PumpCtxDone
<1>17. CASE PumpExpired
  BY <1>17, OwnershipPump, Zenon DEF PumpExpired, TimerArmDone
<1>18. CASE PumpPeekExpired
  BY <1>18, OwnershipPump, Zenon DEF PumpPeekExpired, TimerArmDone
<1>19. CASE PumpPop
  <2>1. CASE ~FrontIs(requestQueue, cur)
    BY <1>19, <2>1, OwnershipPump, Zenon DEF PumpPop, PopIf
  <2>2. CASE FrontIs(requestQueue, cur)
    <3>1. /\ requestQueue # << >> /\ requestQueue' = Tail(requestQueue)
          /\ cur = Head(requestQueue) /\ UNCHANGED <<outstanding, outcome, sent, cur, rd, snd>>
          /\ pc = "pop" /\ pc' = "cancel"
      BY <1>19, <2>2, Zenon DEF PumpPop, PopIf, FrontIs, IsEmpty
    <3>2. PICK r \in Requests : r = cur /\ r \in Range(requestQueue)
      BY <3>1, TailFacts, Typed, Zenon
    <3>3. /\ \A x \in Requests, y \in Readers : ReaderOwns(y, x)' <=> ReaderOwns(y, x)
          /\ \A x \in Requests : Fresh(x)' <=> Fresh(x)
          /\ \A x \in Requests \ {r} : PumpOwns(x)' <=> PumpOwns(x)
          /\ PumpOwns(r)'
      BY <3>1, <3>2, Zenon DEF ReaderOwns, Fresh, PumpOwns
    <3>4. \A y \in Readers : ~ReaderOwns(y, r)
      BY <3>2, Zenon DEF Ownership, Claimed
    <3>5. outstanding = << >>
      BY <3>1, Zenon DEF Ownership
    <3> QED BY <3>1, <3>2, <3>3, <3>4, <3>5, OwnershipClaim, Zenon
  <2> QED BY <2>1, <2>2, Zenon
<1>20. CASE PumpCancel
  <2>1. pc = "cancel" /\ pc' = "completed" /\ UNCHANGED <<requestQueue, outstanding, sent, cur, rd, snd>>
    BY <1>20, Zenon DEF PumpCancel
  <2>2. PICK r \in Requests : r = cur
    BY <2>1, Zenon DEF TypeOK, DataTypes, Hands
  <2>3. \A y \in Readers : ~ReaderOwns(y, r)
    BY <2>1, <2>2, Zenon DEF Ownership, PumpOwns
  <2>4. outstanding = << >> /\ r \notin Range(<< >>)
    BY <2>1 DEF Ownership, Range
  <2>5. \A x \in Requests : (PumpOwns(x)' <=> PumpOwns(x) /\ x # r) /\ (Fresh(x)' <=> Fresh(x))
    BY <2>1, <2>2, Zenon DEF PumpOwns, Fresh
  <2>6. \A x \in Requests, y \in Readers : ReaderOwns(y, x)' <=> ReaderOwns(y, x) /\ x # r
    BY <2>1, <2>3, Zenon DEF ReaderOwns
  <2>7. PICK k \in Outcomes \ {"none", "twice"} : k = (IF why = "drop" THEN "ctx" ELSE why)
    BY <2>1, Zenon DEF TypeOK, DataTypes, Hands, Outcomes, Reasons
  <2>8. Notify(r, k)
    BY <1>20, <2>2, <2>7, Zenon DEF PumpCancel, Notify
  <2>9. PumpOwns(r)
    BY <2>1, <2>2, Zenon DEF PumpOwns
  <2> QED BY <2>1, <2>2, <2>4, <2>5, <2>6, <2>8, <2>9, OwnershipSettle, Zenon
<1>21. CASE PumpCompleted
  BY <1>21, OwnershipPump, Zenon DEF PumpCompleted, TimerArmDone
<1>22. CASE PumpPausedCheck
  BY <1>22, OwnershipPump, Zenon DEF PumpPausedCheck
<1>23. CASE PumpDispatch
  <2>1. /\ pc = "dispatch" /\ pc' # "cancel" /\ UNCHANGED <<requestQueue, outstanding, outcome, rd, snd>>
    BY <1>23, Zenon DEF PumpDispatch
  <2>2. outstanding = << >>
    BY <2>1, Zenon DEF Ownership
  <2>3. \A x \in Requests : Fresh(x) => sent'[x] = sent[x]
    <3>1. CASE sent' = sent
      BY <3>1, Zenon
    <3>2. CASE sent' # sent
      <4>1. /\ requestQueue # << >> /\ cur' = Head(requestQueue)
            /\ sent' = [sent EXCEPT ![cur'] = @ + 1]
        BY <1>23, <3>2, Zenon DEF PumpDispatch, CanDispatch, IsEmpty, Peek
      <4>2. cur' \in Range(requestQueue)
        BY <4>1, TailFacts, Typed, Zenon
      <4>3. ~Fresh(cur')
        BY <4>2, Zenon DEF Ownership
      <4>4. sent \in [Requests -> Nat]
        BY Zenon DEF TypeOK, DataTypes
      <4> QED BY <4>1, <4>3, <4>4, Zenon
    <3> QED BY <3>1, <3>2, Zenon
  <2>4. \A x \in Requests : (PumpOwns(x)' <=> PumpOwns(x)) /\ (Fresh(x)' <=> Fresh(x))
    BY <2>1, Zenon DEF PumpOwns, Fresh
  <2>5. \A x \in Requests, y \in Readers : ReaderOwns(y, x)' <=> ReaderOwns(y, x)
    BY <2>1, Zenon DEF ReaderOwns
  <2> QED BY <2>1, <2>2, <2>3, <2>4, <2>5, OwnershipFrame, Zenon
<1>24. CASE PumpArm
  BY <1>24, OwnershipPump, Zenon DEF PumpArm
<1>25. CASE PumpClear
  <2>1. /\ pc = "clear" /\ pc' = "drain"
        /\ UNCHANGED <<requestQueue, outstanding, outcome, sent, snd, rd>>
    BY <1>25, Zenon DEF PumpClear
  <2>2. /\ \A x \in Requests : (PumpOwns(x)' <=> PumpOwns(x)) /\ (Fresh(x)' <=> Fresh(x))
        /\ \A x \in Requests, y \in Readers : ReaderOwns(y, x)' <=> ReaderOwns(y, x)
    BY <2>1, Zenon DEF PumpOwns, Fresh, ReaderOwns
  <2> QED BY <2>1, <2>2, OwnershipFrame, Zenon
<1>26. CASE PumpDrain
  BY <1>26, OwnershipDrain, Zenon
<1>27. CASE PumpExit
  BY <1>27, OwnershipPump, Zenon DEF PumpExit
<1>28. CASE Disconnected
  BY <1>28, OwnershipQuiet, Zenon DEF Disconnected
<1>29. CASE Pause
  BY <1>29, OwnershipQuiet, Zenon DEF Pause
<1>30. CASE Reconnected
  BY <1>30, OwnershipQuiet, Zenon DEF Reconnected
<1>31. CASE ResumeCheck
  BY <1>31, OwnershipQuiet, Zenon DEF ResumeCheck
<1>32. CASE ResumeRearm
  BY <1>32, OwnershipQuiet, Zenon DEF ResumeRearm
<1>33. CASE ResumeReady
  BY <1>33, OwnershipQuiet, Zenon DEF ResumeReady
<1>34. CASE ClientStart
  BY <1>34, OwnershipQuiet, Zenon DEF ClientStart
<1>35. CASE ClientStartWithRetries
  BY <1>35, OwnershipQuiet, Zenon DEF ClientStartWithRetries
<1>36. CASE Dialled
  BY <1>36, OwnershipQuiet, Zenon DEF Dialled
<1>37. CASE Start
  <2>1. pc = "off" /\ pc' = "top" /\ UNCHANGED <<requestQueue, outstanding, outcome, sent, rd, snd>>
    BY <1>37, Zenon DEF Start, Session
  <2> QED BY <2>1, OwnershipPump, Zenon
<1>38. ASSUME NEW s \in Stoppers, ClientStop(s) PROVE Ownership'
  BY <1>38, OwnershipQuiet, Zenon DEF ClientStop
<1>39. ASSUME NEW s \in Stoppers, StopIsRunning(s) PROVE Ownership'
  BY <1>39, OwnershipQuiet, Zenon DEF StopIsRunning
<1>40. ASSUME NEW s \in Stoppers, StopClose(s) PROVE Ownership'
  BY <1>40, OwnershipQuiet, Zenon DEF StopClose
<1>41. ASSUME NEW s \in Stoppers, StopJoin(s) PROVE Ownership'
  BY <1>41, OwnershipQuiet, Zenon DEF StopJoin
<1>42. CASE UNCHANGED vars
  BY <1>42, OwnershipQuiet, Zenon DEF vars
<1> QED
  BY <1>1, <1>2, <1>3, <1>4, <1>5, <1>6, <1>7, <1>8, <1>9, <1>10, <1>11, <1>12,
     <1>13, <1>14, <1>15, <1>16, <1>17, <1>18, <1>19, <1>20, <1>21, <1>22, <1>23,
     <1>24, <1>25, <1>26, <1>27, <1>28, <1>29, <1>30, <1>31, <1>32, <1>33, <1>34,
     <1>35, <1>36, <1>37, <1>38, <1>39, <1>40, <1>41, <1>42, Zenon
     DEF Next, Send, Read, Pump, Hook, Stop, Finished

\* A step that touches neither the queue, the pending request nor the wire
\* preserves Window.
LEMMA WindowFrame ==
    ASSUME Window, UNCHANGED <<requestQueue, pending, sent>>,
           pc' \in {"clear", "drain"} => pc \in {"clear", "drain"}
    PROVE  Window'
PROOF BY Zenon DEF Window, OneInFlight, NeverRewritten

\* Removing the front leaves only requests that were never sent.
LEMMA WindowPop ==
    ASSUME TypeOK, Window, requestQueue # << >>, requestQueue' = Tail(requestQueue),
           UNCHANGED sent
    PROVE  Window'
PROOF
<1>1. \A i \in DOMAIN Tail(requestQueue) :
          Tail(requestQueue)[i] \in Requests /\ sent[Tail(requestQueue)[i]] = 0
  <2> TAKE i \in DOMAIN Tail(requestQueue)
  <2>1. /\ Tail(requestQueue)[i] = requestQueue[i + 1]
        /\ i + 1 \in DOMAIN requestQueue /\ i \in Nat \ {0}
    BY TailFacts, Typed
  <2>2. requestQueue[i + 1] \in Requests /\ i + 1 # 1
    BY <2>1, Typed
  <2>3. sent[requestQueue[i + 1]] \in Nat
    BY <2>2, Zenon DEF TypeOK, DataTypes
  <2>4. ~(sent[requestQueue[i + 1]] > 0)
    BY <2>1, <2>2, Zenon DEF Window, OneInFlight
  <2> QED BY <2>1, <2>2, <2>3, <2>4
<1>2. OneInFlight'
  BY <1>1 DEF OneInFlight
<1>3. \A r \in Range(requestQueue') : sent'[r] = 0
  BY <1>1, Zenon DEF Range
<1> QED BY <1>2, <1>3, Zenon DEF Window, NeverRewritten

\* Deleting a pending request that is no longer queued leaves the window alone.
LEMMA WindowDelete ==
    ASSUME Window, NEW r \in Requests, r \notin Range(requestQueue),
           pending' = DeletePendingRequest(pending, r),
           UNCHANGED <<requestQueue, sent>>,
           pc' \in {"clear", "drain"} => pc \in {"clear", "drain"}
    PROVE  Window'
PROOF
<1>1. \A i \in DOMAIN requestQueue : requestQueue[i] # r
  BY Zenon DEF Range
<1>2. OneInFlight'
  <2> SUFFICES ASSUME NEW i \in DOMAIN requestQueue, sent[requestQueue[i]] > 0
               PROVE  i = 1 /\ pending' = requestQueue[1]
    BY Zenon DEF OneInFlight
  <2>1. i = 1 /\ pending = requestQueue[1]
    BY Zenon DEF Window, OneInFlight
  <2> QED BY <1>1, <2>1, Zenon DEF DeletePendingRequest
<1> QED BY <1>2, Zenon DEF Window, NeverRewritten

\* Window is inductive.
LEMMA WindowStep == TypeOK /\ Ownership /\ Window /\ [Next]_vars => Window'
PROOF
<1> SUFFICES ASSUME TypeOK, Ownership, Window, [Next]_vars PROVE Window'
  BY Zenon
<1>1. CASE TimerFire
  BY <1>1, WindowFrame, Zenon DEF TimerFire
<1>2. ASSUME NEW r \in Requests, CtxFire(r) PROVE Window'
  BY <1>2, WindowFrame, Zenon DEF CtxFire
<1>3. ASSUME NEW r \in Requests, SendIsRunning(r) PROVE Window'
  BY <1>3, WindowFrame, Zenon DEF SendIsRunning
<1>4. ASSUME NEW r \in Requests, SendPush(r) PROVE Window'
  <2>1. sent[r] = 0 /\ UNCHANGED <<pending, pc, sent>>
    BY <1>4, Zenon DEF SendPush, Ownership, Fresh
  <2>2. CASE requestQueue' = requestQueue
    BY <2>1, <2>2, WindowFrame, Zenon
  <2>3. CASE requestQueue' = Push(requestQueue, r)
    <3>1. OneInFlight'
      <4> SUFFICES ASSUME NEW i \in DOMAIN requestQueue', sent[requestQueue'[i]] > 0
                   PROVE  i = 1 /\ pending = requestQueue'[1]
        BY <2>1, Zenon DEF OneInFlight
      <4>0. /\ i \in 1..(Len(requestQueue) + 1) /\ Len(requestQueue) \in Nat
            /\ requestQueue'[Len(requestQueue) + 1] = r
            /\ \A j \in 1..Len(requestQueue) : requestQueue'[j] = requestQueue[j]
        <5>1. requestQueue \in Seq(Requests)
          BY Typed, Zenon
        <5>2. Len(requestQueue) \in Nat
          BY <5>1
        <5>3. /\ DOMAIN Push(requestQueue, r) = 1..(Len(requestQueue) + 1)
              /\ Push(requestQueue, r)[Len(requestQueue) + 1] = r
              /\ \A j \in 1..Len(requestQueue) : Push(requestQueue, r)[j] = requestQueue[j]
          BY <5>1, PushFacts, Zenon
        <5> QED BY <2>3, <5>2, <5>3, Zenon
      <4>1. i \in 1..Len(requestQueue) /\ requestQueue'[i] = requestQueue[i]
        <5>1. i # Len(requestQueue) + 1
          BY <2>1, <4>0
        <5> QED BY <4>0, <5>1
      <4>2. i = 1 /\ pending = requestQueue[1]
        BY <4>1, Typed DEF Window, OneInFlight
      <4> QED BY <4>1, <4>2, Zenon
    <3>2. Range(requestQueue') = Range(requestQueue) \cup {r}
      BY <2>3, PushFacts, Typed, Zenon
    <3> QED BY <2>1, <3>1, <3>2, Zenon DEF Window, NeverRewritten
  <2> QED BY <1>4, <2>2, <2>3, Zenon DEF SendPush
<1>5. ASSUME NEW r \in Requests, SendRLock(r) PROVE Window'
  BY <1>5, WindowFrame, Zenon DEF SendRLock
<1>6. ASSUME NEW r \in Requests, SendPost(r) PROVE Window'
  BY <1>6, WindowFrame, Zenon DEF SendPost
<1>7. ASSUME NEW p \in Readers, ReadReply(p) PROVE Window'
  BY <1>7, WindowFrame, Zenon DEF ReadReply, HasPendingRequest
<1>8. ASSUME NEW p \in Readers, ReadPop(p) PROVE Window'
  <2>1. CASE FrontIs(requestQueue, rd[p].id)
    <3>1. requestQueue # << >> /\ requestQueue' = Tail(requestQueue) /\ UNCHANGED sent
      BY <1>8, <2>1, Zenon DEF ReadPop, PopIf, FrontIs, IsEmpty
    <3> QED BY <3>1, WindowPop, Zenon
  <2>2. CASE ~FrontIs(requestQueue, rd[p].id)
    BY <1>8, <2>2, WindowFrame, Zenon DEF ReadPop, PopIf
  <2> QED BY <2>1, <2>2, Zenon
<1>9. ASSUME NEW p \in Readers, ReadDelete(p) PROVE Window'
  <2>1. rd[p].id \in Requests /\ ReaderOwns(p, rd[p].id)
    BY <1>9, Zenon DEF ReadDelete, ReaderOwns, TypeOK, DataTypes, Hands
  <2>2. rd[p].id \notin Range(requestQueue)
    BY <2>1, Zenon DEF Ownership, Claimed
  <2> QED BY <1>9, <2>1, <2>2, WindowDelete, Zenon DEF ReadDelete
<1>10. ASSUME NEW p \in Readers, ReadDeliver(p) PROVE Window'
  BY <1>10, WindowFrame, Zenon DEF ReadDeliver
<1>11. CASE PumpReconcile
  BY <1>11, WindowFrame, Zenon DEF PumpReconcile
<1>12. CASE PumpPosted
  BY <1>12, WindowFrame, Zenon DEF PumpPosted
<1>13. CASE PumpClosed
  <2>1. requestQueue' = << >> /\ UNCHANGED sent
    BY <1>13, Zenon DEF PumpClosed
  <2>2. DOMAIN requestQueue' = {} /\ Range(requestQueue') = {}
    BY <2>1 DEF Range
  <2> QED BY <2>1, <2>2, Zenon DEF Window, OneInFlight, NeverRewritten
<1>14. CASE PumpTick
  BY <1>14, WindowFrame, Zenon DEF PumpTick
<1>15. CASE PumpReady
  BY <1>15, WindowFrame, Zenon DEF PumpReady
<1>16. CASE PumpCtxDone
  BY <1>16, WindowFrame, Zenon DEF PumpCtxDone
<1>17. CASE PumpExpired
  BY <1>17, WindowFrame, Zenon DEF PumpExpired, TimerArmDone
<1>18. CASE PumpPeekExpired
  BY <1>18, WindowFrame, Zenon DEF PumpPeekExpired, TimerArmDone
<1>19. CASE PumpPop
  <2>1. CASE FrontIs(requestQueue, cur)
    <3>1. requestQueue # << >> /\ requestQueue' = Tail(requestQueue) /\ UNCHANGED sent
      BY <1>19, <2>1, Zenon DEF PumpPop, PopIf, FrontIs, IsEmpty
    <3> QED BY <3>1, WindowPop, Zenon
  <2>2. CASE ~FrontIs(requestQueue, cur)
    BY <1>19, <2>2, WindowFrame, Zenon DEF PumpPop, PopIf
  <2> QED BY <2>1, <2>2, Zenon
<1>20. CASE PumpCancel
  <2>1. cur \in Requests /\ PumpOwns(cur)
    BY <1>20, Zenon DEF PumpCancel, PumpOwns, TypeOK, DataTypes, Hands
  <2>2. cur \notin Range(requestQueue)
    BY <2>1, Zenon DEF Ownership, Claimed
  <2> QED BY <1>20, <2>1, <2>2, WindowDelete, Zenon DEF PumpCancel
<1>21. CASE PumpCompleted
  BY <1>21, WindowFrame, Zenon DEF PumpCompleted, TimerArmDone, StopDrainReset
<1>22. CASE PumpPausedCheck
  BY <1>22, WindowFrame, Zenon DEF PumpPausedCheck
<1>23. CASE PumpDispatch
  <2>1. UNCHANGED requestQueue /\ pc' \notin {"clear", "drain"}
    BY <1>23, Zenon DEF PumpDispatch
  <2>2. CASE UNCHANGED <<pending, sent>>
    BY <2>1, <2>2, WindowFrame, Zenon
  <2>3. CASE ~UNCHANGED <<pending, sent>>
    <3>1. /\ CanDispatch /\ cur' = Peek(requestQueue)
          /\ pending' = AddPendingRequest(pending, cur')
          /\ sent' \in {sent, [sent EXCEPT ![cur'] = @ + 1]}
      BY <1>23, <2>3, Zenon DEF PumpDispatch
    <3>2. /\ requestQueue # << >> /\ pending = None
          /\ cur' = requestQueue[1] /\ cur' \in Requests /\ pending' = cur'
          /\ \A i \in DOMAIN requestQueue : requestQueue[i] \in Requests
      BY <3>1, TailFacts, Typed
         DEF CanDispatch, IsEmpty, Peek, HasPendingRequest, AddPendingRequest
    <3>3. \A i \in DOMAIN requestQueue : sent[requestQueue[i]] = 0
      <4> SUFFICES ASSUME NEW i \in DOMAIN requestQueue, sent[requestQueue[i]] # 0
                   PROVE  FALSE
        BY Zenon
      <4>1. sent[requestQueue[i]] > 0
        BY <3>2 DEF TypeOK, DataTypes
      <4> QED BY <3>2, <4>1, ConstantsAssumption, Zenon DEF Window, OneInFlight
    <3>4. 1 \in DOMAIN requestQueue
      BY <3>2, TailFacts, Typed, Zenon
    <3>t. sent \in [Requests -> Nat]
      BY Zenon DEF TypeOK, DataTypes
    <3>5. sent[cur'] = 0
      BY <3>2, <3>3, <3>4, Zenon
    <3>6. \A x \in Requests : x # cur' => sent'[x] = sent[x]
      BY <3>1, <3>2, <3>t, Zenon
    <3>7. sent'[cur'] \in {0, 1}
      BY <3>1, <3>2, <3>5, <3>t
    <3>8. OneInFlight'
      <4> SUFFICES ASSUME NEW i \in DOMAIN requestQueue, sent'[requestQueue[i]] > 0
                   PROVE  i = 1 /\ pending' = requestQueue[1]
        BY <2>1, Zenon DEF OneInFlight
      <4>1. requestQueue[i] = cur'
        BY <3>2, <3>3, <3>6
      <4> QED BY <3>2, <3>4, <4>1, Zenon DEF Ownership, IsInjective
    <3>9. NeverRewritten'
      <4> SUFFICES ASSUME NEW x \in Requests PROVE sent'[x] <= 1
        BY Zenon DEF NeverRewritten
      <4>1. CASE x = cur'
        BY <3>7, <4>1
      <4>2. CASE x # cur'
        BY <3>6, <4>2, Zenon DEF Window, NeverRewritten
      <4> QED BY <4>1, <4>2, Zenon
    <3> QED BY <2>1, <3>8, <3>9, Zenon DEF Window
  <2> QED BY <2>2, <2>3, Zenon
<1>24. CASE PumpArm
  BY <1>24, WindowFrame, Zenon DEF PumpArm, StopDrainReset
<1>25. CASE PumpClear
  <2>1. \A x \in Range(requestQueue) : sent[x] = 0
    BY <1>25, Zenon DEF PumpClear, Window
  <2>2. \A i \in DOMAIN requestQueue : sent[requestQueue[i]] = 0
    BY <2>1, Zenon DEF Range
  <2>3. UNCHANGED <<requestQueue, sent>>
    BY <1>25, Zenon DEF PumpClear
  <2>4. OneInFlight'
    BY <2>2, <2>3 DEF OneInFlight
  <2> QED BY <2>1, <2>3, <2>4, Zenon DEF Window, NeverRewritten
<1>26. CASE PumpDrain
  <2>1. requestQueue' = << >> /\ UNCHANGED sent
    BY <1>26, Zenon DEF PumpDrain
  <2>2. DOMAIN requestQueue' = {} /\ Range(requestQueue') = {}
    BY <2>1 DEF Range
  <2> QED BY <2>1, <2>2, Zenon DEF Window, OneInFlight, NeverRewritten
<1>27. CASE PumpExit
  BY <1>27, WindowFrame, Zenon DEF PumpExit
<1>28. CASE Disconnected
  BY <1>28, WindowFrame, Zenon DEF Disconnected
<1>29. CASE Pause
  BY <1>29, WindowFrame, Zenon DEF Pause, StopDrainReset
<1>30. CASE Reconnected
  BY <1>30, WindowFrame, Zenon DEF Reconnected
<1>31. CASE ResumeCheck
  BY <1>31, WindowFrame, Zenon DEF ResumeCheck
<1>32. CASE ResumeRearm
  BY <1>32, WindowFrame, Zenon DEF ResumeRearm, StopDrainReset
<1>33. CASE ResumeReady
  BY <1>33, WindowFrame, Zenon DEF ResumeReady
<1>34. CASE ClientStart
  BY <1>34, WindowFrame, Zenon DEF ClientStart
<1>35. CASE ClientStartWithRetries
  BY <1>35, WindowFrame, Zenon DEF ClientStartWithRetries
<1>36. CASE Dialled
  BY <1>36, WindowFrame, Zenon DEF Dialled
<1>37. CASE Start
  BY <1>37, WindowFrame, Zenon DEF Start
<1>38. ASSUME NEW s \in Stoppers, ClientStop(s) PROVE Window'
  BY <1>38, WindowFrame, Zenon DEF ClientStop
<1>39. ASSUME NEW s \in Stoppers, StopIsRunning(s) PROVE Window'
  BY <1>39, WindowFrame, Zenon DEF StopIsRunning
<1>40. ASSUME NEW s \in Stoppers, StopClose(s) PROVE Window'
  BY <1>40, WindowFrame, Zenon DEF StopClose
<1>41. ASSUME NEW s \in Stoppers, StopJoin(s) PROVE Window'
  BY <1>41, WindowFrame, Zenon DEF StopJoin
<1>42. CASE UNCHANGED vars
  BY <1>42, WindowFrame, Zenon DEF vars
<1> QED
  BY <1>1, <1>2, <1>3, <1>4, <1>5, <1>6, <1>7, <1>8, <1>9, <1>10, <1>11, <1>12,
     <1>13, <1>14, <1>15, <1>16, <1>17, <1>18, <1>19, <1>20, <1>21, <1>22, <1>23,
     <1>24, <1>25, <1>26, <1>27, <1>28, <1>29, <1>30, <1>31, <1>32, <1>33, <1>34,
     <1>35, <1>36, <1>37, <1>38, <1>39, <1>40, <1>41, <1>42, Zenon
     DEF Next, Send, Read, Pump, Hook, Stop, Finished

-----------------------------------------------------------------------------
\* The initial state satisfies the inductive invariant.
LEMMA InitIndInv == Init => IndInv
PROOF
<1> SUFFICES ASSUME Init PROVE IndInv
  BY Zenon
<1> USE DEF Init
<1>1. Session
  BY Zenon DEF Session, SendOnOpenChannel
<1>2. Range(<< >>) = {} /\ IsInjective(<< >>)
  BY DEF Range, IsInjective
<1>3. Claimed = {}
  BY <1>2, Zenon DEF Claimed, PumpOwns, ReaderOwns
<1>4. Ownership
  BY <1>2, <1>3, Zenon DEF Ownership, SingleOutcome, Fresh, ReaderOwns, PumpOwns
<1>5. Window
  BY DEF Window, OneInFlight, NeverRewritten
<1> QED BY <1>1, <1>4, <1>5, InitTypeOK, Zenon DEF IndInv

\* Every step preserves it.
LEMMA StepIndInv == IndInv /\ [Next]_vars => IndInv'
PROOF
<1> SUFFICES ASSUME IndInv, [Next]_vars PROVE IndInv'
  BY Zenon
<1>1. TypeOK /\ Session /\ Ownership /\ Window /\ FlagTypes /\ DataTypes /\ Hands
  BY Zenon DEF IndInv, TypeOK
<1>2. TypeOK'
  BY <1>1, FlagStep, DataStep, HandStep, Zenon DEF TypeOK
<1> QED BY <1>1, <1>2, SessionStep, OwnershipStep, WindowStep, Zenon DEF IndInv

\* In every session, with any number of requests, readers, stoppers and any queue
\* capacity, each request is in one hand at a time (queue, PopIf winner or stop
\* drain, dispatcher.go 239-253, 291-322, 484-505).
THEOREM IndInvHolds == Spec => []IndInv
PROOF
<1>1. IndInv /\ UNCHANGED vars => IndInv'
  BY StepIndInv, Zenon
<1> QED BY InitIndInv, StepIndInv, PTL DEF Spec

\* The dispatcher's variables keep their types, and the pump never takes the nil
\* front of an empty queue for a request (330-333, 389-399).
THEOREM TypeCorrect == Spec => []TypeOK
PROOF BY IndInvHolds, PTL DEF IndInv

\* Whoever races for a request, the application is told about it at most once
\* (CompleteRequest, 484-505, and the stop drain, 291-322).
THEOREM SingleOutcomeHolds == Spec => []SingleOutcome
PROOF
<1>1. IndInv => SingleOutcome
  BY Zenon DEF IndInv, Ownership
<1> QED BY <1>1, IndInvHolds, PTL

\* No SendRequest sends on a closed or nil requestChannel (214-229, 246-251).
THEOREM SendOnOpenChannelHolds == Spec => []SendOnOpenChannel
PROOF
<1>1. IndInv => SendOnOpenChannel
  BY Zenon DEF IndInv, Session
<1> QED BY <1>1, IndInvHolds, PTL

\* What is on the wire and not completed is the front of the queue and the pending
\* request (363-365).
THEOREM OneInFlightHolds == Spec => []OneInFlight
PROOF
<1>1. IndInv => OneInFlight
  BY Zenon DEF IndInv, Window
<1> QED BY <1>1, IndInvHolds, PTL

\* No request is handed to the network twice (365, 415-417).
THEOREM NeverRewrittenHolds == Spec => []NeverRewritten
PROOF
<1>1. IndInv => NeverRewritten
  BY Zenon DEF IndInv, Window
<1> QED BY <1>1, IndInvHolds, PTL

-----------------------------------------------------------------------------
(* ClientDispatcher implements RequestLifecycle *)

\* A step that moves no request between hands is a stutter of the life cycle.
LEMMA LifecycleFrame ==
    ASSUME UNCHANGED <<requestQueue, outstanding, outcome, sent>>,
           \A r \in Requests : PumpOwns(r)' <=> PumpOwns(r),
           \A r \in Requests, p \in Readers : ReaderOwns(p, r)' <=> ReaderOwns(p, r)
    PROVE  UNCHANGED Lifecycle!lvars
PROOF
<1>1. Claimed' = Claimed
  BY Zenon DEF Claimed
<1> QED BY <1>1, Zenon DEF Lifecycle!lvars

\* The steps of the timer, the contexts, the hooks, the senders and the callers of
\* Start and Stop.
LEMMA LifecycleQuiet ==
    ASSUME UNCHANGED <<requestQueue, outstanding, outcome, sent, rd, cur, pc>>
    PROVE  UNCHANGED Lifecycle!lvars
PROOF BY LifecycleFrame, Zenon DEF PumpOwns, ReaderOwns

\* The steps of the pump that complete no request.
LEMMA LifecyclePump ==
    ASSUME UNCHANGED <<requestQueue, outstanding, outcome, sent, rd>>,
           pc # "cancel", pc' # "cancel"
    PROVE  UNCHANGED Lifecycle!lvars
PROOF BY LifecycleFrame, Zenon DEF PumpOwns, ReaderOwns

\* The first report to the application settles a claimed request.
LEMMA NotifySettles ==
    ASSUME TypeOK, Ownership, NEW r \in Claimed, NEW k \in Outcomes \ {"none"},
           Notify(r, k), UNCHANGED <<requestQueue, sent>>, Claimed' = Claimed \ {r}
    PROVE  Lifecycle!LNext
PROOF
<1>1. r \in Requests /\ outcome[r] = "none"
  BY Zenon DEF Claimed, Ownership
<1>2. outcome'[r] = k /\ \A x \in Requests : x # r => outcome'[x] = outcome[x]
  BY <1>1, NotifyFacts, Typed, Zenon
<1>3. {x \in Requests : outcome'[x] # "none"} = {x \in Requests : outcome[x] # "none"} \cup {r}
  BY <1>1, <1>2, Zenon
<1>4. Lifecycle!Settle(r)
  BY <1>1, <1>3, Zenon DEF Lifecycle!Settle
<1> QED BY <1>1, <1>4, Zenon DEF Lifecycle!LNext

\* Every step of the dispatcher is a step of the life cycle or a stutter of it.
LEMMA LifecycleStep == IndInv /\ [Next]_vars => [Lifecycle!LNext]_(Lifecycle!lvars)
PROOF
<1> SUFFICES ASSUME IndInv, [Next]_vars PROVE [Lifecycle!LNext]_(Lifecycle!lvars)
  BY Zenon
<1>0. TypeOK /\ Session /\ Ownership /\ Window
  BY Zenon DEF IndInv
<1>R. rd \in [Readers -> [pc : {"idle", "pop", "delete", "deliver"}, id : Requests \cup {None}]]
  BY <1>0, Zenon DEF TypeOK, DataTypes
<1>1. CASE TimerFire
  BY <1>1, LifecycleQuiet, Zenon DEF TimerFire
<1>2. ASSUME NEW r \in Requests, CtxFire(r) PROVE [Lifecycle!LNext]_(Lifecycle!lvars)
  BY <1>2, LifecycleQuiet, Zenon DEF CtxFire
<1>3. ASSUME NEW r \in Requests, SendIsRunning(r) PROVE [Lifecycle!LNext]_(Lifecycle!lvars)
  BY <1>3, LifecycleQuiet, Zenon DEF SendIsRunning
<1>4. ASSUME NEW r \in Requests, SendPush(r) PROVE [Lifecycle!LNext]_(Lifecycle!lvars)
  <2>1. UNCHANGED <<outstanding, outcome, sent, Claimed>>
    BY <1>4, Zenon DEF SendPush, Claimed, PumpOwns, ReaderOwns
  <2>2. CASE requestQueue' = requestQueue
    BY <2>1, <2>2, Zenon DEF Lifecycle!lvars
  <2>3. CASE requestQueue' = Push(requestQueue, r)
    <3>1. Fresh(r) /\ outcome[r] = "none" /\ sent[r] = 0
      BY <1>4, <1>0, Zenon DEF SendPush, Fresh, Ownership
    <3>2. r \notin Range(requestQueue) /\ r \notin Claimed
      BY <1>0, <3>1, Zenon DEF Ownership
    <3>3. Lifecycle!Enqueue(r)
      BY <2>1, <2>3, <3>1, <3>2 DEF Lifecycle!Enqueue, Push, Lifecycle!Range, Range
    <3> QED BY <3>3, Zenon DEF Lifecycle!LNext
  <2> QED BY <1>4, <2>2, <2>3, Zenon DEF SendPush
<1>5. ASSUME NEW r \in Requests, SendRLock(r) PROVE [Lifecycle!LNext]_(Lifecycle!lvars)
  BY <1>5, LifecycleQuiet, Zenon DEF SendRLock
<1>6. ASSUME NEW r \in Requests, SendPost(r) PROVE [Lifecycle!LNext]_(Lifecycle!lvars)
  BY <1>6, LifecycleQuiet, Zenon DEF SendPost
<1>7. ASSUME NEW p \in Readers, ReadReply(p) PROVE [Lifecycle!LNext]_(Lifecycle!lvars)
  <2>1. /\ UNCHANGED <<requestQueue, outstanding, outcome, sent, cur, pc>>
        /\ \A x \in Requests, y \in Readers : ReaderOwns(y, x)' <=> ReaderOwns(y, x)
    BY <1>7, <1>R, Zenon DEF ReadReply, ReaderOwns
  <2>2. \A x \in Requests : PumpOwns(x)' <=> PumpOwns(x)
    BY <2>1, Zenon DEF PumpOwns
  <2> QED BY <2>1, <2>2, LifecycleFrame, Zenon
<1>8. ASSUME NEW p \in Readers, ReadPop(p) PROVE [Lifecycle!LNext]_(Lifecycle!lvars)
  <2>1. CASE ~FrontIs(requestQueue, rd[p].id)
    <3>1. /\ UNCHANGED <<requestQueue, outstanding, outcome, sent, cur, pc>>
          /\ \A x \in Requests, y \in Readers : ReaderOwns(y, x)' <=> ReaderOwns(y, x)
      BY <1>8, <1>R, <2>1, Zenon DEF ReadPop, PopIf, ReaderOwns
    <3>2. \A x \in Requests : PumpOwns(x)' <=> PumpOwns(x)
      BY <3>1, Zenon DEF PumpOwns
    <3> QED BY <3>1, <3>2, LifecycleFrame, Zenon
  <2>2. CASE FrontIs(requestQueue, rd[p].id)
    <3>1. /\ requestQueue # << >> /\ requestQueue' = Tail(requestQueue)
          /\ rd[p].id = Head(requestQueue) /\ UNCHANGED <<outstanding, outcome, sent, cur, pc>>
      BY <1>8, <2>2, Zenon DEF ReadPop, PopIf, FrontIs, IsEmpty
    <3>2. rd[p].id \in Requests
      BY <3>1, <1>0, TailFacts, Typed, Zenon
    <3>3. \A x \in Requests, y \in Readers :
              ReaderOwns(y, x)' <=> ReaderOwns(y, x) \/ (y = p /\ x = rd[p].id)
      BY <1>8, <1>R, <2>2, Zenon DEF ReadPop, ReaderOwns
    <3>4. Claimed' = Claimed \cup {rd[p].id}
      BY <3>1, <3>2, <3>3, Zenon DEF Claimed, PumpOwns
    <3>5. Lifecycle!Claim
      BY <3>1, <3>4, Zenon DEF Lifecycle!Claim
    <3> QED BY <3>5, Zenon DEF Lifecycle!LNext
  <2> QED BY <2>1, <2>2, Zenon
<1>9. ASSUME NEW p \in Readers, ReadDelete(p) PROVE [Lifecycle!LNext]_(Lifecycle!lvars)
  <2>1. /\ UNCHANGED <<requestQueue, outstanding, outcome, sent, cur, pc>>
        /\ \A x \in Requests, y \in Readers : ReaderOwns(y, x)' <=> ReaderOwns(y, x)
    BY <1>9, <1>R, Zenon DEF ReadDelete, ReaderOwns
  <2>2. \A x \in Requests : PumpOwns(x)' <=> PumpOwns(x)
    BY <2>1, Zenon DEF PumpOwns
  <2> QED BY <2>1, <2>2, LifecycleFrame, Zenon
<1>10. ASSUME NEW p \in Readers, ReadDeliver(p) PROVE [Lifecycle!LNext]_(Lifecycle!lvars)
  <2>1. rd[p].id \in Requests /\ ReaderOwns(p, rd[p].id)
    BY <1>10, <1>0, <1>R, Zenon DEF ReadDeliver, ReaderOwns, TypeOK, Hands
  <2>2. \A x \in Requests, y \in Readers : ReaderOwns(y, x)' <=> ReaderOwns(y, x) /\ y # p
    BY <1>10, <1>R, Zenon DEF ReadDeliver, ReaderOwns
  <2>3. UNCHANGED <<requestQueue, outstanding, sent, cur, pc>>
    BY <1>10, Zenon DEF ReadDeliver
  <2>4. /\ \A y \in Readers \ {p} : ~ReaderOwns(y, rd[p].id)
        /\ rd[p].id \notin Range(outstanding) /\ ~PumpOwns(rd[p].id)
    BY <1>0, <2>1, Zenon DEF Ownership
  <2>5. \A x \in Requests : ReaderOwns(p, x) => x = rd[p].id
    BY Zenon DEF ReaderOwns
  <2>6. Claimed' = Claimed \ {rd[p].id} /\ rd[p].id \in Claimed
    BY <2>1, <2>2, <2>3, <2>4, <2>5, Zenon DEF Claimed, PumpOwns
  <2>7. PICK r \in Claimed : r = rd[p].id
    BY <2>6, Zenon
  <2>8. Notify(r, "response") /\ "response" \in Outcomes \ {"none"}
    BY <1>10, <2>7, Zenon DEF ReadDeliver, Notify, Outcomes
  <2> QED BY <1>0, <2>3, <2>6, <2>7, <2>8, NotifySettles, Zenon
<1>11. CASE PumpReconcile
  BY <1>11, LifecyclePump, Zenon DEF PumpReconcile
<1>12. CASE PumpPosted
  BY <1>12, LifecyclePump, Zenon DEF PumpPosted
<1>13. CASE PumpClosed
  <2>1. /\ requestQueue' = << >> /\ outstanding' = requestQueue /\ outstanding = << >>
        /\ UNCHANGED <<rd, outcome, sent>>
        /\ \A x \in Requests : ~PumpOwns(x) /\ ~PumpOwns(x)'
    BY <1>13, <1>0, Zenon DEF PumpClosed, DrainAll, Ownership, PumpOwns
  <2>2. Range(requestQueue) \subseteq Requests /\ Range(<< >>) = {}
    BY <1>0, Typed DEF Range
  <2>3. Claimed' = Claimed \cup Range(requestQueue)
    BY <2>1, <2>2, Zenon DEF Claimed, ReaderOwns
  <2>4. Lifecycle!ClaimAll
    BY <2>1, <2>3, Zenon DEF Lifecycle!ClaimAll, Lifecycle!Range, Range
  <2> QED BY <2>4, Zenon DEF Lifecycle!LNext
<1>14. CASE PumpTick
  BY <1>14, LifecyclePump, Zenon DEF PumpTick
<1>15. CASE PumpReady
  BY <1>15, LifecyclePump, Zenon DEF PumpReady
<1>16. CASE PumpCtxDone
  BY <1>16, LifecyclePump, Zenon DEF PumpCtxDone
<1>17. CASE PumpExpired
  BY <1>17, LifecyclePump, Zenon DEF PumpExpired, TimerArmDone
<1>18. CASE PumpPeekExpired
  BY <1>18, LifecyclePump, Zenon DEF PumpPeekExpired, TimerArmDone
<1>19. CASE PumpPop
  <2>1. CASE ~FrontIs(requestQueue, cur)
    BY <1>19, <2>1, LifecyclePump, Zenon DEF PumpPop, PopIf
  <2>2. CASE FrontIs(requestQueue, cur)
    <3>1. /\ requestQueue # << >> /\ requestQueue' = Tail(requestQueue)
          /\ cur = Head(requestQueue) /\ UNCHANGED <<outstanding, outcome, sent, rd>>
      BY <1>19, <2>2, Zenon DEF PumpPop, PopIf, FrontIs, IsEmpty
    <3>2. cur \in Requests
      BY <3>1, <1>0, TailFacts, Typed, Zenon
    <3>3. \A x \in Requests : ~PumpOwns(x) /\ (PumpOwns(x)' <=> x = cur)
      BY <1>19, <2>2, Zenon DEF PumpPop, PumpOwns
    <3>4. Claimed' = Claimed \cup {cur}
      BY <3>1, <3>2, <3>3, Zenon DEF Claimed, ReaderOwns
    <3>5. Lifecycle!Claim
      BY <3>1, <3>4, Zenon DEF Lifecycle!Claim
    <3> QED BY <3>5, Zenon DEF Lifecycle!LNext
  <2> QED BY <2>1, <2>2, Zenon
<1>20. CASE PumpCancel
  <2>1. cur \in Requests /\ PumpOwns(cur)
    BY <1>20, <1>0, Zenon DEF PumpCancel, PumpOwns, TypeOK, DataTypes, Hands
  <2>2. /\ UNCHANGED <<requestQueue, outstanding, sent, rd>> /\ outstanding = << >>
        /\ \A x \in Requests : ~PumpOwns(x)' /\ (PumpOwns(x) <=> x = cur)
    BY <1>20, <1>0, <2>1, Zenon DEF PumpCancel, PumpOwns, Ownership
  <2>3. \A y \in Readers : ~ReaderOwns(y, cur)
    BY <1>0, <2>1, Zenon DEF Ownership
  <2>4. cur \notin Range(outstanding)
    BY <2>2 DEF Range
  <2>5. Claimed' = Claimed \ {cur} /\ cur \in Claimed
    BY <2>1, <2>2, <2>3, <2>4, Zenon DEF Claimed, ReaderOwns
  <2>6. PICK k \in Outcomes \ {"none"} : k = (IF why = "drop" THEN "ctx" ELSE why)
    BY <1>20, <1>0, Zenon DEF PumpCancel, TypeOK, DataTypes, Hands, Outcomes, Reasons
  <2>7. PICK r \in Claimed : r = cur
    BY <2>5, Zenon
  <2>8. Notify(r, k)
    BY <1>20, <2>6, <2>7, Zenon DEF PumpCancel, Notify
  <2> QED BY <1>0, <2>2, <2>5, <2>7, <2>8, NotifySettles, Zenon
<1>21. CASE PumpCompleted
  BY <1>21, LifecyclePump, Zenon DEF PumpCompleted, TimerArmDone
<1>22. CASE PumpPausedCheck
  BY <1>22, LifecyclePump, Zenon DEF PumpPausedCheck
<1>23. CASE PumpDispatch
  <2>1. /\ UNCHANGED <<requestQueue, outstanding, outcome, rd>>
        /\ \A x \in Requests : ~PumpOwns(x) /\ ~PumpOwns(x)'
    BY <1>23, Zenon DEF PumpDispatch, PumpOwns
  <2>2. Claimed' = Claimed
    BY <2>1, Zenon DEF Claimed, ReaderOwns
  <2>3. CASE sent' = sent
    BY <2>1, <2>2, <2>3, Zenon DEF Lifecycle!lvars
  <2>4. CASE sent' # sent
    <3>1. /\ CanDispatch /\ cur' = Peek(requestQueue)
          /\ sent' = [sent EXCEPT ![cur'] = @ + 1]
      BY <1>23, <2>4, Zenon DEF PumpDispatch
    <3>2. /\ requestQueue # << >> /\ pending = None /\ cur' = Head(requestQueue)
          /\ cur' \in Requests /\ cur' = requestQueue[1] /\ 1 \in DOMAIN requestQueue
      BY <1>0, <3>1, TailFacts, Typed, Zenon DEF CanDispatch, IsEmpty, Peek, HasPendingRequest
    <3>3. ~(sent[cur'] > 0)
      BY <1>0, <3>2, ConstantsAssumption, Zenon DEF Window, OneInFlight
    <3>4. \A x \in Requests : sent'[x] > 0 <=> sent[x] > 0 \/ x = cur'
      <4>1. sent \in [Requests -> Nat]
        BY <1>0, Zenon DEF TypeOK, DataTypes
      <4> QED BY <3>1, <3>2, <3>3, <4>1
    <3>5. {x \in Requests : sent'[x] > 0} = {x \in Requests : sent[x] > 0} \cup {Head(requestQueue)}
      BY <3>2, <3>4, Zenon
    <3>6. Lifecycle!Transmit
      BY <2>1, <2>2, <3>2, <3>3, <3>5, Zenon DEF Lifecycle!Transmit
    <3> QED BY <3>6, Zenon DEF Lifecycle!LNext
  <2> QED BY <2>3, <2>4, Zenon
<1>24. CASE PumpArm
  BY <1>24, LifecyclePump, Zenon DEF PumpArm
<1>25. CASE PumpClear
  BY <1>25, LifecyclePump, Zenon DEF PumpClear
<1>26. CASE PumpDrain
  <2>0. PICK S \in SUBSET Requests : S = Range(outstanding)
    BY <1>0, Typed, Zenon
  <2>1. /\ Claimed' = Claimed \ S
        /\ \A x \in Requests : IF x \in S THEN outcome'[x] = "stopped"
                                          ELSE outcome'[x] = outcome[x]
    BY <1>26, <1>0, <2>0, OwnershipDrain, Zenon
  <2>2. requestQueue' = << >> /\ UNCHANGED sent
    BY <1>26, Zenon DEF PumpDrain
  <2>3. S \subseteq Claimed /\ \A x \in S : outcome[x] = "none"
    BY <1>0, <2>0, Zenon DEF Claimed, Ownership
  <2>4. S \cap {x \in Requests : outcome[x] # "none"} = {}
    BY <2>3, Zenon
  <2>5. {x \in Requests : outcome'[x] # "none"} = {x \in Requests : outcome[x] # "none"} \cup S
    BY <2>1, Zenon
  <2>6. Lifecycle!Range(requestQueue) \cap {x \in Requests : sent[x] > 0} = {}
    <3>1. \A x \in Range(requestQueue) : sent[x] = 0
      BY <1>26, <1>0, Zenon DEF PumpDrain, Window
    <3>2. Lifecycle!Range(requestQueue) = Range(requestQueue)
      BY Zenon DEF Lifecycle!Range, Range
    <3> QED BY <3>1, <3>2
  <2>7. Lifecycle!EndSession(S)
    BY <2>1, <2>2, <2>3, <2>4, <2>5, <2>6, Zenon DEF Lifecycle!EndSession
  <2> QED BY <2>7, Zenon DEF Lifecycle!LNext
<1>27. CASE PumpExit
  BY <1>27, LifecyclePump, Zenon DEF PumpExit
<1>28. CASE Disconnected
  BY <1>28, LifecycleQuiet, Zenon DEF Disconnected
<1>29. CASE Pause
  BY <1>29, LifecycleQuiet, Zenon DEF Pause
<1>30. CASE Reconnected
  BY <1>30, LifecycleQuiet, Zenon DEF Reconnected
<1>31. CASE ResumeCheck
  BY <1>31, LifecycleQuiet, Zenon DEF ResumeCheck
<1>32. CASE ResumeRearm
  BY <1>32, LifecycleQuiet, Zenon DEF ResumeRearm
<1>33. CASE ResumeReady
  BY <1>33, LifecycleQuiet, Zenon DEF ResumeReady
<1>34. CASE ClientStart
  BY <1>34, LifecycleQuiet, Zenon DEF ClientStart
<1>35. CASE ClientStartWithRetries
  BY <1>35, LifecycleQuiet, Zenon DEF ClientStartWithRetries
<1>36. CASE Dialled
  BY <1>36, LifecycleQuiet, Zenon DEF Dialled
<1>37. CASE Start
  <2>1. pc = "off" /\ pc' = "top" /\ UNCHANGED <<requestQueue, outstanding, outcome, sent, rd>>
    BY <1>37, <1>0, Zenon DEF Start, Session
  <2> QED BY <2>1, LifecyclePump, Zenon
<1>38. ASSUME NEW s \in Stoppers, ClientStop(s) PROVE [Lifecycle!LNext]_(Lifecycle!lvars)
  BY <1>38, LifecycleQuiet, Zenon DEF ClientStop
<1>39. ASSUME NEW s \in Stoppers, StopIsRunning(s) PROVE [Lifecycle!LNext]_(Lifecycle!lvars)
  BY <1>39, LifecycleQuiet, Zenon DEF StopIsRunning
<1>40. ASSUME NEW s \in Stoppers, StopClose(s) PROVE [Lifecycle!LNext]_(Lifecycle!lvars)
  BY <1>40, LifecycleQuiet, Zenon DEF StopClose
<1>41. ASSUME NEW s \in Stoppers, StopJoin(s) PROVE [Lifecycle!LNext]_(Lifecycle!lvars)
  BY <1>41, LifecycleQuiet, Zenon DEF StopJoin
<1>42. CASE UNCHANGED vars
  BY <1>42, LifecycleQuiet, Zenon DEF vars
<1> QED
  BY <1>1, <1>2, <1>3, <1>4, <1>5, <1>6, <1>7, <1>8, <1>9, <1>10, <1>11, <1>12,
     <1>13, <1>14, <1>15, <1>16, <1>17, <1>18, <1>19, <1>20, <1>21, <1>22, <1>23,
     <1>24, <1>25, <1>26, <1>27, <1>28, <1>29, <1>30, <1>31, <1>32, <1>33, <1>34,
     <1>35, <1>36, <1>37, <1>38, <1>39, <1>40, <1>41, <1>42, Zenon
     DEF Next, Send, Read, Pump, Hook, Stop, Finished

\* The initial states correspond.
LEMMA LifecycleInit == Init => Lifecycle!LInit
PROOF
<1> SUFFICES ASSUME Init PROVE Lifecycle!LInit
  BY Zenon
<1>1. Range(<< >>) = {}
  BY DEF Range
<1>2. Claimed = {}
  BY <1>1, Zenon DEF Init, Claimed, PumpOwns, ReaderOwns
<1> QED BY <1>2 DEF Init, Lifecycle!LInit

\* The dispatcher implements the request life cycle: FIFO, a window of one, a single
\* claim (CompleteRequest, 484-505) and a single report of each request.
THEOREM ImplementsLifecycle == Spec => LifecycleSpec
PROOF BY LifecycleInit, LifecycleStep, IndInvHolds, PTL DEF Spec, LifecycleSpec, Lifecycle!LSpec

-----------------------------------------------------------------------------
(* What SendRequest accepts is reported, in a dispatcher that is started once *)

\* The steps that neither queue nor accept a request and begin or end no session.
Aside ==
    /\ UNCHANGED <<requestQueue, snd, running, starts, starter>>
    /\ Ended' => Ended
    /\ pc = "off" => pc' = "off"

LEMMA AsideStep ==
    ASSUME [Next]_vars
    PROVE  \/ Aside
           \/ \E r \in Requests : Send(r)
           \/ \E p \in Readers : ReadPop(p)
           \/ PumpPop \/ PumpClosed \/ PumpDrain
           \/ ClientStart \/ ClientStartWithRetries \/ Dialled \/ Start
           \/ \E s \in Stoppers : StopClose(s)
PROOF
<1> USE DEF Aside, Ended
<1>1. CASE TimerFire \/ Disconnected \/ Reconnected \/ Hook \/ \E r \in Requests : CtxFire(r)
  BY <1>1, Zenon DEF TimerFire, Disconnected, Reconnected, Hook, CtxFire, Pause, ResumeCheck, ResumeRearm, ResumeReady
<1>2. ASSUME NEW p \in Readers, ReadReply(p) \/ ReadDelete(p) \/ ReadDeliver(p) PROVE Aside
  BY <1>2, Zenon DEF ReadReply, ReadDelete, ReadDeliver
<1>3. CASE PumpReconcile \/ PumpPosted \/ PumpTick \/ PumpReady
  BY <1>3, Zenon DEF PumpReconcile, PumpPosted, PumpTick, PumpReady
<1>4. CASE PumpCtxDone \/ PumpExpired \/ PumpPeekExpired
  BY <1>4, Zenon DEF PumpCtxDone, PumpExpired, PumpPeekExpired, TimerArmDone
<1>5. CASE PumpCancel \/ PumpCompleted \/ PumpPausedCheck
  BY <1>5, Zenon DEF PumpCancel, PumpCompleted, PumpPausedCheck, TimerArmDone
<1>6. CASE PumpDispatch \/ PumpArm
  BY <1>6, Zenon DEF PumpDispatch, PumpArm
<1>7. CASE PumpClear \/ PumpExit
  BY <1>7, Zenon DEF PumpClear, PumpExit
<1>8. ASSUME NEW s \in Stoppers, ClientStop(s) \/ StopIsRunning(s) \/ StopJoin(s) PROVE Aside
  BY <1>8, Zenon DEF ClientStop, StopIsRunning, StopJoin
<1>9. CASE UNCHANGED vars
  BY <1>9, Zenon DEF vars
<1> QED BY <1>1, <1>2, <1>3, <1>4, <1>5, <1>6, <1>7, <1>8, <1>9, Zenon
     DEF Next, Read, Pump, Stop, Finished

\* A second Start never comes, and before the first one every sender is turned away.
LEMMA OneSessionStep ==
    ASSUME TypeOK, Session, OneSession, MaxStarts <= 1, [Next]_vars
    PROVE  OneSession'
PROOF
<1> USE DEF OneSession
<1>0. /\ snd \in [Requests -> {"idle", "push", "rlock", "send", "accepted", "failed"}]
      /\ starts \in Nat
  BY Zenon DEF TypeOK, DataTypes
<1>1. CASE Aside
  BY <1>1, Zenon DEF Aside
<1>2. ASSUME NEW r \in Requests, Send(r) PROVE OneSession'
  <2>1. UNCHANGED <<starts, starter, pc>>
    BY <1>2, Zenon DEF Send, SendIsRunning, SendPush, SendRLock, SendPost
  <2>2. ASSUME pc = "off", \A x \in Requests : snd[x] \in {"idle", "failed"}
        PROVE  \A x \in Requests : snd'[x] \in {"idle", "failed"}
    <3>1. snd' = [snd EXCEPT ![r] = "failed"]
      BY <1>2, <2>2 DEF Send, SendIsRunning, SendPush, SendRLock, SendPost, Session
    <3> QED BY <1>0, <2>2, <3>1, Zenon
  <2> QED BY <2>1, <2>2, Zenon
<1>3. ASSUME NEW p \in Readers, ReadPop(p) PROVE OneSession'
  BY <1>3, Zenon DEF ReadPop
<1>4. CASE PumpPop \/ PumpClosed \/ PumpDrain
  BY <1>4, Zenon DEF PumpPop, PumpClosed, PumpDrain
<1>5. CASE ClientStart \/ ClientStartWithRetries
  <2>1. starts = 0 /\ starts' = 1 /\ UNCHANGED <<pc, snd>>
    BY <1>0, <1>5, ConstantsAssumption DEF ClientStart, ClientStartWithRetries
  <2> QED BY <2>1
<1>6. CASE Dialled \/ Start
  BY <1>6 DEF Dialled, Start
<1>7. ASSUME NEW s \in Stoppers, StopClose(s) PROVE OneSession'
  BY <1>7, Zenon DEF StopClose
<1> QED BY <1>1, <1>2, <1>3, <1>4, <1>5, <1>6, <1>7, AsideStep, Zenon

\* PopIf takes nothing but the front.
LEMMA PopTakes ==
    ASSUME NEW q \in Seq(Requests), NEW x, NEW r \in Range(q), r \notin Range(PopIf(q, x))
    PROVE  r = x /\ FrontIs(q, x)
PROOF
<1>1. FrontIs(q, x) /\ q # << >> /\ r \notin Range(Tail(q))
  BY Zenon DEF PopIf, FrontIs, IsEmpty
<1>2. PICK i \in DOMAIN q : r = q[i]
  BY Zenon DEF Range
<1>3. CASE i = 1
  BY <1>1, <1>2, <1>3 DEF FrontIs
<1>4. CASE i # 1
  <2>1. i - 1 \in DOMAIN Tail(q) /\ Tail(q)[i - 1] = r
    BY <1>1, <1>2, <1>4
  <2> QED BY <1>1, <2>1, Zenon DEF Range
<1> QED BY <1>3, <1>4, Zenon

\* PopIf, DrainAll and the callback move a request from one hand to the next; only the
\* final Init of the queue (dispatcher.go 317-319) lets go of any.
LEMMA InHandStep ==
    ASSUME IndInv, [Next]_vars, NEW r \in Requests, InHand(r), outcome'[r] = "none",
           pc = "drain" => r \notin Range(requestQueue)
    PROVE  InHand(r)'
PROOF
<1>0. TypeOK /\ requestQueue \in Seq(Requests)
      /\ rd \in [Readers -> [pc : {"idle", "pop", "delete", "deliver"}, id : Requests \cup {None}]]
  BY Zenon DEF IndInv, TypeOK, DataTypes
<1>1. CASE r \in Claimed
  <2>1. [Lifecycle!LNext]_(Lifecycle!lvars)
    BY LifecycleStep, Zenon
  <2>2. r \in Claimed'
    BY <1>1, <2>1, Zenon
       DEF Lifecycle!LNext, Lifecycle!lvars, Lifecycle!Enqueue, Lifecycle!Settle, Lifecycle!Transmit,
           Lifecycle!Claim, Lifecycle!ClaimAll, Lifecycle!EndSession
  <2> QED BY <2>2, Zenon DEF Claimed, InHand
<1>2. CASE r \in Range(requestQueue)
  <2>1. CASE Aside
    BY <1>2, <2>1, Zenon DEF Aside, InHand
  <2>2. ASSUME NEW x \in Requests, Send(x) PROVE InHand(r)'
    <3>1. requestQueue' = requestQueue \/ requestQueue' = Push(requestQueue, x)
      BY <2>2, Zenon DEF Send, SendIsRunning, SendPush, SendRLock, SendPost
    <3>2. Range(requestQueue) \subseteq Range(requestQueue')
      BY <1>0, <3>1, PushFacts, Zenon
    <3> QED BY <1>2, <3>2, Zenon DEF InHand
  <2>3. ASSUME NEW p \in Readers, ReadPop(p), r \notin Range(requestQueue') PROVE InHand(r)'
    <3>1. r = rd[p].id /\ FrontIs(requestQueue, rd[p].id)
      BY <1>0, <1>2, <2>3, PopTakes, Zenon DEF ReadPop
    <3>2. ReaderOwns(p, r)'
      BY <1>0, <2>3, <3>1, Zenon DEF ReadPop, ReaderOwns
    <3> QED BY <3>2, Zenon DEF InHand
  <2>4. ASSUME PumpPop, r \notin Range(requestQueue') PROVE InHand(r)'
    <3>1. r = cur /\ FrontIs(requestQueue, cur)
      BY <1>0, <1>2, <2>4, PopTakes, Zenon DEF PumpPop
    <3> QED BY <2>4, <3>1, Zenon DEF PumpPop, PumpOwns, InHand
  <2>5. CASE PumpClosed
    BY <1>2, <2>5, Zenon DEF PumpClosed, DrainAll, InHand
  <2>6. ~PumpDrain
    BY <1>2, Zenon DEF PumpDrain
  <2>7. ASSUME NEW s \in Stoppers, StopClose(s) PROVE InHand(r)'
    BY <1>2, <2>7, Zenon DEF StopClose, InHand
  <2>8. CASE ClientStart \/ ClientStartWithRetries \/ Dialled \/ Start
    BY <1>2, <2>8, Zenon DEF ClientStart, ClientStartWithRetries, Dialled, Start, InHand
  <2> QED BY <2>1, <2>2, <2>3, <2>4, <2>5, <2>6, <2>7, <2>8, AsideStep, Zenon DEF InHand
<1> QED BY <1>1, <1>2, Zenon DEF InHand, Claimed

\* A sender that comes after the drain finds the dispatcher stopped.
LEMMA LateStep ==
    ASSUME IndInv, Reported, [Next]_vars, Ended', NEW r \in Range(requestQueue')
    PROVE  snd'[r] \in {"rlock", "failed"}
PROOF
<1>0. /\ snd \in [Requests -> {"idle", "push", "rlock", "send", "accepted", "failed"}]
      /\ requestQueue \in Seq(Requests) /\ Session
  BY Zenon DEF IndInv, TypeOK, DataTypes
<1>r. r \in Requests
  <2>1. requestQueue' \in Seq(Requests)
    BY StepIndInv, Zenon DEF IndInv, TypeOK, DataTypes
  <2> QED BY <2>1 DEF Range
<1>1. Ended => ~running /\ requestChannel # "open"
  BY <1>0 DEF Ended, Session
<1>2. Ended /\ r \in Range(requestQueue) => snd[r] \in {"rlock", "failed"}
  BY Zenon DEF Reported
<1>3. CASE Aside
  BY <1>2, <1>3, Zenon DEF Aside
<1>4. ASSUME NEW x \in Requests, Send(x) PROVE snd'[r] \in {"rlock", "failed"}
  <2>1. Ended
    BY <1>4, Zenon DEF Ended, Send, SendIsRunning, SendPush, SendRLock, SendPost
  <2>2. CASE SendIsRunning(x)
    BY <1>0, <1>2, <2>1, <2>2 DEF SendIsRunning
  <2>3. CASE SendPush(x)
    <3>1. CASE UNCHANGED requestQueue /\ snd' = [snd EXCEPT ![x] = "failed"]
      BY <1>0, <1>2, <1>r, <2>1, <3>1, Zenon
    <3>2. CASE requestQueue' = Push(requestQueue, x) /\ snd' = [snd EXCEPT ![x] = "rlock"]
      <4>1. r \in Range(requestQueue) \cup {x}
        BY <1>0, <3>2, PushFacts, Zenon
      <4> QED BY <1>0, <1>2, <1>r, <2>1, <3>2, <4>1, Zenon
    <3> QED BY <2>3, <3>1, <3>2, Zenon DEF SendPush
  <2>4. CASE SendRLock(x)
    BY <1>0, <1>1, <1>2, <1>r, <2>1, <2>4, Zenon DEF SendRLock
  <2>5. ~SendPost(x)
    BY <1>0, <1>1, <2>1, Zenon DEF SendPost, Session, SendOnOpenChannel
  <2> QED BY <1>4, <2>2, <2>3, <2>4, <2>5, Zenon DEF Send
<1>5. ASSUME NEW p \in Readers, ReadPop(p) PROVE snd'[r] \in {"rlock", "failed"}
  <2>1. Ended /\ snd' = snd /\ requestQueue' = PopIf(requestQueue, rd[p].id)
    BY <1>5, Zenon DEF ReadPop, Ended
  <2>2. r \in Range(requestQueue)
    BY <1>0, <2>1, TailFacts, Zenon DEF PopIf, FrontIs, IsEmpty
  <2> QED BY <1>2, <2>1, <2>2, Zenon
<1>6. ~PumpPop
  BY Zenon DEF PumpPop, Ended
<1>7. CASE PumpClosed \/ PumpDrain
  BY <1>7 DEF PumpClosed, PumpDrain, Range
<1>8. CASE ClientStart \/ ClientStartWithRetries \/ Dialled
  BY <1>2, <1>8, Zenon DEF ClientStart, ClientStartWithRetries, Dialled, Ended
<1>9. ~Start
  BY Zenon DEF Start, Ended
<1>10. ASSUME NEW s \in Stoppers, StopClose(s) PROVE snd'[r] \in {"rlock", "failed"}
  BY <1>2, <1>10, Zenon DEF StopClose, Ended
<1> QED BY <1>3, <1>4, <1>5, <1>6, <1>7, <1>8, <1>9, <1>10, AsideStep, Zenon

\* Only Start makes the dispatcher run, and every sender goes its own way.
LEMMA RunStep ==
    ASSUME TypeOK, [Next]_vars
    PROVE  /\ running' => running \/ starter # "idle"
           /\ \A r \in Requests : snd'[r] = snd[r] \/ Send(r)
PROOF
<1>0. snd \in [Requests -> {"idle", "push", "rlock", "send", "accepted", "failed"}]
  BY Zenon DEF TypeOK, DataTypes
<1>1. CASE Aside
  BY <1>1, Zenon DEF Aside
<1>2. ASSUME NEW x \in Requests, Send(x)
      PROVE  running' = running /\ \A r \in Requests : snd'[r] = snd[r] \/ Send(r)
  <2>1. running' = running
    BY <1>2 DEF Send, SendIsRunning, SendPush, SendRLock, SendPost
  <2>2. \E k : snd' = [snd EXCEPT ![x] = k]
    BY <1>2, Zenon DEF Send, SendIsRunning, SendPush, SendRLock, SendPost
  <2>3. \A r \in Requests : snd'[r] = snd[r] \/ r = x
    BY <1>0, <2>2, Zenon
  <2> QED BY <1>2, <2>1, <2>3, Zenon
<1>3. ASSUME NEW p \in Readers, ReadPop(p) PROVE UNCHANGED <<running, snd>>
  BY <1>3 DEF ReadPop
<1>4. CASE PumpPop \/ PumpClosed \/ PumpDrain
  BY <1>4 DEF PumpPop, PumpClosed, PumpDrain
<1>5. CASE ClientStart \/ ClientStartWithRetries \/ Dialled \/ Start
  BY <1>5 DEF ClientStart, ClientStartWithRetries, Dialled, Start
<1>6. ASSUME NEW s \in Stoppers, StopClose(s) PROVE (running' => running) /\ snd' = snd
  BY <1>6, Zenon DEF StopClose
<1> QED BY <1>1, <1>2, <1>3, <1>4, <1>5, <1>6, AsideStep, Zenon

\* An outcome is never taken back.
LEMMA OutcomeStep ==
    ASSUME IndInv, [Next]_vars, NEW r \in Requests, outcome'[r] = "none"
    PROVE  outcome[r] = "none"
PROOF
<1>1. [Lifecycle!LNext]_(Lifecycle!lvars)
  BY LifecycleStep, Zenon
<1>2. r \notin {x \in Requests : outcome'[x] # "none"} => r \notin {x \in Requests : outcome[x] # "none"}
  BY <1>1, Zenon
     DEF Lifecycle!LNext, Lifecycle!lvars, Lifecycle!Enqueue, Lifecycle!Settle, Lifecycle!Transmit,
         Lifecycle!Claim, Lifecycle!ClaimAll, Lifecycle!EndSession
<1> QED BY <1>2, Zenon

\* Reported is inductive, relative to IndInv, in a dispatcher that is started once.
LEMMA ReportedStep ==
    ASSUME IndInv, OneSession, Reported, [Next]_vars
    PROVE  Reported'
PROOF
<1>0. /\ snd \in [Requests -> {"idle", "push", "rlock", "send", "accepted", "failed"}]
      /\ requestQueue \in Seq(Requests) /\ Session /\ TypeOK
  BY Zenon DEF IndInv, TypeOK, DataTypes
<1>1. ASSUME NEW r \in Requests, outcome'[r] = "none",
             snd'[r] \in {"send", "accepted"} \/ (snd'[r] = "rlock" /\ running')
      PROVE  InHand(r)'
  <2>0. outcome[r] = "none"
    BY <1>1, OutcomeStep, Zenon
  <2>1. ASSUME snd[r] \in {"send", "accepted"} \/ (snd[r] = "rlock" /\ running) PROVE InHand(r)'
    <3>1. InHand(r)
      BY <2>0, <2>1, Zenon DEF Reported
    <3>2. pc = "drain" => r \notin Range(requestQueue)
      <4>1. pc = "drain" => Ended /\ ~running
        BY <1>0 DEF Ended, Session
      <4> QED BY <2>1, <4>1, Zenon DEF Reported
    <3> QED BY <1>1, <3>1, <3>2, InHandStep, Zenon
  <2>2. CASE snd'[r] = snd[r]
    <3>1. snd[r] = "rlock" /\ running' => running
      BY <1>0, RunStep, Zenon DEF OneSession
    <3> QED BY <1>1, <2>1, <2>2, <3>1, Zenon
  <2>3. CASE SendIsRunning(r)
    BY <1>0, <1>1, <2>3, Zenon DEF SendIsRunning
  <2>4. CASE SendPush(r)
    <3>1. requestQueue' = Push(requestQueue, r)
      BY <1>0, <1>1, <2>4, Zenon DEF SendPush
    <3>2. r \in Range(requestQueue')
      <4>1. Range(Push(requestQueue, r)) = Range(requestQueue) \cup {r}
        BY <1>0, PushFacts, Zenon
      <4> QED BY <3>1, <4>1
    <3> QED BY <3>2, Zenon DEF InHand
  <2>5. CASE SendRLock(r) \/ SendPost(r)
    BY <1>0, <1>1, <2>1, <2>5, Zenon DEF SendRLock, SendPost
  <2> QED BY <1>0, <2>2, <2>3, <2>4, <2>5, RunStep, Zenon DEF Send
<1> QED BY <1>1, LateStep, Zenon DEF Reported

\* Nobody has sent anything before the first Start, and nothing is forgotten while Reported holds.
LEMMA ReportedFacts ==
    /\ Init => OneSession /\ Reported
    /\ IndInv /\ Reported => AcceptedIsReported
PROOF
<1>1. Init => OneSession /\ Reported
  BY DEF Init, OneSession, Reported, Range
<1>2. ASSUME IndInv, Reported, NEW r \in Requests, snd[r] = "accepted", outcome[r] = "none"
      PROVE  IF pc = "off" THEN \E p \in Readers : ReaderOwns(p, r) ELSE InHand(r)
  <2>1. InHand(r)
    BY <1>2, Zenon DEF Reported
  <2>2. ASSUME pc = "off" PROVE \E p \in Readers : ReaderOwns(p, r)
    <3>1. r \notin Range(requestQueue)
      BY <1>2, <2>2, Zenon DEF Reported, Ended
    <3>2. r \notin Range(outstanding)
      BY <1>2, <2>2 DEF IndInv, Ownership, Range
    <3> QED BY <2>1, <2>2, <3>1, <3>2, Zenon DEF InHand, PumpOwns
  <2> QED BY <2>1, <2>2, Zenon
<1> QED BY <1>1, <1>2, Zenon DEF AcceptedIsReported

\* SendRequest and the stop drain (231-255, 291-322): in a dispatcher that is started once, a request that was
\* accepted is reported or will be, and once the pump has gone only a read goroutine still has it.
THEOREM AcceptedIsReportedHolds == MaxStarts <= 1 => (Spec => []AcceptedIsReported)
PROOF
<1> SUFFICES ASSUME MaxStarts <= 1 PROVE Spec => []AcceptedIsReported
  BY Zenon
<1>1. IndInv /\ OneSession /\ Reported /\ [Next]_vars => OneSession' /\ Reported'
  <2>1. IndInv => TypeOK /\ Session
    BY Zenon DEF IndInv
  <2> QED BY <2>1, OneSessionStep, ReportedStep, Zenon
<1> QED BY <1>1, ReportedFacts, IndInvHolds, PTL DEF Spec

=============================================================================

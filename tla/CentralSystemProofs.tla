------------------------ MODULE CentralSystemProofs ------------------------
(* Proofs about CentralSystem, for any charge points, requests, panicking   *)
(* callbacks, channel capacity and number of lost connections.              *)
EXTENDS CentralSystem, TLAPS

USE CentralAssumption
USE DEF queueVars, dispVars, sendUnchanged, pumpUnchanged, linkUnchanged

\* Every step of the facade, of the dispatcher below it and of a lost connection keeps
\* each callback in one hand.
LEMMA StepIndInv == IndInv /\ [Next]_vars => IndInv'
PROOF
<1> SUFFICES ASSUME IndInv, [Next]_vars PROVE IndInv'
  BY Zenon
<1> USE DEF IndInv, Ranges, MutexHeld, OneHand, Charge, InCharge, NoneForgotten, Of
<1>1. ASSUME NEW r \in Requests, SendLooksUp(r) PROVE IndInv'
  BY <1>1 DEF SendLooksUp, Acquire, Free
<1>2. ASSUME NEW r \in Requests, SendPushes(r) PROVE IndInv'
  BY <1>2 DEF SendPushes
<1>3. ASSUME NEW r \in Requests, SendRLocks(r) PROVE IndInv'
  BY <1>3 DEF SendRLocks, Abandon
<1>4. ASSUME NEW r \in Requests, SendPosts(r) PROVE IndInv'
  BY <1>4 DEF SendPosts, Register
<1>5. ASSUME NEW r \in Requests, PumpDispatches(r) \/ PumpTimesOut(r) \/ PumpDrains(r) PROVE IndInv'
  BY <1>5 DEF PumpDispatches, PumpTimesOut, PumpDrains
<1>6. ASSUME NEW r \in Requests, HandleCanceledRequest(r) PROVE IndInv'
  BY <1>6 DEF HandleCanceledRequest
<1>7. ASSUME NEW r \in Requests, CancelGoroutine(r) PROVE IndInv'
  BY <1>7 DEF CancelGoroutine, Deliver, Dequeue, Called, Free
<1>8. ASSUME NEW r \in Requests, Reply(r) PROVE IndInv'
  BY <1>8 DEF Reply
<1>9. CASE PumpTakes \/ StopDispatcher
  BY <1>9 DEF PumpTakes, StopDispatcher
<1>10. ASSUME NEW c \in Clients, HandleIncomingConfirmation(c) PROVE IndInv'
  BY <1>10 DEF HandleIncomingConfirmation, Deliver, Dequeue, Called, Free
<1>11. ASSUME NEW c \in Clients, ClientLost(c) PROVE IndInv'
  BY <1>11 DEF ClientLost
<1>12. ASSUME NEW c \in Clients, DeleteClient(c) PROVE IndInv'
  BY <1>12 DEF DeleteClient
<1>13. ASSUME NEW c \in Clients, DrainClient(c) PROVE IndInv'
  BY <1>13 DEF DrainClient, DrainAll, Free
<1>14. ASSUME NEW c \in Clients, CallDrained(c) PROVE IndInv'
  BY <1>14 DEF CallDrained, Called
<1>15. ASSUME NEW c \in Clients, Reconnected(c) PROVE IndInv'
  BY <1>15 DEF Reconnected
<1>16. CASE UNCHANGED vars
  BY <1>16 DEF vars
<1> QED BY <1>1, <1>2, <1>3, <1>4, <1>5, <1>6, <1>7, <1>8, <1>9, <1>10, <1>11, <1>12, <1>13,
          <1>14, <1>15, <1>16, Zenon DEF Next, Send, SendGoesOn, Pump, Disconnect, Finished

\* The invariant holds when the dispatcher has just started.
LEMMA InitIndInv == Init => IndInv
PROOF BY DEF Init, InitCallbacks, Free, IndInv, Ranges, MutexHeld, OneHand, Charge, InCharge, NoneForgotten, Of

\* A callback is in one hand at a time from TryQueue's unlock to its call, and the mutex
\* in that of the one sender inside TryQueue.
THEOREM IndInvHolds == Spec => []IndInv
PROOF
<1>1. IndInv /\ [Next]_vars => IndInv'
  BY StepIndInv, Zenon
<1> QED BY <1>1, InitIndInv, PTL DEF Spec

\* Whatever answer, cancellation and drain race for it, a callback is called at most
\* once, and never for a request whose sender was told that it failed.
THEOREM AtMostOneCallHolds == Spec => []AtMostOneCall
PROOF
<1>1. IndInv => AtMostOneCall
  BY DEF IndInv, Ranges, OneHand, AtMostOneCall
<1> QED BY <1>1, IndInvHolds, PTL

\* No callback is orphaned: as long as it is registered somebody is in charge of it, and
\* only a callback that panics in a drain (onClientDisconnected's one recover) loses others.
THEOREM NoneForgottenHolds == Spec => []NoneForgotten
PROOF BY IndInvHolds, PTL DEF IndInv

=============================================================================

--------------------------- MODULE CallbackQueue ---------------------------
(***************************************************************************)
(* internal/callbackqueue: the callbacks of the requests a facade has sent, *)
(* under one mutex.  TryQueue holds the mutex while the request is handed   *)
(* to the dispatcher, so callbacksMutex is a variable: it names the request *)
(* whose sender is inside.  Dequeue and DrainAll never wait once they are   *)
(* in, and are single steps.                                                *)
(*                                                                          *)
(* A message ID is a request of Requests: IDs do not repeat, so TryQueue's  *)
(* two refusals (an empty and a duplicate ID) do not occur.                 *)
(***************************************************************************)
CONSTANT None
VARIABLES callbacksMutex,  \* the request being sent, or None
          callbacks        \* requests with a registered callback

Free == callbacksMutex = None

InitCallbacks == Free /\ callbacks = {}

\* TryQueue, up to the call of try().
Acquire(r) == Free /\ callbacksMutex' = r

\* try() failed: nothing is registered.
Abandon(r) == /\ callbacksMutex = r
              /\ callbacksMutex' = None
              /\ UNCHANGED callbacks

\* try() returned the message ID: the callback is registered before the unlock.
Register(r) == /\ callbacksMutex = r
               /\ callbacksMutex' = None
               /\ callbacks' = callbacks \cup {r}

\* Mutant of Dequeue: the entry is left in the map.
Peek(r) == Free /\ UNCHANGED <<callbacksMutex, callbacks>>

Dequeue(r) == Free /\ callbacks' = callbacks \ {r} /\ UNCHANGED callbacksMutex

\* of: the requests of the client that is drained.
DrainAll(of) == Free /\ callbacks' = callbacks \ of /\ UNCHANGED callbacksMutex

=============================================================================

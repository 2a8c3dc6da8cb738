---------------------------- MODULE RequestQueue ----------------------------
(***************************************************************************)
(* The value-level operations of ocppj's two thread-safe stores, as         *)
(* operators on the value the store holds:                                 *)
(*                                                                         *)
(*   - FIFOClientQueue (ocppj/queue.go): a FIFO of request bundles with an *)
(*     optional capacity, a sequence here;                                 *)
(*   - clientState (ocppj/state.go): the single pending-request slot of a  *)
(*     channel, a request identifier or None here.                         *)
(*                                                                         *)
(* Every Go method takes the store's own mutex for its whole body, so each *)
(* operator below is one atomic step wherever a dispatcher uses it.        *)
(***************************************************************************)
EXTENDS Naturals, Sequences

CONSTANT None     \* the empty slot, the nil element of an empty queue

-----------------------------------------------------------------------------
(* FIFOClientQueue *)

\* capacity = 0 means "no maximum"
IsFull(q, capacity) == capacity > 0 /\ Len(q) >= capacity

Push(q, r) == Append(q, r)

IsEmpty(q) == q = << >>

Peek(q) == IF IsEmpty(q) THEN None ELSE Head(q)

FrontIsAny(q, r) == ~IsEmpty(q)

\* the predicate every dispatcher hands to PopIf: the front has this message ID
FrontIs(q, r) == ~IsEmpty(q) /\ Head(q) = r

PopIf(q, r) == IF FrontIs(q, r) THEN Tail(q) ELSE q

-----------------------------------------------------------------------------
(* clientState *)

HasPendingRequest(s) == s # None

\* a second pending request is ignored
AddPendingRequest(s, r) == IF s = None THEN r ELSE s

DeletePendingRequest(s, r) == IF s = r THEN None ELSE s
=============================================================================

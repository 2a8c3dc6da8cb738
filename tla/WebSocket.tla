----------------------------- MODULE WebSocket -----------------------------
(***************************************************************************)
(* One websocket of package ws (ws/websocket.go): the connection field, the *)
(* four channels, the done signal, and the two goroutines readPump and      *)
(* writePump.  The module has no next-state relation of its own.  Server    *)
(* and client both wrap it: they EXTEND it, add the steps of the onMessage, *)
(* onError and onClosed callbacks, and compose the pumps of all sockets     *)
(* with their own goroutines.                                               *)
(*                                                                          *)
(* A socket is a record; an operation is an action on sock[c].              *)
(***************************************************************************)
EXTENDS Naturals, FiniteSets

CONSTANTS Conns,     \* the websockets that may be created, one per upgrade or dial
          Actors,    \* goroutines that call Write and Close from outside
          Input,     \* Conns -> how many messages (or pings) the peer sends
          Pings,     \* TRUE: ReadWait > 0, the ping handler is installed
          SendsPings \* TRUE: PingConfig is set, the ticker fires

ASSUME SocketAssumption == Input \in [Conns -> Nat]

VARIABLE sock

OutCap == 2          \* make(chan message, 2); the other channels hold one

(***************************************************************************)
(* conn: the connection field.  peer: whether the network still carries the *)
(* connection.  input: messages the peer has yet to send.  inside: the      *)
(* callers that hold the read lock while they wait in a select.  The lock   *)
(* itself is otherwise taken only around steps that never wait.             *)
(***************************************************************************)
Unborn(c) == [conn |-> "none", peer |-> "up", input |-> Input[c],
              outQ |-> 0, pingQ |-> 0, closeQ |-> 0, forceQ |-> 0,
              done |-> FALSE, cause |-> "nil", inside |-> {},
              reader |-> "off", writer |-> "off"]

WriterPCs == {"off", "select", "failed", "closeFailed", "cleanup", "lock", "onClosed",
              "removed", "emit", "ungate", "exit"}
ReaderPCs == {"off", "start", "read", "ping", "onMessage", "check", "panic", "exit"}

SocketType == [conn : {"none", "open", "nil"}, peer : {"up", "down"}, input : Nat,
               outQ : 0..OutCap, pingQ : 0..1, closeQ : 0..1, forceQ : 0..1,
               done : BOOLEAN, cause : {"nil", "err"}, inside : SUBSET Actors,
               reader : ReaderPCs, writer : WriterPCs]

Sockets == sock \in [Conns -> SocketType]

InitSockets == sock = [c \in Conns |-> Unborn(c)]

----------------------------------------------------------------------------
(* newWebSocket: the wrapper exists, its pumps do not run yet.             *)
NewWebSocket(c) == [sock EXCEPT ![c].conn = "open"]

(* run: both pumps are spawned.                                            *)
RunSocket(c) == [sock EXCEPT ![c].reader = "start", ![c].writer = "select"]

IsOpen(c) == sock[c].conn = "open"

(* The network loses the connection, or the peer closes it.  A write may    *)
(* still succeed afterwards; a read fails.                                 *)
PeerGoes(c) == /\ IsOpen(c)
               /\ sock[c].peer = "up"
               /\ sock' = [sock EXCEPT ![c].peer = "down"]

(* WriteManual and Close share their shape: the read lock, the nil check,   *)
(* then a select between a channel and done with the lock still held.  A    *)
(* call that does not have to wait is one step; one that waits stays        *)
(* "inside", holding the read lock, until the channel has room or done is   *)
(* closed.                                                                  *)
CallReturns(a, c, room, accepted) ==
    \/ /\ ~IsOpen(c)
       /\ sock' = sock
    \/ /\ IsOpen(c) /\ room
       /\ sock' = [accepted EXCEPT ![c].inside = @ \ {a}]
    \/ /\ IsOpen(c) /\ sock[c].done
       /\ sock' = [sock EXCEPT ![c].inside = @ \ {a}]

CallWaits(a, c, room) == /\ IsOpen(c)
                         /\ ~room /\ ~sock[c].done
                         /\ a \notin sock[c].inside
                         /\ sock' = [sock EXCEPT ![c].inside = @ \cup {a}]

WriteReturns(a, c) == CallReturns(a, c, sock[c].outQ < OutCap, [sock EXCEPT ![c].outQ = @ + 1])
WriteWaits(a, c)   == CallWaits(a, c, sock[c].outQ < OutCap)

CloseReturns(a, c) == CallReturns(a, c, sock[c].closeQ = 0, [sock EXCEPT ![c].closeQ = 1])
CloseWaits(a, c)   == CallWaits(a, c, sock[c].closeQ = 0)

----------------------------------------------------------------------------
(* writePump: one action per case of its select.  A write on a lost         *)
(* connection may fail; the failure is first reported through onError.     *)

\* The goroutine leaves its loop for cleanup with the given cause.
Leave(c, cause) == [sock EXCEPT ![c].writer = "cleanup", ![c].cause = cause]

WriteOutcome(c, after) ==
    \/ sock' = after
    \/ /\ sock[c].peer = "down"
       /\ sock' = [after EXCEPT ![c].writer = "failed"]

WriterPing(c) == /\ SendsPings
                 /\ sock[c].writer = "select"
                 /\ sock[c].peer = "down"
                 /\ sock' = [sock EXCEPT ![c].writer = "failed"]

WriterPong(c) == /\ sock[c].writer = "select"
                 /\ sock[c].pingQ > 0
                 /\ WriteOutcome(c, [sock EXCEPT ![c].pingQ = @ - 1])

WriterSend(c) == /\ sock[c].writer = "select"
                 /\ sock[c].outQ > 0
                 /\ WriteOutcome(c, [sock EXCEPT ![c].outQ = @ - 1])

\* A close frame that cannot be written is reported, but the close is still graceful.
WriterClose(c) == /\ sock[c].writer = "select"
                  /\ sock[c].closeQ > 0
                  /\ LET taken == [Leave(c, "nil") EXCEPT ![c].closeQ = 0]
                     IN \/ sock' = taken
                        \/ /\ sock[c].peer = "down"
                           /\ sock' = [taken EXCEPT ![c].writer = "closeFailed"]

WriterForced(c) == /\ sock[c].writer = "select"
                   /\ sock[c].forceQ > 0
                   /\ sock' = [Leave(c, "err") EXCEPT ![c].forceQ = 0]

\* onError has returned: cleanup follows.  Only a failed write makes the close a forced one.
AfterWriteError(c) == [sock EXCEPT ![c].writer = "cleanup",
                                   ![c].cause = IF sock[c].writer = "failed" THEN "err" ELSE @]

(* cleanup: done is closed before the exclusive lock is asked for; under    *)
(* the lock the connection is closed and becomes nil, and the channels are  *)
(* closed: what they hold is never looked at again.                         *)
CleanupSignal(c) == /\ sock[c].writer = "cleanup"
                    /\ sock' = [sock EXCEPT ![c].done = TRUE, ![c].writer = "lock"]

CleanupLocked(c) == /\ sock[c].writer = "lock"
                    /\ sock[c].inside = {}
                    /\ sock' = [sock EXCEPT ![c] = [@ EXCEPT !.conn = "nil", !.peer = "down", !.writer = "onClosed",
                                                            !.outQ = 0, !.pingQ = 0, !.closeQ = 0, !.forceQ = 0]]

WritePump(c) == \/ WriterPing(c)
                \/ WriterPong(c)
                \/ WriterSend(c)
                \/ WriterClose(c)
                \/ WriterForced(c)
                \/ CleanupSignal(c)
                \/ CleanupLocked(c)

----------------------------------------------------------------------------
(* readPump.  What the peer sent before the connection went away may still  *)
(* be read from the buffer afterwards.  onError on this goroutine only      *)
(* delays it (it waits for a lock, then sends without blocking), so its     *)
(* calls are left out: a nil connection ends the pump, a handler error or   *)
(* an unexpected close code changes nothing else.                           *)
ReaderStart(c) == /\ sock[c].reader = "start"
                  /\ sock' = [sock EXCEPT ![c].reader = IF IsOpen(c) THEN "read" ELSE "exit"]

ReaderMessage(c) == /\ sock[c].reader = "read"
                    /\ sock[c].input > 0
                    /\ sock' = [sock EXCEPT ![c].input = @ - 1, ![c].reader = "onMessage"]

ReaderPing(c) == /\ Pings
                 /\ sock[c].reader = "read"
                 /\ sock[c].input > 0
                 /\ sock' = [sock EXCEPT ![c].input = @ - 1, ![c].reader = "ping"]

(* onPing sends on pingC without the lock: on a closed channel it panics.   *)
OnPing(c) == /\ sock[c].reader = "ping"
             /\ \/ /\ ~IsOpen(c)
                   /\ sock' = [sock EXCEPT ![c].reader = "panic"]
                \/ /\ IsOpen(c)
                   /\ sock[c].pingQ = 0
                   /\ sock' = [sock EXCEPT ![c].pingQ = 1, ![c].reader = "read"]

ReaderFails(c) == /\ sock[c].reader = "read"
                  /\ sock[c].peer = "down"
                  /\ sock' = [sock EXCEPT ![c].reader = "check"]

\* Mutant of ReaderCheck: the writePump is not told that the read failed.
SilentReaderCheck(c) == /\ sock[c].reader = "check"
                        /\ sock' = [sock EXCEPT ![c].reader = "exit", ![c].input = 0]

(* "Verify whether the disconnect was already dealt with": under the read   *)
(* lock, so the force channel cannot be closed in between.                 *)
ReaderCheck(c) == /\ sock[c].reader = "check"
                  /\ sock' = [sock EXCEPT ![c].reader = "exit", ![c].input = 0,
                                          ![c].forceQ = IF IsOpen(c) THEN 1 ELSE @]

\* onMessage has returned.
AfterMessage(c) == [sock EXCEPT ![c].reader = "read"]

ReadPump(c) == \/ ReaderStart(c)
               \/ ReaderMessage(c)
               \/ ReaderPing(c)
               \/ OnPing(c)
               \/ ReaderFails(c)
               \/ ReaderCheck(c)

----------------------------------------------------------------------------
(* What the goroutines of one socket know of each other: the pumps start    *)
(* together, done is closed before conn becomes nil, and a reader that has  *)
(* left has told a writer that has not.                                     *)
Running == {"select", "failed", "closeFailed", "cleanup", "lock"}
Closed == {"onClosed", "removed", "emit", "ungate", "exit"}

SocketLife(c) ==
    /\ sock[c].reader = "off" <=> sock[c].writer = "off"
    /\ sock[c].writer \in Running => sock[c].conn = "open"
    /\ sock[c].writer \in Closed => sock[c].conn = "nil"
    /\ sock[c].done <=> sock[c].writer \in Closed \cup {"lock"}
    /\ sock[c].reader = "exit" /\ sock[c].writer = "select" => sock[c].forceQ = 1

=============================================================================

------------------------------ MODULE WsClient ------------------------------
(***************************************************************************)
(* The charge point's side of the link: the websocket client (ws/client.go) *)
(* with its reconnection loop, under the Start, StartWithRetries, Stop,     *)
(* onDisconnected and onReconnected of the OCPP-J client                    *)
(* (ocppj/client.go), composed with the pumps of every socket the client    *)
(* dials (module WebSocket).  Of the dispatcher only what these calls       *)
(* change is kept; module ClientDispatcher has the rest.                    *)
(*                                                                          *)
(* A reconnection loop runs on the write goroutine of the socket that was   *)
(* lost, or, in StartWithRetries, on the caller's goroutine, App.           *)
(***************************************************************************)
EXTENDS WebSocket

CONSTANTS None, App, Stopper,
          AutoReconnect,  \* SetAutoReconnect
          MaxStarts,      \* sessions the application starts
          MaxFails        \* dials the network refuses

ASSUME ClientAssumption == /\ None \notin Conns /\ App \notin Conns
                           /\ Stopper \in Actors
                           /\ MaxStarts \in Nat /\ MaxFails \in Nat

VARIABLES webSocket,     \* the published socket, or None
          reconnectC,    \* tokens in the reconnection channel (it holds one)
          onDisconnected,\* the handler installed: "pause" or "cleanup"
          cleanupC,      \* tokens in the channel the "cleanup" handler sends on
          dispatcher,    \* "new" (no timer yet), "running" or "stopped"
          paused,
          loop,          \* [Conns \cup {App} -> pc of handleReconnection]
          app,           \* pc of the goroutine that calls Start or StartWithRetries
          stopper,       \* pc of the goroutine that calls Stop
          awaits,        \* whether that Stop waits for cleanupC
          crashed,       \* a goroutine panicked
          starts, fails,
          wanted,        \* started, and not stopped since
          staleToken,    \* the session began with a token in reconnectC
          stalePause,    \* the session began with the dispatcher paused
          overlapped     \* a Stop met a dial, a Start a teardown, or a loop redialled after a Stop

Loopers == Conns \cup {App}

link == <<webSocket, reconnectC, onDisconnected, cleanupC>>
disp == <<dispatcher, paused>>
calls == <<app, stopper, awaits>>
history == <<starts, fails, wanted, staleToken, stalePause, overlapped>>
vars == <<sock, link, disp, loop, calls, crashed, history>>

Init == /\ InitSockets
        /\ webSocket = None /\ reconnectC = 0
        /\ onDisconnected = "pause" /\ cleanupC = 0
        /\ dispatcher = "new" /\ paused = FALSE
        /\ loop = [l \in Loopers |-> "none"]
        /\ app = "idle" /\ stopper = "idle" /\ awaits = FALSE
        /\ crashed = FALSE
        /\ starts = 0 /\ fails = 0
        /\ wanted = FALSE /\ staleToken = FALSE /\ stalePause = FALSE /\ overlapped = FALSE

\* The teardown or the reconnection loop of some socket is still running.
TearingDown == \E c \in Conns : sock[c].writer \notin {"off", "exit"}

IsConnected == webSocket # None /\ IsOpen(webSocket)

----------------------------------------------------------------------------
(* client.Start: the dial, and on success the new socket published and      *)
(* run.  after is the pc of the loop l that asked for it.  Dials are        *)
(* numbered: the next one creates the first socket that does not exist.     *)

DialSucceeds(l, after) ==
    \E c \in Conns :
        /\ sock[c].conn = "none"
        /\ \A d \in Conns : sock[d].conn = "none" => c <= d
        /\ sock' = [sock EXCEPT ![c] = [@ EXCEPT !.conn = "open", !.reader = "start", !.writer = "select"]]
        /\ webSocket' = c
        /\ loop' = [loop EXCEPT ![l] = after]

DialFails(l, after) ==
    /\ fails < MaxFails
    /\ fails' = fails + 1
    /\ loop' = [loop EXCEPT ![l] = after]

----------------------------------------------------------------------------
(* handleReconnection                                                      *)

\* The loop is over: a write goroutine ends with it, the application's goes on.
Ends(l) == IF l \in Conns THEN [sock EXCEPT ![l].writer = "exit"] ELSE sock

\* The select: the delay has passed, or a token aborts the loop.
Backoff(l) ==
    /\ loop[l] = "backoff"
    /\ \/ /\ loop' = [loop EXCEPT ![l] = "dial"]
          /\ overlapped' = (overlapped \/ ~wanted)
          /\ UNCHANGED <<sock, reconnectC>>
       \/ /\ reconnectC = 1
          /\ reconnectC' = 0
          /\ loop' = [loop EXCEPT ![l] = "none"]
          /\ sock' = Ends(l)
          /\ UNCHANGED overlapped
    /\ UNCHANGED <<webSocket, onDisconnected, cleanupC, disp, calls, crashed,
                   starts, fails, wanted, staleToken, stalePause>>

Redial(l) ==
    /\ loop[l] = "dial"
    /\ \/ /\ DialSucceeds(l, "reconnected")
          /\ UNCHANGED fails
       \/ /\ DialFails(l, "backoff")
          /\ UNCHANGED <<sock, webSocket>>
    /\ UNCHANGED <<reconnectC, onDisconnected, cleanupC, disp, calls, crashed,
                   starts, wanted, staleToken, stalePause, overlapped>>

\* Mutant of Resume: the flag is left.
ResumeNothing == UNCHANGED paused

\* dispatcher.Resume
Resume == paused' = FALSE

\* onReconnected: Resume, and the loop returns.
OnReconnected(l) ==
    /\ loop[l] = "reconnected"
    /\ Resume
    /\ loop' = [loop EXCEPT ![l] = "none"]
    /\ sock' = Ends(l)
    /\ UNCHANGED <<link, dispatcher, calls, crashed, history>>

HandleReconnection(l) == Backoff(l) \/ Redial(l) \/ OnReconnected(l)

----------------------------------------------------------------------------
(* The callbacks of a socket.                                              *)

\* error(): the client's lock is never held for long.
ReportError(c) ==
    /\ sock[c].writer \in {"failed", "closeFailed"}
    /\ sock' = AfterWriteError(c)
    /\ UNCHANGED <<link, disp, loop, calls, crashed, history>>

\* handleMessage: the handler above has returned.
HandleMessage(c) ==
    /\ sock[c].reader = "onMessage"
    /\ sock' = AfterMessage(c)
    /\ UNCHANGED <<link, disp, loop, calls, crashed, history>>

(* The handler installed: Client.onDisconnected pauses the dispatcher, and  *)
(* panics on a timer that does not exist yet; the one Stop installs sends   *)
(* on cleanupC, which holds one token.                                      *)
NotifyDisconnect ==
    \/ /\ onDisconnected = "pause" /\ dispatcher # "new"
       /\ paused' = TRUE
       /\ UNCHANGED <<cleanupC, crashed>>
    \/ /\ onDisconnected = "pause" /\ dispatcher = "new"
       /\ crashed' = TRUE
       /\ UNCHANGED <<cleanupC, paused>>
    \/ /\ onDisconnected = "cleanup" /\ cleanupC = 0
       /\ cleanupC' = 1
       /\ UNCHANGED <<paused, crashed>>

\* Mutant of Reconnects: a forced disconnect is taken for a graceful one.
ReconnectsIfGraceful(c) == sock[c].cause = "nil" /\ AutoReconnect

\* err != nil && c.autoReconnect
Reconnects(c) == sock[c].cause = "err" /\ AutoReconnect

HandleDisconnect(c) ==
    /\ sock[c].writer = "onClosed"
    /\ loop[c] = "none"
    /\ NotifyDisconnect
    /\ IF Reconnects(c)
       THEN loop' = [loop EXCEPT ![c] = "backoff"] /\ UNCHANGED sock
       ELSE sock' = Ends(c) /\ UNCHANGED loop
    /\ UNCHANGED <<webSocket, reconnectC, onDisconnected, dispatcher, calls, history>>

others == <<link, disp, loop, calls, crashed, history>>

WriteGoroutine(c) == \/ WritePump(c) /\ UNCHANGED others
                     \/ ReportError(c)
                     \/ HandleDisconnect(c)

ReadGoroutine(c) == \/ ReadPump(c) /\ UNCHANGED others
                    \/ HandleMessage(c)

----------------------------------------------------------------------------
(* Client.Start and Client.StartWithRetries (OCPP-J)                       *)

(* The handlers are set and the first dial begins.  The application starts  *)
(* a client that is down, after the Stop of the session before returned.    *)
(* What sessions after an overlap do is not followed.                       *)
StartCall(kind) ==
    /\ app = "idle" /\ stopper = "idle" /\ ~wanted /\ ~overlapped
    /\ starts < MaxStarts
    /\ starts' = starts + 1
    /\ app' = kind
    /\ onDisconnected' = "pause"
    /\ wanted' = TRUE
    /\ staleToken' = (reconnectC = 1)
    /\ stalePause' = paused
    /\ overlapped' = (overlapped \/ TearingDown)
    /\ UNCHANGED <<sock, webSocket, reconnectC, cleanupC, disp, loop, stopper, awaits, crashed, fails>>

\* A first dial that fails is an error for Start, a reason to retry for StartWithRetries.
FirstDial ==
    /\ app \in {"start", "startWithRetries"}
    /\ \/ /\ DialSucceeds(App, "none")
          /\ app' = "startDispatcher"
          /\ UNCHANGED <<fails, wanted>>
       \/ /\ app = "start"
          /\ DialFails(App, "none")
          /\ app' = "idle"
          /\ wanted' = FALSE
          /\ UNCHANGED <<sock, webSocket>>
       \/ /\ app = "startWithRetries"
          /\ DialFails(App, "backoff")
          /\ app' = "retrying"
          /\ UNCHANGED <<sock, webSocket, wanted>>
    /\ UNCHANGED <<reconnectC, onDisconnected, cleanupC, disp, stopper, awaits, crashed,
                   starts, staleToken, stalePause, overlapped>>

\* handleReconnection has returned, connected or aborted.
RetriesEnd ==
    /\ app = "retrying" /\ loop[App] = "none"
    /\ app' = "startDispatcher"
    /\ UNCHANGED <<sock, link, disp, loop, stopper, awaits, crashed, history>>

\* dispatcher.Start: the paused flag is not touched.
StartDispatcher ==
    /\ app = "startDispatcher"
    /\ dispatcher' = "running"
    /\ app' = "idle"
    /\ UNCHANGED <<sock, link, paused, loop, stopper, awaits, crashed, history>>

Starting == FirstDial \/ RetriesEnd \/ StartDispatcher

----------------------------------------------------------------------------
(* Client.Stop (OCPP-J) around client.Stop (ws)                            *)

\* if c.IsConnected() ... else close(cleanupC)
StopCall ==
    /\ stopper = "idle" /\ wanted
    /\ stopper' = IF IsConnected THEN "setHandler" ELSE "wsStop"
    /\ awaits' = IsConnected
    /\ wanted' = FALSE
    /\ overlapped' = (overlapped \/ app # "idle" \/ \E l \in Loopers : loop[l] \in {"dial", "reconnected"})
    /\ UNCHANGED <<sock, link, disp, loop, app, crashed, starts, fails, staleToken, stalePause>>

StopSetsHandler ==
    /\ stopper = "setHandler"
    /\ onDisconnected' = "cleanup"
    /\ cleanupC' = 0
    /\ stopper' = "wsStop"
    /\ UNCHANGED <<sock, webSocket, reconnectC, disp, loop, app, awaits, crashed, history>>

\* Mutant of StopCloses: the socket is left open.
StopClosesNothing ==
    /\ stopper = "wsStop"
    /\ stopper' = "token"
    /\ UNCHANGED <<sock, link, disp, loop, app, awaits, crashed, history>>

\* The published socket is closed if it is open; the call may wait for the close slot.
StopCloses ==
    /\ stopper = "wsStop"
    /\ \/ /\ ~IsConnected
          /\ stopper' = "token"
          /\ UNCHANGED sock
       \/ /\ IsConnected
          /\ CloseReturns(Stopper, webSocket)
          /\ stopper' = "token"
       \/ /\ IsConnected
          /\ CloseWaits(Stopper, webSocket)
          /\ UNCHANGED stopper
    /\ UNCHANGED <<link, disp, loop, app, awaits, crashed, history>>

SendsToken(tokens) ==
    /\ stopper = "token"
    /\ reconnectC' = tokens
    /\ stopper' = "dispatcher"
    /\ UNCHANGED <<sock, webSocket, onDisconnected, cleanupC, disp, loop, app, awaits, crashed, history>>

\* Mutant of StopAborts: a token is added to one that is already there.
StopAbortsTwice == SendsToken(reconnectC + 1)

\* The non-blocking send on reconnectC, which holds one token.
StopAborts == SendsToken(1)

\* if c.dispatcher.IsRunning() { c.dispatcher.Stop() }
StopDispatcher ==
    /\ stopper = "dispatcher"
    /\ dispatcher' = IF dispatcher = "running" THEN "stopped" ELSE dispatcher
    /\ stopper' = "await"
    /\ UNCHANGED <<sock, link, paused, loop, app, awaits, crashed, history>>

\* <-cleanupC
StopAwaits ==
    /\ stopper = "await"
    /\ \/ ~awaits /\ UNCHANGED cleanupC
       \/ awaits /\ cleanupC = 1 /\ cleanupC' = 0
    /\ stopper' = "idle"
    /\ UNCHANGED <<sock, webSocket, reconnectC, onDisconnected, disp, loop, app, awaits, crashed, history>>

Stopping == StopSetsHandler \/ StopCloses \/ StopAborts \/ StopDispatcher \/ StopAwaits

NetworkLoss(c) == ~overlapped /\ PeerGoes(c) /\ UNCHANGED others

----------------------------------------------------------------------------

\* Every socket's goroutines wait for the network, or have ended.
SocketsAtRest == \A c \in Conns :
    /\ sock[c].writer \in {"off", "select", "exit"}
    /\ sock[c].writer = "select" =>
           sock[c].outQ + sock[c].pingQ + sock[c].closeQ + sock[c].forceQ = 0
    /\ sock[c].reader \in {"off", "read", "exit"}
    /\ sock[c].reader = "read" => sock[c].peer = "up"

(* A Stop that found the client connected waits for a disconnect event that *)
(* was already delivered to the handler it then replaced.                   *)
StopHangs == stopper = "await" /\ awaits /\ cleanupC = 0

(* A dial needs a socket of Conns or a refusal of MaxFails: with neither     *)
(* left the instance has run out, not the program.                          *)
OutOfDials == /\ \E l \in Loopers : loop[l] = "dial" \/ (l = App /\ app \in {"start", "startWithRetries"})
              /\ \A c \in Conns : sock[c].conn # "none"

AtRest == /\ SocketsAtRest
          /\ \A l \in Loopers : loop[l] = "none"
          /\ app = "idle"
          /\ stopper = "idle" \/ StopHangs

Finished == /\ AtRest \/ crashed \/ OutOfDials
            /\ UNCHANGED vars

Next == \/ /\ ~crashed
           /\ \/ \E c \in Conns : WriteGoroutine(c) \/ ReadGoroutine(c) \/ NetworkLoss(c)
              \/ \E l \in Loopers : HandleReconnection(l)
              \/ \E kind \in {"start", "startWithRetries"} : StartCall(kind)
              \/ Starting
              \/ StopCall
              \/ Stopping
        \/ Finished

Spec == Init /\ [][Next]_vars

----------------------------------------------------------------------------
(* Properties                                                              *)

\* Every variable stays in its range.
TypeOK == /\ Sockets
          /\ webSocket \in Conns \cup {None}
          /\ reconnectC \in 0..1 /\ cleanupC \in 0..1
          /\ onDisconnected \in {"pause", "cleanup"}
          /\ dispatcher \in {"new", "running", "stopped"}
          /\ loop \in [Loopers -> {"none", "backoff", "dial", "reconnected"}]
          /\ app \in {"idle", "start", "startWithRetries", "retrying", "startDispatcher"}
          /\ stopper \in {"idle", "setHandler", "wsStop", "token", "dispatcher", "await"}
          /\ {paused, awaits, crashed, wanted, staleToken, stalePause, overlapped} \subseteq BOOLEAN
          /\ starts \in 0..MaxStarts /\ fails \in 0..MaxFails

Live(c) == sock[c].writer = "select" /\ sock[c].reader = "read"

(* "The client will attempt to re-connect to the server forever, until it   *)
(* is stopped": whenever a started client comes to rest, its socket is      *)
(* live, in spite of losses and refused dials.                              *)
ReconnectsForever == AtRest /\ wanted /\ AutoReconnect => IsConnected /\ Live(webSocket)

(* The same for a session that did not begin with the token an earlier Stop *)
(* left in reconnectC.                                                      *)
StaysConnected == staleToken \/ ReconnectsForever

(* Pause and Resume are called by two goroutines of different sockets, and  *)
(* Start by a third; still, a client at rest with a live socket has a       *)
(* dispatcher that runs and, unless it was paused before the session began, *)
(* is not paused.  The exception is again a Stop that met a dial.           *)
DispatcherFollows == AtRest /\ wanted /\ ~overlapped /\ IsConnected =>
    /\ dispatcher = "running"
    /\ paused => stalePause

(* Stop is final: at rest after it no socket is live, no loop will redial   *)
(* and the dispatcher is stopped, unless Stop met a Start or a dial in      *)
(* progress.                                                                *)
StopIsFinal == AtRest /\ ~wanted /\ ~overlapped =>
    /\ \A c \in Conns : ~Live(c)
    /\ dispatcher # "running"

----------------------------------------------------------------------------
(* The inductive invariant                                                 *)

\* A loop runs on a goroutine that does nothing else, and one that has dialled has been replaced.
Loops ==
    /\ \A c \in Conns : loop[c] # "none" => sock[c].writer = "onClosed"
    /\ \A c \in Conns : loop[c] = "reconnected" => webSocket # c
    /\ loop[App] # "none" => app = "retrying"

\* What a session that is wanted has and has not got.
Session ==
    /\ wanted => stopper = "idle"
    /\ wanted /\ ~staleToken => reconnectC = 0
    /\ wanted /\ app = "idle" => dispatcher = "running"

\* A socket whose end, if it comes, is not taken for one that Stop asked for.
Unclosed(c) ==
    \/ sock[c].writer = "select" /\ sock[c].closeQ = 0
    \/ sock[c].writer = "failed"
    \/ sock[c].writer \in {"cleanup", "lock", "onClosed"} /\ sock[c].cause = "err"

\* Somebody is going to dial, or will notice when the published socket is lost.
Attended ==
    \/ app \in {"start", "startWithRetries"}
    \/ \E l \in Loopers : loop[l] \in {"backoff", "dial"}
    \/ webSocket # None /\ Unclosed(webSocket)

Kept == wanted /\ ~staleToken /\ AutoReconnect => Attended

\* The first connection of the session is yet to come.
Dialing == app \in {"start", "startWithRetries"} \/ loop[App] \in {"backoff", "dial"}

\* Sessions that do not overlap: sockets come one after the other.
Chain ==
    /\ ~wanted => app = "idle" /\ \A l \in Loopers : loop[l] \notin {"dial", "reconnected"}
    /\ \A c \in Conns : c = webSocket \/ sock[c].writer \in {"off", "exit"} \/ loop[c] = "reconnected"
    /\ Dialing => ~TearingDown /\ paused = stalePause

\* A pause of this session is followed by a resumption before there is a connection again.
Resumes == wanted /\ paused /\ ~stalePause => ~IsConnected \/ \E l \in Loopers : loop[l] # "none"

\* A Stop that has come that far has closed the socket and stopped the dispatcher.
Stopped ==
    /\ ~wanted /\ stopper \in {"idle", "await"} => dispatcher # "running"
    /\ app # "idle" => dispatcher # "running"
    /\ ~wanted /\ stopper \notin {"setHandler", "wsStop"} /\ webSocket # None =>
           (sock[webSocket].writer = "select" => sock[webSocket].closeQ = 1)

\* Nothing is known to a socket that does not exist.
Life == \A c \in Conns : SocketLife(c) /\ (sock[c].conn = "none" => sock[c].closeQ = 0)

IndInv ==
    /\ TypeOK /\ Life
    /\ Loops /\ Session /\ Kept
    /\ overlapped \/ (Chain /\ Resumes /\ Stopped)

=============================================================================

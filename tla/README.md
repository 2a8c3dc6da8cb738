# Verification of ocpp-go

TLA+ models of this library, from the websocket to the facades and the payload
tables, model-checked with TLC; the dispatchers, the websocket layer and the facades are
also proved with TLAPS. Line numbers refer to `src/ocppj/dispatcher.go` unless another
file is named. `PROJECT.json` maps every definition to the lines it stands for.

## 1. The system

| part | code | role |
|---|---|---|
| facades | `ocpp1.6/`, `ocpp2.0.1/` (`central_system.go`, `csms.go`, `charge_point.go`, `charging_station.go`) | typed requests, one callback per request |
| callback queue | `internal/callbackqueue` | the callbacks of each client, by message ID |
| OCPP-J endpoints | `ocppj/client.go`, `ocppj/server.go`, `ocppj/ocppj.go` | framing, parsing, the hooks between websocket and dispatcher |
| dispatchers | `ocppj/dispatcher.go` | **one request in flight per peer**, queueing, timeouts, cancelation, stop |
| queues and pending state | `ocppj/queue.go`, `ocppj/state.go` | what the dispatchers share with read goroutines |
| websocket layer | `ws/websocket.go`, `ws/server.go`, `ws/client.go` | connections, read and write pumps, reconnection, registry |
| payloads | the packages of `ocpp1.6/` and `ocpp2.0.1/` | requests and responses with json and validation tags |
| the rest | configuration manager, logging, schema tools, examples, mocks | beside the protocol stack or not part of the running system |

A facade calls `SendRequestCtx` on an endpoint. The endpoint gives the request to its
dispatcher, which queues it and posts a token to the message pump. The pump writes the
front of the queue to the websocket and remembers it as pending. A reply arrives on a
websocket read goroutine, which completes the request (`CompleteRequest`) and calls the
response handler. The timeout, the caller's context, a failed write and `Stop` complete
requests too, on other goroutines. Nearly all the difficulty of the library is that
these parties race for the same request.

## 2. Modules

| module | models |
|---|---|
| `RequestQueue` | `FIFOClientQueue` and the pending slot of `clientState`, as operators |
| `ClientDispatcher` | `DefaultClientDispatcher` and the entry points of `ocppj.Client` |
| `RequestLifecycle` | abstract: what a client dispatcher promises about requests |
| `ServerDispatcher` | `DefaultServerDispatcher` and the entry points of `ocppj.Server` |
| `WebSocket` | one connection: its channels, read pump, write pump and cleanup |
| `WsServer` | the websocket server: upgrade, registry, gate, eviction, Shutdown; extends `WebSocket` |
| `WsClient` | the websocket client with its reconnection loop under `ocppj.Client`'s Start and Stop; extends `WebSocket` |
| `CallbackQueue` | `internal/callbackqueue`, as actions on its mutex and its map |
| `CentralSystem` | the central system's requests and their callbacks; extends `CallbackQueue` |
| `ChargePoint` | the charge point's requests, handler goroutine and generations; extends `CallbackQueue` |
| `Payload` | struct tags, validation, encoding and decoding, as operators on classes of values |
| `Types16`, `Types201`, `Features16`, `Features201` | the tables of all types and features of both versions |
| `Facade16`, `Facade201` | the tables the facades dispatch on |
| `Endpoint` | what an endpoint does with one message: `ParseMessage`, sending, answering |
| `Exchange` | a request and its answer between two endpoints |
| `ClientDispatcherProofs` | types, ownership, reports and refinement of `ClientDispatcher` |
| `ServerDispatcherProofs`, `ServerFlightProofs` | types, ownership and reports of `ServerDispatcher`; its requests in flight and their timeouts |
| `WebSocketProofs`, `WsServerProofs`, `WsClientProofs` | what the steps of a socket do; the registry and the gate; the reconnection loop and Stop |
| `CentralSystemProofs`, `ChargePointProofs` | who holds and who brings each callback |
| `MC...` | the instances of the TLC runs; `MCServerScenarios` chooses between several environments |

In both dispatcher modules a goroutine is a program counter and a step is one access to
shared state: one queue or pending-state operation, one channel operation, or one
critical section of `d.mutex`. The mutex is a Go `RWMutex`: a writer that waits keeps
new readers out (`CanRLock`, `CanLock`). A buffered channel is a sequence, or a Boolean
for one slot of content-free tokens. A request is a model value, which is also its
message ID; two ghost functions record what the properties speak about: `sent[r]`, how
often `r` was handed to the network, and `outcome[r]`, what the application was told.

### ClientDispatcher

| state | code |
|---|---|
| `requestQueue`, `pending` | `requestQueue`, `pendingRequestState` |
| `requestChannel`, `posted` | the channel (nil, open, closed) and its one slot |
| `readyForDispatch`, `running`, `paused` | the fields of these names |
| `timer`, `tick` | `d.timer` and the buffer of `timer.C` (go 1.21 timers) |
| `pc`, `rdy`, `token`, `cur`, `why`, `outstanding` | locals of `messagePump` |
| `snd`, `rd`, `hook`, `starter`, `stop` | the other goroutines |

| actions | code |
|---|---|
| `SendIsRunning`, `SendPush`, `SendRLock`, `SendPost` | `Client.SendRequestCtx`, `SendRequest` 231-255 |
| `ReadReply`, `ReadPop`, `ReadDelete`, `ReadDeliver` | `Client.ocppMessageHandler` (reply), `CompleteRequest` 484-505 |
| `PumpReconcile` ... `PumpExit` | `messagePump` 257-385 and `dispatchNextRequest` 387-430 |
| `Disconnected`, `Pause`, `Reconnected`, `Resume...` | the websocket hooks, `Pause`, `Resume` 432-482 |
| `ClientStart`, `ClientStartWithRetries`, `Dialled`, `Start` | `Client.Start`, `StartWithRetries`, `Start` |
| `ClientStop`, `StopIsRunning`, `StopClose`, `StopJoin` | `Client.Stop`, `Stop` 209-229 |

Several accesses are one step where all but one of them commute with every step of the
others: the pump's delete of the pending entry with the signal and the callback that
follow it; a read goroutine's signal with its callback; the notifications of the stop
drain with the final `Init` of the queue; stop, drain and reset of the timer; the
critical section of `Pause`. Assumed, because the code under `ws/` or the application
provides it: message IDs are unique; callbacks return; the hooks of one connection are
called one after the other; `Start` is called after an earlier `Stop` has returned;
`d.timeout` is positive. A `Stop` of a dispatcher that does not run does nothing and
is left out.

### ServerDispatcher

Queues are objects here: a sender or a read goroutine may hold a queue that
`DeleteClientAndWait` or the stop drain has taken out of the map. `queues` is the heap
and `queueMap[c]` a reference into it. The pump's loop-persistent locals (`clientID`,
`rdy`, `clientQueue`), its context map and its dispatched-ID map are variables, since
they carry over from one client to the next.

| actions | code |
|---|---|
| `SendIsRunning`, `SendGet`, `SendPush`, `SendRLock`, `SendPost` | `Server.SendRequestCtx`, `SendRequest` |
| `ReadReply`, `ReadPop`, `ReadDelete`, `ReadSignal` | `Server.ocppMessageHandler` (reply), `CompleteRequest` |
| `DeadlineFire`, `PostTimeout`, `PostCancel` | `waitForTimeout`, one watcher per dispatched request |
| `PumpRequest`, `PumpTimeoutStale`, `PumpTimeout`, `PumpReady`, `PumpCtxCancel` | the arms of the pump's `select` |
| `PumpGuard`, `PumpWrite`, `PumpArm` | the dispatch guard and `dispatchNextRequest` |
| `PumpStopped`, `PumpClearAll`, `PumpDrain` | the stop arm 872-917 |
| `Register`, `OnClientConnected`, `Unregister`, `DeleteClient` | the hooks of the ws server, `CreateClient`, `DeleteClientAndWait`, `ClearClientPendingRequest` |
| `CallStart`, `Start`, `CallStop`, `StopClose`, `StopJoin` | `Start`, `Stop` |

One step each: the reception of a token with the lookup of the client's queue; the
guard with `Peek` and `AddPendingRequest` (the write is a step of its own); the
completion of a request by the pump; the drain of all queues at stop. `ReadReply` takes
the look at the pending request and the lookup of the queue together: a later lookup
only finds the queue gone, which is a lost reply. The ws server's gate is modelled by
`Register`, which waits until the client's disconnect handler has returned. A write that
returns an error did not put the request on the wire.
`DeleteClient` without an ack is not modelled: the server calls it only for a dispatcher
that lacks `DeleteClientAndWait`.

### RequestLifecycle

Requests wait in line, only the head is transmitted and only once, a request is claimed
by exactly one party (or all of them at the end of a session), and only claimed requests
are settled, once. `ClientDispatcher` implements it under the mapping `Lifecycle`: the
line is the queue, claimed are the requests in the hands of the pump or a read goroutine,
settled those with an outcome.

### WebSocket, WsServer, WsClient

A socket is a record: the state of its connection, the fill of its four channels, `done`,
the goroutines inside `Write` or `Close` (they hold the read lock), and the program
counters of its two pumps. `WebSocket` has no next-state relation; server and client
extend it, add the callbacks that run on the pumps, and compose them with their own
goroutines.

| actions | code |
|---|---|
| `ReaderCheck`, `WritePump`, `CallWaits`, ... | `readPump`, `writePump`, `Write`, `Close`, `cleanup` (`ws/websocket.go`) |
| `RefuseRequest`, `AcceptRequest`, `Register`, `EvictOld`, `AwaitTeardown`, `Replace`, `Announce` | `wsHandler`, `registerNewConnection` (`ws/server.go`) |
| `RemoveSocket`, `CheckSuperseded`, `EmitDisconnect`, `FinishDisconnect` | `handleDisconnect` |
| `CallShutdown`, `HookLocks`, `HookCloses`, `HookUnlocks` | `Shutdown` and `stopConnections` |
| `FirstDial`, `Backoff`, `Redial`, `OnReconnected` | `start`, `handleReconnection` (`ws/client.go`) |
| `StopSetsHandler`, `StopCloses`, `StopAborts`, `StopDispatcher`, `StopAwaits` | `ocppj.Client.Stop` and `client.Stop` |

`connMutex` is one step per critical section, except in `stopConnections`, which calls
`Close` with the lock held. Deadlines are connections that may be lost at any time.

### CentralSystem, ChargePoint

Both extend `CallbackQueue`, whose mutex is a variable because `TryQueue` holds it while
the request is handed to the dispatcher. Below them is a dispatcher reduced to what
`ServerDispatcher` and `ClientDispatcher` show of theirs. `ChargePoint` keeps one handler,
one `stopC` and one read goroutine per generation. The 2.0.1 facades have no modules of
their own: `sendResponse`, `StopCtx`, `clearCallbacks`, `onRequestTimeout` and
`handleCanceledRequest` are the same in `csms.go` and `charging_station.go` up to names, and
`asyncCallbackHandler`, `SendRequestCtx` and `handleIncomingError` differ only in how an
error or a local is written. Assumed: `Start` and `Stop` of a charge point are called from
one goroutine, callbacks return, and request IDs are neither empty nor repeated, so that
the two refusals of `TryQueue` after the send (`callbackqueue.go` 62-70) do not occur: in
the modules a request is its ID.

### Payload, Endpoint, Exchange

A payload is good except for the value of one field, at any depth. A value is a class
that some rule tells apart: zero, nil, empty, too long, too low, an integer beyond 2^53 or
next to 2^63, a number outside float64, a string that is not UTF-8, a time with a fraction
of a second, NaN, and so on. A message is decoded twice, with float64 in between
(`Reparsed`): the one integer is rounded, the other is written as 2^63 and no longer fits,
and the number outside float64 makes the whole message unreadable (`Unreadable`). `Features16` and `Features201` have
one definition per feature file: the fields of request and response with their json and
validate tags, the fields the constructor sets, the tags its `init` registers. The five
tables of a facade (profiles, features it may send, response types its typed methods
assert, handler checks, routes) are in `Facade16` and `Facade201`. `Endpoint` and
`Exchange` run a request through `SendRequest`, `ParseMessage`, `handleIncomingRequest`,
`sendResponse` and back. validator.v9 and encoding/json are external: they are modelled
from what the struct tags ask of them.

## 3. What is checked

| run | configuration | properties |
|---|---|---|
| `client_races` | one session: 2 requests, one with a context, 1 reader, 1 lost connection, 1 Stop | `TypeOK`, `SingleOutcome`, `SendOnOpenChannel`, `OneInFlight`, `NeverRewritten`, `AcceptedIsReported` |
| `client_restart` | two sessions, the 24h tick included | `IndInv`, `LifecycleSpec` |
| `client_stop_live` | fair; 2 concurrent Stops against blocked senders | `StopReturns`, `SendReturns` |
| `client_settles` | fair; replies, timeouts and a lost connection | `EveryRequestSettles` |
| `server_races` | one client that connects twice, with Stop; or two clients that share the pump, with early and slow disconnections; or a context that fires among two requests, or against Stop | `TypeOK`, `SingleOutcome`, `InFlightIsPending`, `NeverRewritten`, `NoQueueSurvivesStop`, `AcceptedIsReported`, `InFlightIsWatched` |
| `server_live` | fair; Stop against disconnections and blocked senders; or a context, slow disconnections and a full queue | `StopReturns`, `DisconnectReturns`, `EveryRequestSettles` |
| `ws_server` | two sockets of one ID, a caller, Shutdown | `TypeOK`, `NoOverlap`, `NoZombie`, `StopClosesAll`, `NoLateDisconnect` |
| `ws_client` | two sessions, three dials, one refusal | `TypeOK`, `StaysConnected`, `DispatcherFollows`, `StopIsFinal` |
| `ws_client_stale_token` | the same, silent peer; refuted, see section 5 | `ReconnectsForever` |
| `central_system` | fair; three requests to two charge points, one lost connection, Stop | `AtMostOneCall`, `EveryCallbackRuns` |
| `charge_point` | a synchronous request, a nested asynchronous one, two inbound calls, three Starts, Stops or expired `StopCtx` | `TypeOK`, `OneHandler`, `ClearsOwn`, `ControlReturns`, `NobodyWaits` |
| `exchange` | every feature of both versions, both directions, one deviating field, one unusual endpoint | `Answered`, `Interoperable`, `OnlyValid` |

Deadlock is checked in all of them but `exchange`, which ends when the request has. The
inputs are bounded, so a run ends; `Finished` is the only step a finished system has, and
it asks that every goroutine is back in its idle state. A sender, a disconnection or a
Stop that is stuck is therefore a deadlock. The exceptions are states the code does reach
and cannot leave, each named by a definition: `Wedged`, `Panicked` and `StayWedged` of
`WsServer`, `StopHangs` and `crashed` of `WsClient`, `Wedged`, `Stranded` and
`Straddles` of `ChargePoint` (section 5). The safety properties are checked in these states too, but those
that speak of systems at rest say nothing of them.

What the properties say, and why they are not obvious:

- **`SingleOutcome`** A reply, the timeout, the context, a failed write and Stop may
  complete a request at the same time; the application hears of it once.
- **`OneInFlight`, `NeverRewritten`, `InFlightIsPending`** Readiness tokens, `rdy` flags
  and timer ticks outlive the requests they were meant for. Only the level-based guard
  keeps a stale one from sending the next request too early or the same one twice.
- **`SendOnOpenChannel`** Stop closes the channel that senders send on.
- **`AcceptedIsReported`** Nothing that was accepted is forgotten, neither by a race nor
  by the drain of Stop.
- **`NoQueueSurvivesStop`** A queue that is created while Stop drains the map would be
  served by the next session, although its senders were told that they had failed.
- **`InFlightIsWatched`** On the server a request without a watcher is never timed out
  and blocks its client for ever. A stale readiness token must not cancel the watcher of
  the next request, nor the token of one client that of another.
- **`EveryRequestSettles`** No wake-up is lost among coalesced tokens, Pause and Resume.
  On the client it assumes that the connection does not stay down.
- **`StopReturns`, `SendReturns`, `DisconnectReturns`** Senders hold the read lock while
  they wait for room in the channel, Stop waits for the write lock, disconnections wait
  for an ack: the pump, which never takes the lock, resolves all of them.
- **`NoOverlap`, `NoLateDisconnect`** The layer above never sees the disconnection of an
  old socket after the connection of a newer one with the same ID, although eviction times
  out and teardowns run on goroutines of their own.
- **`NoZombie`, `StopClosesAll`** When everything is at rest, what is registered is alive,
  what was closed is torn down, and after Shutdown nothing is registered.
- **`StaysConnected`, `DispatcherFollows`, `StopIsFinal`** A client at rest is connected
  with a running dispatcher, or stopped, as the application asked last. They exempt a
  session that began with a stale token or pause and a Stop that met a dial: section 5.
- **`AtMostOneCall`, `EveryCallbackRuns`** Response, cancellation and drain race for a
  callback; one of them calls it, although senders hold the mutex that all of them need.
- **`OneHandler`, `ClearsOwn`, `ControlReturns`, `NobodyWaits`** Generations do not take
  from each other, and Start and Stop get through. `NobodyWaits` exempts `Wedged` (two
  states the code's comments describe), a sender with a later generation's `stopC`, a
  request whose `TryQueue` straddles a Stop and a Start (`Straddles`), and `Stranded`.
- **`Answered`** A CALL that names its request is answered exactly once, whatever is wrong
  with it or with the handler, as long as it is readable, writes succeed, its ID is neither
  empty nor too long, and the `invalidMessageHook` does not make up an error code. The
  caller hears of the answer, unless it holds a number that `float64` destroys (`Beyond`).
- **`Interoperable`** What one endpoint validates and sends, its twin accepts and hands on
  unchanged but for `Lossy`; a number in `Beyond` is the one thing that does not get
  through, and then the handler is not called at all. The hand-kept tables never make the
  library panic.
- **`OnlyValid`** With validation switched on, handlers and callbacks only see valid
  payloads, requests and responses alike. It says nothing of endpoints that switched it off.

### Bounds

Two requests give every race: one in flight and one behind it, which is the one that a
misdirected completion, timeout or token would hit. Two connections and two sessions let
something left over from the first meet the second. Two clients let the pump carry locals
from one to the other. `ChannelCap` and `TokenCap` are 1 so that full channels occur (in
the code they are 20 and 10; the client's channels have one slot in the code too). The
full queue occurs in `server_live` (`Capacity = 1`); the client's runs have room for
both requests, so that one can wait behind the other, and its theorems hold for every
capacity. `MaxStarts`, `MaxDrops` and `MaxConns` bound the
application and the network. The proofs need none of these bounds (section 4 names the
theorems that speak of one session).

`TimeoutOnPause = TRUE` holds as well for `client_races` and `client_settles`, but these
instances take about five minutes; the theorems hold for both values.
`server_races` and `server_live` choose a scenario initially. Connections that are lost
before `onClientConnected`, and the 2s escape, occur in scenario `clients` with one
connection per client; two connections occur in scenario `reconnect` without them, because
together they break `NeverRewritten` and `InFlightIsWatched` (section 5). Contexts fire in
scenarios of their own, `context` and `canceled stop`, which keeps the run small.

Two sockets of one ID give every race of old and new; three dials are a first connection,
its replacement and one of the next session (`OutOfDials` marks behaviours that need
more). Three requests to two charge points put two callbacks behind one drain and one
beside it. Three calls of Start, Stop or StopCtx let a StopCtx that gave up be followed by
a Start. In `exchange` only one field deviates and only one endpoint is unusual at a
time: two deviations that cancel each other are not covered.

### Fairness

`FairSpec` assumes weak fairness of goroutines that can run (the pump, senders, read
goroutines past their `pop`, the hooks, Start and Stop, and the deadlines that the code
itself sets). It assumes nothing of the peer (it need not reply), of contexts (they need
not fire), of the network, of the application's calls, and not that the 2s escape of
`DeleteClientAndWait` is ever taken. Each is one goroutine and Go schedules every runnable
goroutine, and a `select` takes a ready arm. The one place where that is generous is a
`select` with several ready arms, which is chosen at random: fairness is asked of the pump
as a whole, so it may prefer one arm for as long as this arm is ready.
`CentralSystem` asks for weak fairness of all goroutines together (`Progress`), again not
of replies, losses and the application; a dispatched request times out. `ChargePoint`,
`WsServer` and `WsClient` state what must not be stuck as invariants of the states in
which no goroutine can move (`Quiet`, `AtRest`) and need no fairness.

## 4. What is proved

The theorems hold for every value of the constants that the named assumptions of the
modules allow (`ConstantsAssumption`, `ServerAssumption`, `SocketAssumption`, ...): any
sets of clients, requests, goroutines and sockets, any capacities, any number of sessions,
connections and failures. The assumptions only say that numbers are numbers and that a
request is neither `None` nor a marker; TLC evaluates them in the runs. Where a theorem
needs a hypothesis about the environment, it is part of its statement.

| module | theorems |
|---|---|
| `ClientDispatcherProofs` | `TypeCorrect`, `SingleOutcomeHolds`, `SendOnOpenChannelHolds`, `OneInFlightHolds`, `NeverRewrittenHolds`, `ImplementsLifecycle`; `AcceptedIsReportedHolds` if `MaxStarts <= 1` |
| `ServerDispatcherProofs` | `TypeCorrect`, `SingleOutcomeHolds`, `NoQueueSurvivesStopHolds`; `AcceptedIsReportedHolds` if `MaxStarts <= 1` |
| `ServerFlightProofs` | if `LateConnect = FALSE`: `NeverRewrittenHolds`, `InFlightIsPendingHolds`; if also `SlowPump = FALSE`: `InFlightIsWatchedHolds` |
| `WsServerProofs` | `TypeCorrect`, `NoOverlapHolds`, `NoLateDisconnectHolds`, `NoZombieHolds`, `StopClosesAllHolds` |
| `WsClientProofs` | `TypeCorrect`, `StaysConnectedHolds`, `DispatcherFollowsHolds`, `StopIsFinalHolds` |
| `CentralSystemProofs` | `AtMostOneCallHolds`, `NoneForgottenHolds` |
| `ChargePointProofs` | `TypeCorrect`, `OneHandlerHolds`, `ClearsOwnHolds`, `NoneForgottenHolds` |

A theorem `XHolds` is `Spec => []X` (`Spec => X` for the action properties
`NoLateDisconnect` and `ClearsOwn`). Each of these modules also has the inductive
invariant behind its theorems (`IndInvHolds`, `FlightHolds`). Every proof has the same
plan: one lemma per conjunct of the invariant, with one step per action, and frame and
effect lemmas (`TokenEffect`, `WritePumpEffect`, ...) that say once what an action changes.

### Client dispatcher

`SingleOutcome` is not inductive: a state in which the pump and a read goroutine both hold
a request satisfies it, and its successor does not. `IndInv` adds what excludes this:

- **`Session`** ties `running`, the channel, the pump and the callers of Stop together: the
  channel is open exactly while `running`, the pump lives exactly while the channel is not
  nil, a closed channel has a Stop that waits for it.
- **`Ownership`** Every request is in at most one hand: with its sender (`Fresh`), in the
  queue, with the pump, with one read goroutine, or in the drained `outstanding`; and it
  has no outcome before it leaves the last hand. `PopIf` and `DrainAll` are the only ways
  out of the queue and each hands a request to one party.
- **`Window`** What was sent and is still queued is the front, and the pending request.

`LifecycleStep` shows that under `IndInv` each step is a step of `RequestLifecycle` or a
stutter. `AcceptedIsReported` rests on it: a claimed request stays with whoever claimed it
until it is settled. `OneSession` and `Reported` add that, in a dispatcher that is started
once, a sender that pushes too late for the drain finds `running` false. Started twice,
the same sender finds it true again and its request is lost (section 5), so the
hypothesis `MaxStarts <= 1` is needed.

### Server dispatcher

The same argument per queue object. `IndInv` is `Session`; `Hands`, what each goroutine
has in hand when it uses it, and that a queue in the map holds requests of one client;
and `Ownership`, over all the queues ever created: a request is in one place of one queue,
also when `DeleteClientAndWait` or Stop has taken the queue out of the map while a sender
or a read goroutine still refers to it.

`Flight` is what the dispatch guard relies on. `Lines`: a client that is being deleted has
neither connection nor queue. `Leaving`: a pending request of a client without a queue is
on its way out. `Written`: what was sent is the front of its queue and pending, and the
pump has not lost sight of the request that it is about to write. `Lines` fails when a
connection is lost before its `onClientConnected`, and so does `NeverRewritten`
(`MCSDlate`), hence `LateConnect = FALSE`.

`Watched` compares the pump's books (`ctx`, `dispatched`) with what is in flight. A request
becomes in flight only by a write, and `PumpArm` books it. The only tokens that could then
cancel its watcher are a delete token, a readiness token and its own timeout or context.
`Acks` (a delete token in the channel has its `DeleteClientAndWait` waiting for it) and
`Lines` exclude the first, a readiness token is about a request that is in no queue any
more, and the last two complete the request. `Acks` needs `SlowPump = FALSE`: after the
2s escape a stale delete token can hit the next connection (section 5).

`Reported` follows an accepted request from the queue it was pushed on to its report, or
to the `removed` queue of a lost client; as on the client it is about one session.

### Websocket layer

`WebSocketProofs` has no theorem of its own, only lemmas on what each step of a socket does
to its record; both proofs above it use them. For the server `IndInv` says that the
registry holds exactly the sockets being served (`Registry`), that the gate of an ID
counts its holders, at most one registration and one `handleDisconnect` (`GateCounts`),
that a registration that evicts waits for the only socket in its way (`Eviction`), and that
after Stop every registered socket is still to be closed, told to close or on its way out
(`Stopping`). For the client it says who notices the end of the published socket or is
about to dial (`Kept`), that sockets come one after the other (`Chain`), that a pause of
this session is followed by a resumption (`Resumes`), and what a Stop has achieved by the
time it has come that far (`Stopped`). The last three hold unless a Stop met a dial
(`overlapped`), which is also what the properties exempt. `NoZombie`, `StopClosesAll`,
`StaysConnected`, `DispatcherFollows` and `StopIsFinal` speak of states at rest and follow
from `IndInv` by cases on the program counters.

### Facades

`OneHand`: a callback is registered, taken by a drain, or called, never two of these.
`Charge` and `NoneForgotten`: as long as it is registered somebody brings its response,
error or cancellation. In `CentralSystem` only a callback behind one that panics in the
same drain is lost; in `ChargePoint` the promise ends with Stop and is made to requests
that were pushed and registered in the same generation, and `Generations` and
`StopOrder` keep the handlers of successive generations apart.

### Checked before it was proved

TLC has checked every inductive invariant on an instance. `client_restart` has `IndInv` of
the client as a property, with `LifecycleSpec`. `IndInv` of `WsServer`, `WsClient`,
`CentralSystem` and `ChargePoint`, and `OneSession` and `Reported` of the client
dispatcher, were checked on the constants of the runs. Those of the server dispatcher were
checked on smaller instances. `IndInv`, `Flight`, `Acks` and `Watched` hold for one client
with two connections and two sessions. The same four, `OneSession` and `Reported` hold for
two clients with one connection each, a context and one session.

### Only model-checked

- All liveness properties: fairness and `ENABLED` are beyond the prover.
- `ControlReturns` and `NobodyWaits` of `ChargePoint`: they speak of states in which no
  goroutine can move, and that needs `ENABLED` of each of them.
- `Answered`, `Interoperable`, `OnlyValid`: `Payload` needs RECURSIVE operators for nested
  types, which the prover does not support.
- The server's `NeverRewritten`, `InFlightIsPending` and `InFlightIsWatched` when a
  connection may be lost early or the pump may be slow: in general they fail, with one
  connection per client they hold in scenario `clients` of `server_races`.

## 5. Where code and comments disagree

`ws_client_stale_token` is a run of the project. The other configurations below are kept
beside it and refuted by TLC in the same way (`tlc -config <configuration>.cfg <module>`).

| configuration | module | property | what happens |
|---|---|---|---|
| `MCWCstale` | `MCWsClient` | `ReconnectsForever` | "attempt to re-connect to the server forever" (`ocppj/client.go` 127). Stop leaves a token in `reconnectC` when no loop runs (`ws/client.go` 423); the loop of the next session takes it and gives up, be it the loop of `StartWithRetries` after a refused dial or that of a lost connection |
| `MCCDtimeout` | `MCClientDispatcher` | `TimeoutAfterSending` | "the maximum timeout to be considered after sending a request" (25). The timer arm looks at the pending request (328) and then takes the front of the queue (332), which may be the next, unsent one |
| `MCCDpanic` | `MCClientDispatcher` | `DisconnectIsHandled` | "the client handles re-connection automatically" (`ocppj/client.go` 126). A connection lost before the first start of the dispatcher calls `Pause` with a nil timer |
| `MCSDlate` | `MCServerDispatcher` | `NeverRewritten` | the guard of 1073-1079. A connection lost before its `onClientConnected` creates a queue after its removal; a request is sent, not timed out, and sent again |
| `MCSDreply` | `MCServerDispatcher` | `ReplyIsDelivered` | "bounded by a single pump iteration" (1295-1298). With the pump stopped the send of the readiness token blocks and the response is not delivered |
| `MCWShang` | `MCWsServer` | `ShutdownReturns` | "the mutex is never held across a blocking channel operation" (`ws/server.go` 314, of the send in `error`). `stopConnections` holds the same mutex over `Close`, which waits for a slot that the write goroutine empties, which waits in `error` for the mutex |
| `MCWSping` | `MCWsServer` | `NoPanic` | `onPing` sends on `pingC` (`ws/websocket.go` 487), which `cleanup` may have closed (512). No comment says otherwise; the program panics |
| `MCEXoff` | `MCExchange` | `ValidationIsOff` | after `SetMessageValidation(false)` incoming messages "will not be validated anymore" (`validation.go` 27). `ParseMessage` validates them always |
| `MCEXspelling` | `MCExchange` | `ExtensionsKeepSpelling` | "1.00 stays 1.00" (`customdata.go` 106). Numbers pass through float64 before the extension is decoded |

Met while modelling, from the code and without a configuration of their own:

- an accepted request is lost when its sender pushes during the stop drain and looks at
  `running` after the next Start (317), and with it, at a charge point, its callback until
  the Stop after that; with the 2s escape and a reconnection a stale
  delete token cancels the new connection's timeout (936); `DeleteClient` does not invoke
  `OnRequestCanceled` for what it discards (580-584); `Start` does not reset `paused`;
- a Stop that meets a reconnection's dial can leave the client connected, or wait for a
  disconnection that does not come (`StopHangs`);
- `SendRequestCtx` of a charge point reads `stopC` after its request is registered
  (`charge_point.go` 526); a panicking callback in the central system's drain loses the
  callbacks after it (`MCCentralSystem` has `Panicky = {}`);
- an `int` next to 2^63 is written by its sender and refused by the receiver's decoder; a
  number outside float64 in an extension makes `ParseRawJsonMessage` fail, and the message
  is dropped unanswered (`ocppj/server.go` 292, `ocppj/client.go` 290);
- `null` of `datetime.go` (36) joins its comparisons with `&&`, so four bytes that agree
  with "null" in one place read as null;
- a CALL with an ID of more than 36 characters is not answered, nor one for which the
  `invalidMessageHook` returns an unknown code; a reply that does not parse leaves its
  caller to the timeout;
- `NobodyWaits` names two more: a callback that is registered after its generation was
  cleared is called by the next one, and a read goroutine that meets a failed `Start` waits
  for the next `Start` or `Stop`.

## 6. Not modelled, and what is next

- The configuration manager: a key/value store behind one mutex that nothing in the stack
  calls. Its merge and rollback rules would be the next module.
- Logging, schema tools, examples, mocks: no part of the protocol.
- Of the websocket layer: TLS, the length of timeouts and back-offs, ping periods.
- Of payloads: the members of an enumeration beyond one good and one bad value, payloads
  with two deviating fields, times outside the years 0 to 9999, the text of errors.
- A per-client `RequestLifecycle` as the refinement target of `ServerDispatcher`.

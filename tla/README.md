# Linebridge in TLA+

A model of the concurrent core of Linebridge: the HTTP pipeline of its Neo
engine, the map its processes share in memory, both sides of its real-time
engine, its services behind the gateway, and their life from the first fork to
the last signal. Six specifications, two abstract ones they are measured
against, TLC configurations that check them on small instances, and proofs that
TLAPS checks for every instance.

Paths below are relative to the repository; `neo/` stands for
`server/src/engines/neo/`, `classes/` for `server/src/classes/`, `rtengine/` for
`client/src/rtengine/`.

## 1. The system

| Component | State it keeps | Operations | Talks to |
|---|---|---|---|
| HTTP pipeline (`neo/on_request.ts`, `request_iterator.ts`, `request.ts`, `response.ts`, `SSEventStream.ts`, `classes/Handler`) | per request a Request and a Response (`completed`, the middleware cursor, the body and its promise); per engine `pending_requests_count` | accept, body data, abort, middleware chain with `next()`, handler, `send`/`json`/`close`/`stream`/`sse` | uWebSockets.js by callbacks, user code by calls and promises |
| Life cycle of the engine (`neo/index.ts`, `listen.ts`, `close.ts`, `route_register.ts`) | routes, the listen socket, the default route | initialize, register, listen, close | the server, uWebSockets.js |
| Shared-memory map (`server/addons/shm_map`) | one segment: a lock word and a table of fixed entries | `set`, `setRaw`, `get`, `getRaw`, connect | other processes through the segment only |
| RTEngine, server (`classes/RtEngine`, `neo/ws/Websocket.js`) | clients by socket id, event handlers, per socket a polyfill with listeners; topics are kept by uWS | upgrade, connection, message, disconnect, `emit`, `subscribe`, `unsubscribe`, `toTopic`, `ack`, senders | sockets, user hooks and handlers, NATS behind a gateway |
| RTEngine, client (`client/src/rtengine`) | one socket, timers of heartbeat and reconnection, pending calls, topics | `connect`, `destroy`, `emit`, `call`, `on`, topic functions | the server, by messages |
| NATS adapter (`classes/Nats`) | connection, consumer, subscriptions | upstream events, operations, global channels | NATS, the gateway, RTEngine handlers |
| IPC (`classes/IPC`) | a subscription, the table of commands | `invoke`, received event | other services over NATS |
| Server (`server/src/server.ts`, `registers`) | parameters, contexts, routes, hooks | `run`, the registration functions, `_fireClose` | engine, gateway, plugins |
| Bootloader (`server/bootloader`) | the child process, a debounce timer | fork, reload, watch | the child |
| Routes, utilities, built-in middlewares, OpenAPI plugin, gateway submodule (empty), docs | none that changes after start | | |

### What is hard in it

* **Callbacks and awaits interleave.** Node runs one piece of code at a time,
  but a request is suspended at its body, in every middleware, in its handler
  and in every chunk of a stream; meanwhile the client aborts, other requests
  move the counter, timers fire. A flag read before an await is stale after it.
* **User code is free.** Middlewares call `next()` twice, late or never;
  handlers throw, answer twice, not at all, or after their client has gone;
  hooks take as long as they like.
* **Processes share memory.** Two words of one entry are two steps, and a
  process may be killed between any two.
* **An unhandled rejection ends the process**: nothing in the repository
  listens for it. Who catches what is therefore part of correctness.
* **Two views of one thing**: the counter and the requests; what a client was
  told about its topics and what uWS keeps; the collection of clients and the
  sockets.

### What makes each component correct

* *HTTP pipeline*: every request is settled exactly once and the counter says
  how many are not; nothing of the user's runs after completion, before the
  body is there or twice; the handler starts behind every middleware of the chain, each
  of which has called `next()` or returned, and none has thrown; every client
  that stays gets an answer; what is thrown behind the iterator is contained.
* *Shared map*: every call takes effect at one instant, whatever the others do;
  one process is in the lock; the lock outlives its holders.
* *RTEngine, server*: the collection follows the connections; a client first
  hears that it is connected; what it heard about its topics is true; each
  request that asks for an ack gets one, when its handler has ended.
* *RTEngine, client*: one socket at a time; `destroy()` is final; a connection
  that is lost comes back or is given up after `maxConnectRetries`, and a dead
  one is noticed; a client that reconnects by itself keeps its topics; every call
  settles.
* *NATS and IPC*: every message reaches a handler and gets one answer for each
  time it did; a client is told only of what the gateway has done; an invocation
  that comes back with data was executed (one that comes back with an error may
  have been, too).
* *Server and bootloader*: what reports ready listens and has told the gateway
  of what it serves under names that are not reserved; the socket is closed once; the last change of the source is
  what is served in the end.

## 2. The modules

| Module | What it is |
|---|---|
| `NeoHttp` | the HTTP pipeline, one variable per concern: `req` (Request, Response and the frames of its middlewares and handler), `count`, `up` |
| `InFlight` | abstract: requests enter once, are settled once, a counter follows. `NeoHttp!Implements` is the refinement |
| `MCNeoHttp` | the instances for TLC |
| `NeoHttpProofs` | types, counter, refinement |
| `NeoHttpOrderProofs` | the order in which the user's code runs, and what ends the process |
| `SharedMap` | the map, one access to the segment per step |
| `AtomicMap` | abstract: a map of bounded capacity whose calls take effect at once. `SharedMap!Linearizable` is the refinement |
| `MCSharedMap`, `SharedMapProofs` | instances; types, mutual exclusion, the table, the refinement |
| `RTEngine` | the server side of the real-time engine |
| `MCRTEngine` | the instances |
| `RTEngineProofs`, `RTEngineDialogueProofs` | types, collection, first message; acknowledgments and topics |
| `RTEngineClient` | the client library, with the connection and a server reduced to what it answers |
| `MCRTEngineClient`, `RTEngineClientProofs` | instances; types and the three safety properties |
| `NatsAdapter` | the instances of a service behind the gateway, and IPC, with NATS and the gateway as environment |
| `MCNatsAdapter`, `NatsAdapterProofs` | instances; types and the three safety properties |
| `ServerLife` | bootloader, watcher, `Server.run` and the ways a process ends |
| `MCServerLife`, `ServerLifeProofs` | instances; types and the three safety properties |

In each module a constant `Behaviours` names what may happen beyond the
ordinary, so that a run says which freedom it grants. An operator that no
action uses and that is written as a variant of the next one (`IterateAhead`,
`AcquireUnchecked`, `ReceiveEarly`, ...) is a plausible bug in that piece of
code; `PROJECT.json` pairs each with the property it must break.

### NeoHttp

A step is the code between two points where it may be suspended.

| Action | Code |
|---|---|
| `Arrive` = `ArriveWithBody`, `ArriveFast`, `ArriveSlow`, `ArriveThrow` | `on_request`: count the request, then wait for the body, call the only middleware or the handler directly (fast path), or start the iterator; the catch block of a synchronous throw |
| `BodyTooLarge`, `BodyEnd`, `BodyResume` | `onData` of the body parser with its 413, and the continuation of `parseBody()` |
| `Abort` | `onAborted` |
| `MwSend`, `MwNext`, `MwReturn`, `MwThrow` | what a middleware does: answer, `next()`, return (auto-advance), throw an error or `null` |
| `HSend`, `HClose`, `HReturn`, `HThrow` | what a handler does; a value it returns is sent; it throws an error or `null` |
| `StreamStart`, `ChunkRefused`, `ChunkTooLate`, `ChunkLast`, `StreamEnd` | `Response.stream`, with and without a total size, and uWS backpressure |
| `SseOpen`, `SseClose`, `SseWriteFails` | `Response.sse`; a write that throws, on the timer of a ping or of the user's, with the catch block of `SSEventStream` |

Completion (`Send`, `Handle`, `Iterate`, `FastRun`) is written as operators
that take the state the step has given the request so far and end the step, in
the order of the calls in the code. With "listener" the listeners the user has
put on a response throw: those of "finish", called between the raw `end()` and
`completed = true` (`FinishCaught` where user code catches it, `FinishThrows`
where nothing does), those of "close", called when the response is settled
(`CloseThrows`), and those of "abort" and "close" in `Abort`. `UserSend` is an
answer that user code gives, `EngineSend` one of a catch block. Two things are
wider than the program: the
end of the body and the continuation of `parseBody()` are two steps, although
microtasks run before the next callback; and `Behaviours` lets a handler do
everything in any order.

Facts of the code the model keeps that one might not expect:

* A synchronous throw of the only middleware writes a 500 on the bare uWS
  response and leaves `completed` false, so that the request stays in the
  counter for ever (`ArriveThrow`).
* A stream with a total size resolves the pending request and leaves `completed`
  false, so that a second way out resolves another request's slot. On such a
  response an SSE write fails, and the catch block of `SSEventStream` (lines
  72-77) sets `completed` and resolves nothing (`SseWriteFails`). The counter is
  exact without sized streams and throwing listeners; with them it may end up
  too low or too high.
* A middleware that returns without calling `next()` does not stop the request:
  the iterator goes on by itself (`neo/request_iterator.ts:73-76`). The comment
  on `executeAsMiddleware` (`classes/Handler/index.ts:147-148`) and the guide
  (`docs/src/guide/middlewares.md:16`) say it does, and the model follows the
  iterator.

### SharedMap

| Action | Code (`server/addons/shm_map/map.ts`) |
|---|---|
| `Begin` | the call encodes key and value into private buffers |
| `Acquire`, `GiveUp`, `ForceUnlock`, `Unlock` | `_lock` (compareExchange, `DEADLOCK_SPIN_LIMIT`, store of 0) and `_unlock` |
| `ProbeEmpty`, `ProbeMatch`, `ProbeOther`, `ProbeFull` | one entry of the probe sequence of `_setInternal` or `_getInternal`; the table is exhausted |
| `WriteLen`, `WriteKey`, `WriteVal`, `ReadLen`, `ReadVal` | the copy loops, word by word |
| `Crash` | the process is killed between two accesses |

A key is a function from `1 .. KeyLen` to words, padded with zeros like the
scratch buffer, so that the empty key and keys that begin with one another are
told apart as the code tells them. A value is one symbol that fills `ValLen`
words; a get that copied words of two values returns a mixture no atomic map
returns. The comparison of a key is one step. The forced unlock happens when
another process was killed in the lock or, with "slow", when it may be held up
for 10 000 000 spins (`DEADLOCK_SPIN_LIMIT`).

### RTEngine

| Action | Code (`classes/RtEngine`) |
|---|---|
| `Upgrade`, `Accept`, `Refuse` | `handlers/upgrade.ts` up to its hook, and what the hook does |
| `Connect` (part of the above), `ConnectionHook`, `ConnectionHookThrows` | `handlers/connection.ts` up to its hook, and from it to its end |
| `ReceiveLost`, `Receive`, `ReceiveOther` | a message without a listener; `handlers/message.ts` up to the handler; the ping, the error and the unknown event, answered, and what is no JSON or `null`, dropped |
| `Subscribe`, `Unsubscribe`, `Emit`, `ToTopic` | `classes/client.ts`, called by a handler |
| `SendToTopic`, `SendToUserId`, `SendToClientId` | `handlers/sendTo*.ts` without a gateway |
| `HandlerEnd` | the tuple `executeAsWebsocket` returns, and the ack |
| `Close`, `DisconnectHook` | the wiring of `close` in `neo/index.ts`, `handlers/disconnect.ts` |

`out[s]` is everything sent to a socket, in order; the properties read it the
way the client would. `Adaptor` says what calls the engine: an app it is
attached to, whose request and response have the API the handlers use, or the
Neo engine, which hands over uWS's own. With the latter no upgrade survives
(see 3, known facts), so that everything behind the upgrade is checked with
the former. Payloads, whether an ack carries a result or an error, and the
difference between a pong, an error and the refusal of an unknown event are
abstracted: no property is about them.

### RTEngineClient

| Action | Code |
|---|---|
| `Connect`, `TokenResolves`, `TokenRejects` | `connect` up to the token function, and what follows it (`rtengine/index.ts`) |
| `Destroy` | `destroy` with its early return |
| `Subscribe`, `Unsubscribe` | `rtengine/topics.ts`; the reference goes when the server confirms |
| `MakeCall`, `CallTimeout` | `call`, its rejection when `emit` cannot send, and its timer |
| `Opened` | `handleOpen`: state, `regenerate()`, the first heartbeat |
| `CloseEvent`, `Lose` | `handleClose` and `#tryReconnect` with its three early returns |
| `Receive` | `handleMessage` and `#dispatchToHandlers`: pongs, confirmations, acks by event name |
| `RetryTimer`, `LostRetryTimer`, `HeartbeatTimer`, `LostHeartbeatTimer` | the two timers, and those whose handle a later one has overwritten: they fire all the same |
| `ServerReady`, `ServerTakes` | the server: it listens when its connection hook is through, and answers in order |
| `Mute` | the connection dies and nobody is told |

`setup` says whether the socket lives in a worker (`worker.js`) and what kind of
token there is; one behaviour has one set-up. A call is "pending" with its
handler, "bare" when `destroy` has dropped the handlers and only the timer is
left. `wanted`, the user's last word, is not in the code: it is what the
properties measure the client by. Of the past the model keeps what they ask
about: whether an attempt was the client's own (`auto`) and its socket opened
while it was reconnecting (`resumed`), whether the server was not yet listening
when something was sent (`missed`), whether a token function has rejected
(`denied`) and whether the user called `connect()` while an attempt was to come
(`crossed`). Timers are named by the handle that exists in
the code (`retry`, `beat`) and counted when the handle is lost. The only thing
assumed about time is that ten seconds are longer than a round trip on a
connection that works (`Answering`).

### NatsAdapter

| Action | Code |
|---|---|
| `Start`, `EngineUp`, `Ready`, `Crash` | how far `Server.run` has come: the adapter consumes before `engine.ws` exists, and before events are registered |
| `Publish`, `Deliver`, `Redeliver`, `AckOut` | the stream (external): one instance gets a message, `max_messages: 1`, again after `ack_wait` when its ack was not out |
| `Take`, `TakeGarbled` | the loop and `handlers/handleUpstream.ts` up to the handler: ack first, then the headers, the hook or the event |
| `Ask`, `Reply`, `Refusal`, `OperationTimeout`, `DispatchThrows` | `classes/Nats/client.ts` `operation`, `subscribe`, `unsubscribe`; `handlers/dispatchOperation.ts` |
| `GatewayExecutes`, `GatewayFails` | the gateway (external): late, or never |
| `HandlerReturns`, `HandlerThrows` | the end of `handleUpstream`: result, error, ack to the client |
| `Invoke`, `NoResponders`, `InvokeTimeout` | `classes/IPC/invoke.ts` |
| `CommandEnds`, `Responded` | `classes/IPC/handleReceivedEvent.ts`: the command, the encoding of its result and the answer share one try block, so that a command that ran to its end ("unsendable") may be answered with an error |

`log` is what the gateway has done for a socket, `told` what the socket was
told; `NoFalseConfirmation` compares them. `load` picks, once, which messages
and calls a behaviour has: every combination of two things under way at a time
is explored without paying for all of them together. An ack that is written and
not out dies with its process; whatever the handler sends later on the same
connection is behind it. Payloads, sequence numbers and the four cluster
operations are left out.

### ServerLife

| Action | Code |
|---|---|
| `Boot`, `BootFails` | `server/bootloader/boot.js`, `boot_function.js`: secrets, the main module, the handlers of signals and exit |
| `NatsUp` ... `AfterInitialize` | what `Server.run` does between two awaits, one action each, in the order of `Order` |
| `EngineUp`, `Declared`, `FileRoutes`, `WsFileEvents`, `BaseRoutes`, `Plugins`, `AfterInitialize` | the registrations; what cannot be initialised is logged and left out (`broken`) |
| `Publish` | `registers/gateway.ts` with `utils/getRoutes.ts`: what is registered by then, except for reserved names |
| `Listen`, `HandleUsr2`, and `Close`, `FireClose` in `Exited` | `neo/listen.ts` with its listeners, `neo/close.ts`, `Server._fireClose` |
| `HandleTerm`, `Signal` | signals, whoever sends them |
| `InitFails`, `MiddlewareMissing`, `RunFails` | a failing task exits; `registerBaseMiddlewares` is not awaited, so that its rejection ends the process one step later; any other rejection of `run()` |
| `Edit`, `Noticed`, `Reload` | `libs/watcher.js`, the debounce and `selfReload` of `run.js` |

The order of the steps is data (`Order`), so that a step out of order is one
definition. A registration is known by who made it and by whether its name is
one `gateway.ts` filters out ("reserved": `/`, `/_map`, `ping`,
`topic:subscribe`, `topic:unsubscribe`) or not ("own"). Every process is a child of the watcher; old and new overlap.
SIGUSR2 stands for SIGUSR1 too once the engine listens; before that SIGUSR1
does not end a process.

## 3. What TLC checks

| Run | Instance | Shows |
|---|---|---|
| `http_pipeline` | 2 requests, 1 middleware of the engine, 1 of a route for one of them; user code throws (errors, `null`, from its listeners), repeats and delays `next()`, streams with a size, forgets to answer; sockets refuse chunks | `TypeOK`; `CompletedIsFinal`: no client waits for a response that is flagged complete; `BodyBeforeCode`: nobody sees half a body, nor a 413'd request; `NothingAfterCompletion`; `NoMiddlewareReplay`; `HandlerGate`: the handler starts only when no middleware has been left out, still runs or has thrown |
| `http_live` | 2 requests, one on the fast path without a middleware, one behind two; user code throws errors and `null`, keeps to the protocol of `next()` | `CountExact`; `HandlerOnce`; `ThrowsContained`: nothing thrown behind the iterator ends the process; `Implements` (refinement of `InFlight`); `Answered`: everyone who stays is answered |
| `map_atomic` | 2 processes, 3 keys of 2 words, 2 values of 2 words, a table of 2 | `TypeOK`, `MutualExclusion`, `TableSound` (no duplicate, no hole), `Linearizable` (refinement of `AtomicMap`), `HeldIsReleased` |
| `map_crash` | 3 processes that are killed at any word, 1 key, a table of 1 | `ForcedAlone`: a forced unlock lets nobody in beside another as long as one process at a time is about to do it; `SurvivorGetsIn` |
| `rt_server` | 2 clients of a user, 3 messages, 1 topic, three hooks that suspend, hooks that throw, closes anywhere | `TypeOK`, `Registered`, `ConnectedFirst`, `TopicsAsConfirmed`, `AckDiscipline` |
| `rt_zombie` | a connection hook that suspends | `NoZombie` violated |
| `rt_client` | 4 set-ups, 2 sockets, 3 faults, 2 retries, 1 topic, 1 call, up to 4 operations of the user | `TypeOK`; `OneConnection`; `NeverStuck`: an attempt is coming, or the retries are used up, or the token function has rejected; `Restored`: when the client has connected again by itself, the server keeps, or is about to keep, every topic it counts on, unless `connect()` was called while an attempt was to come or the server missed a message; `Settles`; `CallsSettle` |
| `rt_client_destroy` | a token function | `DestroyIsFinal` violated |
| `rt_client_heartbeat` | a server whose connection hook suspends | `NoPongMeansLost` violated |
| `nats_service` | 2 instances, 1 crash, 1 client, two messages or a message and an invocation at a time; user code throws, hangs or returns what cannot be sent, messages are garbled, the gateway refuses, is late or silent | `TypeOK`; `AnsweredOnce`; `NoFalseConfirmation`; `SuccessMeansDone`: an invocation comes back with data only of a command that ran to its end or threw without a message, with an error only of one that met no instance, threw, or ran with a result that could not be sent; `Consumed`: the stream is emptied again and again though handlers hang |
| `nats_offline` | 1 instance, an event | `NotLost` violated |
| `server_life` | 2 edits, 3 children, 1 failure or foreign signal at any point, every source of registrations with own and reserved names, a route that may be broken | `TypeOK`; `ClosedOnce`; `ReadyMeansListening`; `ListingComplete`: the gateway is told of exactly what is served under a name of its own and was registered before the plugins; `LastChangeServed` |

Every property of a passing run has a mutant of the code that breaks it. Every
one that is not a liveness property is a theorem as well (section 4): the run
shows it on its instance, the theorem for every value of the constants.

**Bounds.** Two requests are enough for the counter: it is one number, and what
can go wrong is that one request's step counts for another. Their chains cover
the fast path (at most one middleware of the engine, none of the route) with and
without that middleware, the last middleware and one that is not the last. `MaxRuns` is 2
because handlers that run again are the violation already. The table of two
entries is full with two of the three keys, every probe sequence wraps, one key
is empty, one is a prefix of another and two collide; two words per key and
value are the fewest with a middle. Two processes are enough for what one does
to another in `map_atomic`; `map_crash` has three, so that two may wait for a
dead one and give up at once, and one key, since its question is the lock. In `rt_server` two messages of one client make two of its handlers
overlap, the second client is the other member of a topic; each handler calls
its client once, which is one step between two awaits. The two messages of one
client are interchangeable (SYMMETRY, in a run without liveness).
`http_pipeline` leaves out streams whose source ends early ("short"), and only
one of its two requests streams, whichever it is (`OneStreams`, a
CONSTRAINT): without these bounds the instance is too large. The theorems cover
both.

In `rt_client` two sockets are what it takes for one to be left over; `Slots`
bounds sockets that exist at a time, a slot is used again. Three faults are one
more than the retries, so that giving up is reached as well as a success after
a failure, and four operations are enough to connect, destroy and connect again
with a subscription in between (two where attempts wait for a token: they
multiply). In `nats_service` two instances are enough for a message to be
delivered again elsewhere, and two messages of one client for its handlers to
overlap; a second crash would repeat the first. In `server_life` two edits give
three children of which two may be alive and one dead, a change that arrives
during a debounce, and one after it.

**Deadlock** is not checked: each system may stop when all requests are served,
a process has died, or the user does nothing more. That nothing hangs is said by
`Answered`, `HeldIsReleased`, `SurvivorGetsIn`, `Settles`, `CallsSettle`,
`Consumed` and `LastChangeServed`.

**Fairness.** `NeoHttp`: a continuation that is pending runs; a function of the
user's, once started, returns or throws in the end; a body that began ends or
its client goes. Nobody is assumed to abort, to call `next()` or to end an SSE
stream. `SharedMap`: a process in a call is scheduled (weak fairness of its
steps inside the lock, and of trying to get in), unless it is killed; nothing is
assumed about who wins the lock, hence no starvation freedom is claimed, only
that a process left alone gets in. `RTEngineClient`: callbacks, timers and the
token function take their course, as an event loop and a connection that is not
dead guarantee; the user need not do anything and faults need not happen.
`NatsAdapter`: a stream that has messages hands them to an instance that asks,
a loop that holds one runs, `ack_wait` runs out; handlers and the gateway may
hang for ever. `ServerLife`: the framework's own steps are taken, SIGTERM is
delivered, the watcher is told and its timer fires; tasks, hooks and plugins of
the service may hang.

### Disagreements found

Each is a run that TLC ends with a counterexample.

1. *Clients that never leave* (`classes/RtEngine/handlers/connection.ts:35`,
   `rt_zombie`): the close event during the connection hook meets no listener.
2. *`destroy()` is not final* (`rtengine/index.ts:189`, `rt_client_destroy`):
   while `connect()` awaits the token there is nothing to destroy, and the
   socket is opened afterwards.
3. *The heartbeat closes a connection that works* (`rtengine/index.ts:616`,
   `rt_client_heartbeat`): the server does not listen before its connection hook
   has returned, so that the first ping is lost.
4. *A durable message is lost* (`classes/Nats/adapter.ts:135`, `nats_offline`):
   the consumer is drained, and acked, before the events are registered.

Known facts of the code that the models contain and no run is spent on; the
property in brackets is in the module and fails with the constants named:

* The fast path calls the only middleware without the wrapper that the
  documentation says catches its errors (`neo/on_request.ts:99`): one that is
  async and throws ends the process. So does a handler on the fast path that
  throws `null`, which makes the catch block of `executeAsHttp` throw
  (`classes/Handler/index.ts:131-141`, called by `on_request.ts:141`).
  `ThrowsContained` is therefore only about requests behind the iterator; said of
  all of them it fails in `http_live`.
* A listener of the user's on "finish", "close" or "abort" that throws ends the
  process, on the fast path and behind the iterator alike, since it has left
  the response half settled (`neo/response.ts:473-488`) or runs in the callback
  of uWS (`response.ts:124-134`; `ThrowsContained`; Behaviours "listener").
* A middleware that returns without `next()` lets the request through, whatever
  `classes/Handler/index.ts:147-148` and `docs/src/guide/middlewares.md:16` say
  (`HandlerGate` with "returned" taken out of its set; any Behaviours).
* A stream with a total size resolves its request early, and an SSE write that
  fails completes one without resolving it (`neo/SSEventStream.ts:72-77`): the
  counter is wrong for good (`CountExact`; Behaviours "sized").
* `drain()` compares a field that is `undefined` with `null` and registers
  nothing: a chunk uWS does not take is never sent (`neo/response.ts:400`;
  `RefusedChunkIsSent`; `Global` 0, Behaviours "backpressure", `FairSpec`).
* `next()` twice in the last middleware runs the handler twice
  (`neo/request_iterator.ts:77`; `HandlerOnce`; Behaviours "double_next").
* "If two contending processes both reset it, the next compareExchange will
  still only let one through" (`server/addons/shm_map/map.ts:236-237`): it lets
  two through, since the second reset comes after the first one has got in.
  `ForcedAlone` has this as its hypothesis; `MutualExclusion` fails in
  `map_crash`.
* A holder that is slow is taken for a dead one, in contradiction to
  `map.ts:251-252` (`MutualExclusion`; Behaviours "slow").
* A token function that rejects leaves the client as it is, with no retry to come
  (`rtengine/index.ts:126-132`; `NeverStuck` without `cl.denied`).
* Topics are lost, though the client counts on them, when the user calls
  `connect()` while a retry is to come: the timer that is left over replaces the
  connection by one that opens with `reconnecting` false, on which nothing is
  repeated (`rtengine/index.ts:468-480`, `680-684`; `Restored` without
  `cl.crossed`). So they are when the user calls `connect()` over a connection
  that works, subscribes before the first connection (`Restored` without
  `auto`), or when the hook of the server suspends while `regenerate()` sends
  (without `missed`; `Hooked` TRUE).
* An invocation whose command ran to its end is answered with an error when its
  result cannot be encoded or sent (`classes/IPC/handleReceivedEvent.ts:33-45`),
  and one whose command threw without a message, or something that is no error,
  comes back as a success with no data, whatever `docs/src/api/ipc.md:75` and
  `:133-134` say (`SuccessMeansDone` without "unsendable" or "muted").
* A handler or a command that throws `null` makes its catch block throw, which
  nothing awaits: the process ends (part of `Crash` in `NatsAdapter`).
* "Internal built-in routes" are kept from the gateway by name
  (`registers/gateway.ts:67`, `server.ts:306`): a service that has a `/` of its
  own, as `server/example/simple.ts:4-21` does, serves it and never tells of it.
  What plugins and `afterInitialize` register it never tells of either
  (`ListingComplete` without its exceptions).
* No upgrade gets through Neo: handler and error path use an API that uWS's
  objects do not have (`classes/RtEngine/handlers/upgrade.ts:32`;
  `UpgradeSurvives` of `RTEngine`; Adaptor "neo").

## 4. What TLAPS proves

Every safety property a passing run checks, and both refinements, for every
value of the constants that satisfies the assumption of the module. The
assumptions (`ConfigAssumption`, `MapAssumption`, `EngineAssumption`,
`ClientAssumption`, `NatsAssumption`, `LifeAssumption`) say what kind of value a
constant is, and few things besides: 0 is not a value of the map, as it stands
for no value; a worker has its token at hand, since the model has
one worker at a time. TLC evaluates each of them.

| Theorem | Says | Supposes |
|---|---|---|
| `NeoHttpProofs!TypeCorrect` | `Spec => []TypeOK` | |
| `NeoHttpProofs!CounterIsExact` | `Spec => []CountExact` | `Plain` |
| `NeoHttpProofs!Refinement` | `Spec => Implements`: refines `InFlight` | `Plain` |
| `NeoHttpOrderProofs!CompletionIsFinal` | `Spec => []CompletedIsFinal` | |
| `NeoHttpOrderProofs!BodyComesFirst` | `Spec => []BodyBeforeCode` | |
| `NeoHttpOrderProofs!CompletedIsTheEnd` | `Spec => NothingAfterCompletion` | |
| `NeoHttpOrderProofs!MiddlewaresRunOnce` | `Spec => NoMiddlewareReplay` | |
| `NeoHttpOrderProofs!HandlerIsLast` | `Spec => HandlerGate` | |
| `NeoHttpOrderProofs!HandlerRunsOnce` | `Spec => []HandlerOnce` | `Calm` |
| `NeoHttpOrderProofs!RejectionsAreCaught` | `Spec => ThrowsContained` | `Plain` |
| `SharedMapProofs!TypeCorrect` | `Spec => []TypeOK` | |
| `SharedMapProofs!LockIsExclusive` | `Spec => ForcedAlone` | `Prompt` |
| `SharedMapProofs!UndisturbedLock` | `Spec => []MutualExclusion` | `Undisturbed` |
| `SharedMapProofs!TableStaysSound` | `Spec => []TableSound` | `Undisturbed` |
| `SharedMapProofs!CallsAreAtomic` | `Spec => Linearizable`: refines `AtomicMap` | `Undisturbed` |
| `RTEngineProofs!TypeCorrect` | `Spec => []TypeOK` | |
| `RTEngineProofs!ClientsAreRegistered` | `Spec => []Registered` | |
| `RTEngineProofs!ConnectedIsFirst` | `Spec => []ConnectedFirst` | |
| `RTEngineDialogueProofs!EveryRequestAcknowledged` | `Spec => []AckDiscipline` | |
| `RTEngineDialogueProofs!TopicsAgree` | `Spec => []TopicsAsConfirmed` | |
| `RTEngineClientProofs!TypeCorrect` | `Spec => []TypeOK` | |
| `RTEngineClientProofs!SingleConnection` | `Spec => []OneConnection` | |
| `RTEngineClientProofs!AlwaysTrying` | `Spec => []NeverStuck` | |
| `RTEngineClientProofs!TopicsRestored` | `Spec => []Restored` | |
| `NatsAdapterProofs!TypeCorrect` | `Spec => []TypeOK` | |
| `NatsAdapterProofs!EveryTakeAnsweredOnce` | `Spec => []AnsweredOnce` | |
| `NatsAdapterProofs!ConfirmationsTrue` | `Spec => []NoFalseConfirmation` | |
| `NatsAdapterProofs!ResultsTrue` | `Spec => []SuccessMeansDone` | |
| `ServerLifeProofs!TypeCorrect` | `Spec => []TypeOK` | |
| `ServerLifeProofs!SocketClosedOnce` | `Spec => []ClosedOnce` | |
| `ServerLifeProofs!ReadyListens` | `Spec => []ReadyMeansListening` | |
| `ServerLifeProofs!ListedToGateway` | `Spec => []ListingComplete` | |

What a theorem supposes is what the code needs, not what the proof does: when
any of these hypotheses is dropped, TLC finds a counterexample on the instance
of a run.

* `Plain`: no stream has a total size and no listener throws. A stream with a
  size resolves its request and leaves it open, so that a second way out resolves
  another one's slot; a listener that throws leaves a response ended and not
  completed, which the next catch block trips over.
* `Calm`: no middleware calls `next()` twice, or after it has returned. One that
  does runs the handler again.
* `Prompt`: nobody is slow: no process is held up inside the lock until another
  one has spun to the limit. Any number of processes may be killed.
* `Undisturbed`: nobody is slow or killed. A process killed between the words of
  an entry leaves half of one, and a call `AtomicMap` would have to abandon; one
  that is held up and overtaken writes while another does.

### The arguments

*NeoHttp, counter.* The invariant `IInv` adds to the types that a request that
has not come in is untouched. Every step is shown to have one shape
(`StepShape`, by way of `Outcome`): it concerns one request and either leaves
the counter alone and the request as alive as it was, or settles it and resolves
one. The counter theorems follow from the shape alone, with facts about
cardinality; the refinement maps the first kind of step to a stutter or `Admit`,
the second to `Settle`. `CountExact` is not inductive: it needs that what is not
completed has not been resolved and can still be answered (`Regular`), which is
where the hypothesis enters, or is a request whose raw response `on_request` has
ended behind the back of the Response, and that nothing happens to any more
(`Dead`).

*NeoHttp, order.* None of the properties is inductive: each depends on how far
the chain has come. `Ordered` says it, request by request: the middlewares
before the cursor are done with and those behind it idle (`InOrder`), nothing
has started while the body is on its way (`Waits`), a completed response has
left the wire (`Final`), one middleware or the handler has the baton (`Baton`,
if `Calm`), and behind the iterator a request that is not completed can still be
answered, so that every catch block has somewhere to send its error
(`Answerable`, if `Plain`), and does (`Thrown`).
Code completes a request through one of few operators (`Send`, `Handle`,
`Iterate`, `FastRun`); each has one lemma, and an action cites the ones it ends
in. The same step lemma (`StepMoved`) gives the three action properties.

*SharedMap, lock.* `Sound` ties the word a process will touch next to the place
it is at; without it the copy loops could leave the entry. Mutual exclusion is
not inductive either: `LockInv` adds that the lock is held while somebody is in
it, and that whoever is about to force it finds it held, and nobody inside. The
latter is what fails when two are about to force it at once, and `ForcedAlone`
assumes they never are (`OneForces`); where nobody dies, `LockInv` says that a
lock that is held has somebody inside, so that nobody gives up on it.

*SharedMap, table.* `TableInv` says of every entry that is taken that all before
it on the probe sequence of its key are taken, that no other entry bears the
key, and that it holds one whole value unless a process is writing it; and of
every process that the entries it has passed belong to other keys, that the
words it has copied so far are those of its value, and that those it has read
are still those of the entry. `CallsAreAtomic` maps the table to the map in
which a key has the value its writer brings, if it has one, and otherwise the
value in its entry. So the instant of a call is the step that ends its probe:
the one that finds the entry, an empty one, or none. Begin and unlock are the
call and its return, the copying of words and the spinning stutter; that the
words copied out make up the value the key had at that instant is what `Reads`
is for. That "Out of memory" is thrown only when
`AtomicMap` is full takes `Room`: the taken entries are as many as the keys
there are; and that a key which is missing was looked for everywhere takes
`SlotReaches`: a probe sequence visits every entry.

*RTEngine, collection.* `Lifecycle` says in which order a socket passes its
states and that only a connected one has topics; `Inbox` that it has heard
nothing before it is connected and something afterwards; `Served` that a handler
works only for connected clients. All the ways to reach a client then come down
to one lemma (`SpeaksKeeps`): a message other than "connected" goes to open
sockets that have heard it.

*RTEngine, dialogue.* `Talk` reads `out[s]` as the client does: a topic is kept
by uWS exactly if its last confirmation says so (`Agreed`), and each
acknowledgment is there once, and only when its handler has ended (`Answers`).
What is needed beside is that a request was sent by a socket that opened
(`Asked`): an acknowledgment that meets none is owed to nobody. Three lemmas say
what a step, any step, does to what a client hears (`StepSays`), to a request
(`StepServes`) and to a socket (`StepSockets`); both theorems follow from them.

*RTEngineClient.* `Core` is stated of any client, sockets and topics, so that it
can be carried through the pieces a handler is made of, in their order: no
socket but the client's is alive (`Single`), a client in a worker whose socket
is open knows (`Told`), and each topic is kept, on a socket that opened while the client was
reconnecting, by the server, or on its way there or on its way out (`Kept`). `Single` needs that no attempt waits for a token
that is at hand; `NeverStuck` needs `Going`, and that a client which is wanted
has not been aborted. `Restored` asks about sockets the client opened by itself
and `Kept` about those that opened while it was reconnecting; what joins them is
`Pace`: as long as `connect()` has not crossed an attempt, the attempts come one
after the other (`InTurn`), and one that a retry timer makes finds the client
reconnecting until its socket opens (`ByItself`).

*NatsAdapter.* `Settled` is what makes `AnsweredOnce` inductive: a handler that
runs still owes one of the answers its takes account for, so that an answer is
never one too many. `Truthful` adds to the log that a job which told its client
is over with the operation, `Logged` that an operation the gateway accepted is
in the log before the client hears, `Honest` says of an invocation what its result
says of its command. The stream holds each queued message once
(`Stored`), without which a message could be taken twice at a time.

*ServerLife.* Every process is sound on its own (`Listed`, `Bound`, `Over`): what
has been registered, told and opened follows from the place in `Order`, and a
socket closed early is a signal's doing; from the step that tells the gateway on
what it was told is what has been registered under other than reserved names,
except by plugins and `afterInitialize` (`Told`, `Late`). Across processes only their number
matters: `Owed` counts children, the timer and a change nobody has noticed yet
against the edits, which is why `MaxEdits + 1` children are enough.

### Only model-checked

Liveness: `Answered`, `HeldIsReleased`, `SurvivorGetsIn`, `Settles`,
`CallsSettle`, `Consumed` and `LastChangeServed`. They rest on fairness, hence on
ENABLED, which is beyond the prover. `Linearizable` and `Implements` are
refinements of the safety part of the abstract specifications, which state no
fairness.

## 5. What is not modelled, and why

* Of the pipeline: `Request.pipe` and raw streams, cookies, headers, files and
  downloads (data, or I/O). Of the map: several segments, UTF-8, values longer
  than the buffer. Of the real-time engine: streams of `Websocket.js`,
  backpressure of sockets, JSON, events registered at run time.
* Of the client library: the user's own listeners, URLs and parameters, and
  `autoReconnect` and the heartbeat switched off (less happens then). A worker
  together with a token function: two workers could then be alive, each with a
  heartbeat of its own, and the model has one (`ClientAssumption`).
* Of NATS: global channels and `unsubscribeAll` (nothing in the repository calls
  the former; the latter walks over a list the adapter's engine does not have),
  what the cluster operations send, a connection that NATS gives up for good.
  The order of the messages of one client is promised nowhere and kept nowhere.
* Of the life cycle: `ipcService.ts`, CORS and base headers, aliases and globals
  (data); the name of the socket file, hence an old child that unlinks the file
  its successor has bound; registrations a running service makes itself.
* A crash between the words of an entry: what a later lookup returns is
  promised nowhere, so `Linearizable` is checked without crashes.
* Payloads of the real-time engine that cannot be encoded: `client.ack` is not
  awaited, so such a result ends the process; the model has no such values. (IPC
  has them: they are answered.)
* Of IPC, what decides that an error says nothing (a message that is empty or
  absent) is data: the model has one outcome for it, "muted".
* Which call an ack belongs to: the protocol says only of which event.
* Built-in middlewares, the OpenAPI plugin, the construction of routes: no state
  that changes. The gateway is an empty submodule.

## 6. Plan

What the models cover is the code that has state and concurrency, and its
safety properties are proved. What is left is to say more with the proofs:

1. `SharedMap` with crashes: an invariant of the table that allows one entry per
   killed process to be unfinished, so that what holds for all the others
   (unique bearers, no hole before an entry) is a theorem about processes that
   never force the lock at once.
2. Action properties that follow from the invariants at hand: a job of
   `NatsAdapter` that is done stays done, a call of `RTEngineClient` settles once,
   the boot sequence of `ServerLife` never goes back.
3. Abstract specifications of what the client library and the NATS adapter
   promise (a connection with retries, delivery at least once), with their
   refinements; TLC first.

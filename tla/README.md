# Lowdefy: TLA+ models of the parts that take turns

Lowdefy runs web applications from configuration. A build compiles YAML to
artifacts; a server evaluates them for requests; an engine in the browser keeps
the state of each page. Most of that is evaluation of data. The parts in which
several actors take turns, and in which an order nobody wrote a test for can go
wrong, are modelled here: the websocket feeds, from the page to the source on
the server; the events, actions and requests of a page; the routines of API
endpoints; and what runs a developer's servers: the hub, the manager of each
development server, and the slots that processes of one machine share.

Paths below are relative to the repository's `packages/`.

## 1. Inventory

### The live feeds (modelled)

| component | source | state | operations |
|---|---|---|---|
| channel registry | `api/src/routes/websocket/createChannelRegistry.js` | `channels`: key → channel object (subscribers, abortController, restartTimer, retryCount, the resolver's promise); `subscriber.subscriptions` | subscribe, unsubscribe, unsubscribeAll, publish; startResolver, handleResolverError, removeChannel, broadcast |
| connection | `api/src/routes/websocket/createWebSocketConnection.js` | closed, closing, the caller's fingerprint, `feedQueues`, the caller-check timer | handleMessage, enqueue, processFrame, handleFrame, checkCaller, closeWith, close |
| preparation and caller | `prepareChannel.js`, `resolveWebsocketCaller.js`, `getCallerFingerprint.js` (same directory) | none of their own | evaluate a subscription to a key, or refuse it; read the session |
| websocket client | `client-core/src/websocket/createWebSocketClient.js` | the socket, `subscriptions`, `pendingPublishes`, `reconnectAttempt`, `reconnectingAfterCallerChange`, five kinds of timer | subscribe, unsubscribe, publish; onopen, onmessage, onclose; the timers |
| page feeds | `engine/src/WebSockets.js`, `client/src/Context.js`, `client-native/src/Context.js` | `active`, `payloads`, `replacing`, `context.websockets`, buffers and throttle timers | subscribe, unsubscribe, subscribeAll, unsubscribeAll, handleMessage, flush, clearChannel, mount and unmount |
| sources | `plugins/websockets` | of the plugin | a resolver run publishes, ends or fails |

How they interact. A page calls the client of its tab; the client sends frames
over one socket and answers through the handlers each subscribe registered and
the promise it returned. A connection handles the frames of one feed in order
and the frames of different feeds concurrently; it calls the registry, which
calls back by sending to every subscriber of a channel. All connections of a
server share the registry. Everything runs on two JavaScript event loops, so a
step between two awaits is atomic, and every await, timer, frame and
connection event is a point where anything else may come first.

What is hard. `subscribe` and `publish` await a preparation of any length, in
which the socket may close, the caller change, the channel be emptied, given up
or restarted. A connection may be lost with frames on their way in both
directions. Acks may arrive after the subscribe they answer was replaced or
timed out. Messages do not say which subscription they belong to. Timers
outlive what they were armed for. Restart timers and retries run beside
subscribers that come and go.

What makes each part correct.

- Registry: a subscriber is only in channels whose key it holds; no source runs
  for nobody; whoever joins a channel joins one that runs or is about to;
  broadcasts reach holders of the key.
- Connection: the last frame of a feed decides what the connection is
  subscribed to; closed, it holds nothing; a changed caller
  closes it.
- Client: what is asked for has a connection or one coming; every promise
  settles; client and server agree when nothing is on its way; an idle socket
  closes; a server that keeps closing is not hammered.
- Page: a page that counts a feed as subscribed is the one told about it; it
  shows messages of its current payload only; nothing is left unrendered.

### The development hub (modelled but for its process and socket)

| component | source | state | operations |
|---|---|---|---|
| start slots | `cli/src/commands/hub/createStartSlots.js` | `holders`: app → process and time; `waiting`: the apps in line | tryTake, enqueue, dequeue, hold, release, takeNext, tick |
| hub | `cli/src/commands/hub/createHub.js`, `stopProcessGroup.js` | `registry.instances` (saved on every change), exits, launched children, the serialize queue | start, stop, launchQueued, exit handler, forgetDeadServers, reap, adoption |
| hub process, socket, clients | `withStartLock.js`, `connectHub.js`, `listenHubSocket.js`, `hubServe.js` (same directory) | a lock file, a socket | find or start the hub (not modelled) |

One hub process serves all sessions of a user. Starts and stops run one at a
time through `serialize`, each over several awaits; exit events, the slots' timer
and the reaper run beside them, and the servers are processes with lives of
their own, which outlive the hub and are found again by the next one. What is
hard: events of a server that was replaced, entries that are checked before an
await and deleted after it, slots that pass between a queue, a launch and a
server, and a hub that is killed between any two steps. It is correct if no app
gets two servers, no server is forgotten, the reaper stops what it judged and nothing
else, and slots bound the starts without ever being lost.

### Machine slots (modelled)

| component | source | state | operations |
|---|---|---|---|
| machine slots | `utils/node-utils/src/acquireMachineSlot.js` | one file per slot, naming the pid and start time of its holder | acquireMachineSlot (tryTake, readLiveHolders, tryCreate, isStale), release |
| start times | `utils/node-utils/src/createStartTimeCache.js` | pid → start time, for some seconds | readCached |

At most so many processes of a machine may run a browser or a journey at once.
No process serves the slots: each reads, links and unlinks files, and others do
the same between any two of its file operations. A holder may be killed, and
its pid be another process's when its file is looked at next. The code is
correct if the limit is kept as far as it promises, and a dead holder's slot
becomes free.

### The development server manager (modelled)

| component | source | state | operations |
|---|---|---|---|
| batches | `servers/server-dev/manager/utils/BatchChanges.mjs` | `args`, timer, `running`, `repeat`, busy | newChange, the timer, _call, _settle |
| the manager | `servers/server-dev/manager`: `getContext.mjs`, `processes/`, `watchers/`, `utils/` | `context.devServer`, `stoppedDevServer`, the artifacts tracker, the queues of builds and of syncs, the idle child's `stopped` and `waking` | watcher callbacks, lowdefyBuild, syncServer, restartServer, shutdownServer, startServer, idle stop and wake |

One manager process watches the app's files, builds them, installs the packages
they need, and runs one Vite child that serves the app. Builds go through one
queue, and what starts, stops or replaces the child through another; watchers,
requests, the idle timer and the child's exit come at any time. It is correct if
there is never a child nobody holds nor two at one port, every batch of changes
is handled, a manager that reports that it is not busy serves the last edit, and
a request is not left with a manager that stopped its child.

### API routines (modelled)

| component | source | state | operations |
|---|---|---|---|
| routines | `api/src/routes/endpoints`: `runRoutine.js`, `control/`, `invokeEndpoint.js`, `callEndpoint.js`, `handleRequest.js`; and the `callApi` of `api/src/routes/request/callRequestResolver.js` | the routine context (shared steps and state, array indices, call depth, whether a `:catch` is above), the error's `handled` mark | steps, `:for`, `:while`, `:if`, `:switch`, `:parallel`, `:parallel_for`, `:try`, `:return`, `:reject`, `:throw`, endpoint calls and callApi |

A routine is a tree of steps and controls, of which `:parallel` and
`:parallel_for` run several at once, each to its next await, on one shared
context. Errors pass through nested controls and endpoint calls. It is correct
if a routine answers what it would answer were its parts not interleaved, ends
only when everything in it has ended, runs each part once, and logs an error once.

### Events, actions and requests of a page (modelled)

| component | source | state | operations |
|---|---|---|---|
| events | `engine/src/Events.js` | `loading`, `history`, `timeouts`, `bouncer` of each event | triggerEvent, with its three kinds of debounce |
| actions | `engine/src/Actions.js` | the place of each call in its list | callActions, callActionLoop, async actions, the catch list |
| requests | `engine/src/Requests.js` | the calls of each request, newest first, each with its response | callRequests, callRequest, fetch |

An event may be triggered again while a run of it waits, and requests are
answered in any order. It is correct if each call settles once and is logged as
it ran, an event that loads has a run, and a late answer never replaces that of
a newer call.

### The rest of the repository (not modelled)

| component | source | what it does |
|---|---|---|
| hub process, socket, clients | `cli/src/commands/hub` | which process is the hub, and how a client finds or starts it |
| callers of machine slots | `servers/server-dev/lib/docs`, `cli/src/commands/test` | take a slot around a browser or a journey run |
| start-up, proxy and further watchers of the manager | `servers/server-dev/manager` | seen through the requests that are use of the server; pairing and the mail sink are left out |
| engine: state and page contexts | `engine/src/State.js`, `getContext.js`, `claimDomEvent.js` | sequential reads and writes of one object; correctness is about data |
| engine: blocks, slots, lists | `engine/src/Block.js`, `Slots.js` | evaluation of a block tree against state; sequential |
| detached, scheduled, webhook and link endpoints | `api/src/routes/endpoints` | other ways into a routine: authenticate, build a payload, run it once, answer |
| API requests, authentication, agents | `api/src/routes/request`, `auth`, `agent` | request handlers over external services; little state of their own |
| build | `build` | a sequential compiler; its correctness is about data |
| operators, helpers, layout | `operators`, `utils/helpers`, `layout` | pure functions |
| command line | `cli/src`, `utils/node-utils` | apart from the hub and the slots, sequential commands around files and child processes |
| plugins, blocks, documentation | `plugins`, `docs-content` | adapters to external services, user interface, content |

## 2. Plan

| part | modules | composes | abstract specification | theorems |
|---|---|---|---|---|
| A. live feeds | `ChannelRegistry`, `WebSocketConnection`, `FeedServer`, `WebSocketClient`, `PageFeeds` | connections over the registry; client over FeedServer; pages over the client | `FeedServer`, implemented by connection and registry, relied on by client and page | done, the refinement included |
| B. development hub | `StartSlots`, `DevHub` | hub over start slots, with crash and restart | — | done |
| B2. machine slots | `MachineSlots` | processes over slot files | what the limit still means beside the accepted race: the earlier holders | done |
| C. development server manager | `BatchChanges`, `DevManager` | manager over batches, builds, children | `BatchChanges`, whose callbacks take any time, implemented by the manager | done |
| D. engine | `PageEvents` | events over actions and requests | — | done |
| E. API routines | `Routine`, `RoutineMeaning` | activations, endpoint calls | `RoutineMeaning`: the routine with no interleaving | done, the comparison with `RoutineMeaning` included |

All five parts are modelled and checked. What is left: the hub's process, lock and socket; and the parts of the manager that section 6
leaves out. Runs are few, one for each
component and question.

## 3. Modules and how they correspond to the code

**`ChannelRegistry`.** A subscriber is a connection; a key is a feed with the
hash of what it was evaluated to (`getChannelKey`). `channels` is the map and
`channel` the objects, with identities, because an object lives on after the map
dropped it: a resolver that ignores its signal, an onPublish hook and a restart
timer all refer to it. An identity is taken again once nothing refers to it
(`Unused`), which keeps the state finite. `subscribe` is `SubscribeCall` up to
the await of `prepareChannel`, then `Join` or `Create`, or `CallFails`. `publish`
is `PublishCall`, then `PublishNow`, or `PublishToHook` and `HookPublishes`.
`handleResolverError` is `ErrorIgnored`, `ScheduleRestart` or `GiveUp`;
`healthy` says whether the run lasted long enough to reset the retry count.
`sent` is the last step's broadcast: to whom, for which key.

The retry's delay grows with the count; only the order of timers matters to
the properties, so a set timer may fire at any time.

**`WebSocketConnection`** extends `ChannelRegistry` and takes its actions. Each connection has a
queue of frames per feed (`feedQueues`), a `stage` for the frame at its head and
an `outbox` of frames the client has not got yet. `StartSubscribe` to
`AnswerFrame` follow `handleFrame` await by await, the caller check included;
`CloseWith`, `SocketCloses` and `CloseFinishes` are the two halves of `close`,
which unsubscribes once at once and once more when the calls in flight have
settled. A closed connection may open again as a new one (`Opens`). `session`
is what the session store says at the moment; `caller` what the connection was
opened as. `wanted` is a history variable: what the last handled frame asked
for. Frames that do not parse, and unknown types, change no state and are left
out.

**`FeedServer`** is what one connection promises its client, in four variables:
frames up, frames down, what is being handled, and the payload it serves. The
client's model is composed with it. `ConnectionService` maps a connection,
with the registry behind it, to these variables; its `ServesAsPromised` says
that `Connection`, which is any one of them among the others, implements it.

**`WebSocketClient`** has the client's subscriptions (as objects with identities,
since timers and promises outlive map entries), publishes, the connection and
its timers. Delays are abstracted to the order in which timers fire, except that
`age` tells apart the three ages of a connection on which the backoff depends.
`quickReconnects` is a history variable: the reconnects in a row that were scheduled
with the shortest delay.
`conn = "closing"` is a socket whose close handshake runs. A handler that is
called, or a promise that is rejected, is reported in `told`.

**`PageFeeds`** composes page contexts with `WebSocketClient`: each action of the
page includes the client's, and each step of the client is taken together with
the page's reaction to what it was told (`React`). The Subscribe and Unsubscribe
actions run whether the page is mounted or not, as the engine does not look: a chain
of actions goes on after its page unmounted. The history variable `overtaken` has the
active contexts whose feed another page took or dropped since. A message is known by the
payload whose channel sent it, so the page's message list is the set of payloads
it holds messages of. `maxMessages` and the events a message triggers are left
out: neither feeds back into the feeds.

**`StartSlots`** has the slots' state, `holders` and `waiting`, and its operations
as operators that `DevHub` takes into its steps. A holder is `Taken` between the
taking of a slot and the launch, and the server from then on (`pid: null` and a
pid). `releaseFinished` frees the slots of servers that are no longer starting
and of those the caller names as overdue.

**`DevHub`** has the queue of tasks and the place the first one is at: `idle`,
`reaping` (while `isUsedSince` reads the record, after which `stopServer` looks into the
registry again), `stopping` (in `stopProcessGroup`), `launch` (in `launch` before `spawn`) and
`spawned` (while the start time is read). Steps are cut at the awaits after
which the code reads or changes what others change; what follows the last await
of a call is one step with it, so a slot is taken in the step that ends a stop
or a description. A server goes from `launched` to `starting` when its manager
has written the instance record (`acquireDevInstance`), to `ready`, and to
`exited` until the hub, if it is its parent, has had the exit event. `Adopt` is
the first task of a hub. `Crash` keeps the servers and the saved registry. `lost`
is a history variable: the hub kept no entry of this live server. Launch errors
are `LaunchFails`; a server that dies at once is `Exits` in `spawned`.

**`BatchChanges`** has one record per watcher: the changes no call has taken, those
of the running call, the timer, `running` and `repeat`, and what was last told to
`onBusy`. `Notified`, `Called` and `Settled` are `newChange`, `_call` up to its
await, and `_call` after it.

**`DevManager`** includes the batches and supplies their callbacks. Versions of what
the developer edits are counters: `source` is the config directory, `disk` the
published build with the server's package.json, `env` the `.env` that was read,
and a child carries the versions it was started on. `queue` is the queue of
`syncServer` with the task at its head at a `step`: the optimiser of the first
start, an install, its build, the wait for the old child's exit, the wait for the
new child's answer. `builds` is the queue of `lowdefyBuild`. Each watcher's
callback is at a place of its own (`call`). `stopped` and `waking` are those of
`createIdleChild`, and `StopRuns` judges again when its turn comes, as the code
does. A child is `booting`, `up` or gone, signalled or killed; only one holds
the port, and one that finds it taken exits. `MaxFaults` bounds failing builds
and installs and crashing children.

**`Routine`** has one activation for each call of `runRoutine`, named by its path in
the tree of the run: its routine, the context it runs in, its result. A step
answers, or throws an error of any class. Each control is an action that starts
its next part or ends with a result; `:parallel` and `:parallel_for` start
several, and all of them go on in any order. A control may also fail by itself (`Fails`):
an operator of it throws, or a key is missing or of a wrong type. All but `:while` look
at what they need before they take a part; `:while` evaluates its condition before each
iteration, and `:return`, `:reject` and `:throw` evaluate what they answer. A sequence
and `:try` evaluate nothing. A result carries the activation it
came from, so two errors are told apart. `log` is what was logged, at which
level and by which activation; `answer` what the caller was told.
**`RoutineMeaning`** is what the routine means without interleaving. `meaning` is a
recursive function: `Compose` makes the meaning of an activation that has ended, its
result and the paths it takes, from its routine and the meanings of the parts it ran. Of
the run it takes only what steps answered, which branch or how many iterations conditions
chose, whether a call was refused, and whether and when a control failed by itself; a part
that should have run and did not means what no run does.
`AnswersAsMeant` compares it with every activation that has ended, also while others
run, and with what the caller is told.

**`MachineSlots`** has a process per pid with the place it is at in
`acquireMachineSlot`, cut at each file operation: listing and judging the holders,
`tryCreate`'s link, reading a slot's holder, looking whether the file exists,
unlinking it. A holder is a pid with the start of its process; `known` is the
cache of start times. `Dies` and `PidReused` happen at any time. `before` is a
history variable: who has held a slot since the process began to look.

**`PageEvents`** has the calls of all events in one sequence. A call waits for its
debounce timer, runs at a place in its action list or in its catch list, or is
done; `awaits` are the requests it waits for. `fetches` are the calls of each
request; what the page shows is the newest one's response. An action is seen as
the requests it calls, whether it is async, and whether the old response is held
while they load.

**The proof modules** are `WebSocketConnectionProofs` (with the registry),
`WebSocketClientProofs`, `PageFeedsProofs`, `DevHubProofs`, `DevManagerProofs` (with
the batches), `MachineSlotsProofs`, `PageEventsProofs` and `RoutineProofs`. The `MC…`
modules give constants values and symmetry sets.

A definition preceded by a comment `\* mutant: …` is a faulty form of the
definition that follows it: a dropped guard, a missing reset. Nothing uses it.
`PROJECT.json` pairs each with the property that detects it when it stands in
for the original.

## 4. What the runs check

| run | question | what it shows |
|---|---|---|
| `registry` | two connections, one feed, two keys, two channel objects, one retry | types; nobody is in a channel whose key it does not hold; no source runs for nobody; broadcasts reach holders of the key, under every interleaving of subscribes, leaves, publishes, hooks, failures, restarts and give-ups; a failed source of a registered channel is run again or its channel given up |
| `connection` | one connection, two payloads, two callers, queues of two, sources given up at their first error | the last frame wins; closed, it is in no channel, whatever was being prepared; connection and registry refine `FeedServer` |
| `connection_closes` | one payload, sources that restart; fairness of the server's own work | closing finishes; a changed caller closes the connection |
| `client` | one feed, two payloads, three requestIds, connections of every age | client and server agree when nothing is on its way; connections dropped before they are stable are not reconnected to in a tight loop |
| `client_settles` | publishes before, during and after a connection; fairness of timers and connection attempts | publishes and subscribes settle, lost connections return, idle sockets close |
| `page` | two pages of a browser on one feed, changing payloads, actions of mounted and unmounted pages | whom the client tells is active; an active page is told unless another page took or dropped its feed; a replaced channel starts empty; a connected page hears its own payload, also when acks of replaced subscribes come late |
| `hub` | two apps and one slot; restarts, queued launches, exits, reaps, crashes | one server for an app; every server tracked; a taken slot has its launch coming; the reaper stops what it judged, or nothing if that exited or was forgotten meanwhile |
| `manager` | three watchers, three child processes, one request, one package, two edits and one fault | no child is lost, none starts beside another; batches are handled; a stopped child is in nobody's use; not busy means the last edit is built and served |
| `manager_settles` | the same with one edit; fairness of the manager's own work, of signalled children that exit and the current one that boots | every batch is handled in the end; a request that is use comes to a child that answers, or to one that has crashed, which the manager does not start again |
| `routine` | some seventy routines that nest every control, controls that fail by themselves, two endpoints, one of which calls itself | nothing outlives the control that started it; each error is logged once and at its level; what has ended answered what it means, just the parts it means have run, and the caller is told so; every run ends |
| `slots` | two pids with two starts each, limits one and two | nobody takes a slot beside as many earlier holders as its limit; a reclaim costs no earlier holder its slot; who asks is served, gives up or dies |
| `events` | an event of each debounce, one shared request, three calls, three fetches | calls settle once and as logged; what loads is busy; only the newest call decides what is shown; whoever triggers is answered |

Each module states a type invariant. It is proved (section 5); the runs do not list
all of them, since the other properties say more.

All runs pass. Writing the models also showed where the code does something else
than a sentence beside it says, or than the code around it intends; no property
of a run claims the contrary:

- `websockets-introduction.md:42`: identical properties share one running source.
  After `MAX_RETRIES` the channel leaves the map with its subscribers in it, and the
  next subscriber with the same key starts a source the earlier ones never hear.
- `websockets-introduction.md:35`: when the user navigates away, the subscription
  ends. Messages of it that are still on their way are taken as a new
  subscription's when the page subscribes again with another payload.
- `engine/src/WebSockets.js:102`: until the ack of a replacing subscribe, messages
  come from the replaced channel. The server registers before it acknowledges, so
  the new channel's first messages come before the ack, and are dropped.
- `websocket-subscriptions.md:62`: `connected` means the subscription is live. The
  client has one subscription for a websocketId, so a page whose feed another page
  subscribes to or unsubscribes from stays active and `connected` and hears nothing.
  Of two mounted screens of a native shell that is the lower one. In a browser, an
  action chain of page A that awaits a request and then subscribes, page B being
  mounted by then, takes the feed from B; when B unmounts it drops A's subscription,
  and A, mounted again with the same payload, takes itself for subscribed.
- `createWebSocketClient.js:26`: a connection closed for a caller change again within
  30 seconds reconnects with the normal backoff. The stable timer resets the backoff
  after 10 seconds, so one that lives between 10 and 30 seconds is followed by the
  shortest delay each time. That is no tight loop, and `NoReconnectLoop` counts
  connections that were not stable only.
- `createStartSlots.js:25`: a slot is held from launch until the server is ready, gone
  or overdue. A restart queued before the app's own queued launch launches with
  its slot; the queued launch then finds the app running and releases the slot.
- `acquireMachineSlot.js:136`: a slot is lost to a race of two that reclaim one dead
  holder's slot. It may also be lost with no process dead: a file that is released
  after its holder was read, and created by another before the look whether it
  exists, is taken for stale.
- `restartServer.mjs:45`: a restart records package.json as it is after the wait for
  the old child. One that a page build changed in that wait counts as installed.
- `controlTry.js:26`: inside a `:try` with a `:catch` an expected error is logged
  quietly. `callApi` does not hand this on to the endpoint it calls.
- `ai-agent-docs.md:202`: an event is not yet marked loading during its delay. The code
  marks it at once, and a call that a leading edge bounces leaves it marked.

### Bounds, and why they are enough

- `ChannelId`: with two identities an aborted or given-up object with a source,
  timer or hook still alive exists beside its successor.
- `MaxRetries` is 1 instead of 5 (0 in run `connection`, whose restarts are in
  `connection_closes`): one scheduled restart, one give-up, and a reset
  of the count after a healthy run all happen. The theorems hold for every value.
- `MaxQueue`, `MaxUp`, `MaxDown` bound the frames on their way per feed when the
  sender adds another. Two frames up are a subscribe being prepared and what
  overtakes it; three (run `client`) add the frame of an ack timeout or of a
  second replacement. One source frame down is enough to be of a replaced
  channel; replies are not bounded.
- `SubId`, `SubRequest`: identities are used again once nothing refers to them;
  one subscribe at a time per feed is in the map, another is being given up,
  and requestIds in frames on their way stay taken.
- `MaxTimers`: reconnect timers armed at once. The code can arm several, since a
  subscribe may connect while a timer runs.
- `Ages`, `MaxAttempt`: ages of a connection and attempts that are told apart in
  run `client`; two attempts tell growth, reset and cap apart.
- One feed is enough wherever feeds are independent: queues, channels,
  subscriptions and page state are per feed, and what is shared (the socket, the
  idle and reconnect timers) is exercised by subscribes against publishes.
- One connection is enough for `connection`: connections meet only in the
  registry, whose run has two.
- Hub: two apps contend for one slot; `START_SLOTS` is 2 in the code and 1 at
  critical memory pressure, so the slot bound is met with one app fewer. A server's
  identity is used again once nothing refers to it; two are enough for a server
  and its replacement, or two apps. `MaxTasks` is one task that runs and one that
  waits when another call comes; the slots' timer may add more.
- `Hanging`: apps whose start may outlast `holdMs`. Only slots of servers become
  overdue: the queue is assumed to take less than `holdMs` (five minutes).
- Manager: three children are the old one, its successor and one that is killed; two
  edits put one in a batch and one during its call; one fault is a build, an
  install or a child. `Requests` and the tab are the two kinds of use. With more
  edits only more batches follow one another; the proved part holds for any.
- Routines: each control fails by itself, or has each other control, a step, an endpoint call and
  callApi inside it, and each `:catch` and `:finally` that continues, throws or
  returns around it. Three items on two lanes are an item that waits for a lane.
  `MaxDepth` is 2 instead of 10; `MaxIterations` ends a `:while` whose condition is
  chosen.
- Slots: two pids meet at one file; `MaxDeaths` and `MaxStarts` let both die, and a
  pid be used again; two takes are a slot taken, given up and taken again. The theorems hold
  for any number.
- Events: three calls are one that runs, one that waits and one that bounces it;
  three fetches are an answer, a later and a late one.
- Views leave out `sent` and `told`, which report the last step and which no step
  reads. That of `page` also leaves out whether a feed shows an error, and keeps of its
  messages whether there are any: nothing else of them is read.

### Fairness

A step is fair only when it is work the code itself has started.

- Registry: the restart timer (`WF(Restart)`). Callers, sources and hooks owe
  nothing.
- Connection: handling a frame that was started, the second half of `close`, the
  caller check, an interval timer. The fair check is the one whose caller did
  change, since the interval repeats for as long as the socket is open. Fairness
  of frame handling assumes that a preparation ends, by success or failure.
- Client: timers that are armed, connection attempts (a socket opens or its close
  event comes), and the close event of a closing socket. That the server sends
  anything is not assumed: promises settle by their timers.
- A connection that is reopened each time before an ack timer runs out re-arms it.
  `PromisesSettle` says so: a subscribe settles unless connections open for ever.
- Manager: timers of batches, callbacks, builds, installs, the tasks of the queue, the
  exit of a child that was signalled, and the boot of the current one once its port is
  free: Vite answers or exits. The tasks do not need it, as the wait for the answer ends
  by itself; a request does. That a child does not crash is not assumed. Edits, faults, requests and
  the idle timer are not fair.
- Routines: something that is ready runs (`WF(Next)`): steps answer in the end.
- Slots: a process that lives goes on and gives its slot up in the end, and cached start times expire.
- Events: a trailing timer fires, actions end, and requests answer or fail. That a
  leading timer fires is not needed.

## 5. What is proved

The registry. `WebSocketConnectionProofs` begins with the registry by itself and
proves of it, for every number of subscribers, feeds, hashes, channel objects and
every `MaxRetries`:

- `RegistryTypeCorrectness`: `RegistrySpec => []RegistryTypeOK`;
- `Membership`: `RegistrySpec => []MembersHoldTheKey`;
- `SourcesAreWanted`: `RegistrySpec => []NoOrphanSource`;
- `JoinedChannelsLive`: `RegistrySpec => []JoinsLiveChannel`;
- `Delivery`: `RegistrySpec => SentToHolders`.

They assume `RetriesAssumption` (`MAX_RETRIES` is a natural number; in the code
it is 5) and `AbsentAssumption` (the values that stand for an absent key and an
absent channel are neither).

The argument. None of the properties is inductive alone. That a member holds
the key fails to survive `Leave` unless two keys never share an object
(`JoinsLiveChannel` gives each entry's object its key) and a subscribe in
flight has left its previous channel (`CallsOK`). That a live source has
subscribers needs that an object nobody aborted is in the map
(`LiveIsRegistered`), which in turn needs that `Create` takes an unused object.
`RegistryInv` is the conjunction `RegistryTypeOK /\ CallsOK /\ ChannelsOK`;
`RegistryInvariance` shows it holds at the start and is kept by each action, and each theorem is a conjunct
of it. TLC checks its consequences in run `registry`. `Delivery` follows from the invariant step by step: a
broadcast goes to the subscribers of an object that is not aborted, hence in
the map, hence holders of its key.

`SentToHolders` excludes one kind of step, `SupersededPublish`: an onPublish
hook that was given the publish of a run, outlives that run's restart, and calls
it after the channel was given up. The signal of a run that was replaced is
never aborted, so the publish goes to whoever the object still lists. The code
does not prevent it and nothing in the repository says it cannot happen.

The connections. To this `WebSocketConnectionProofs` adds `EvaluationAssumption`: what
stands for no payload is none, and what a subscription evaluates to is a hash. First, each
step of a connection is a step of the registry or leaves it alone
(`StepOfTheRegistry`), so that `RegistryInv` holds with connections around it; `ConnectionsKeepTheContract` states it. Of
one connection's feed the invariant says where the first frame is and that the registry's
call is for it (`StageInv`), that the last subscribe or unsubscribe in the queue is what
was asked for last, or the subscription is when none is queued (`WantedInv`), and that
a closed connection has no frame and no subscription (`GoneInv`). `LastFrameWins` and
`ClosedHoldsNothing` follow, for queues of any length.

`ConnectionServesAsPromised` is the refinement: `Spec => ServesAsPromised`, for any one
connection among any number. It rests on `ConnectionAssumption` (it is one of them) and on
`TellsApart`: two payloads of one caller that evaluate to one channel are one payload to the
client's model, where the message of a channel names the payload it was sent for.
`ServiceInv` adds to the invariant that a key held is one of the client's payloads', that a
publish in the registry is a publish frame's, and that nothing is on its way on a
connection that is not open. The steps are mapped one by one: what a call, a leave or a
source of any connection does to this connection's membership and hears of it is told by
lemmas about the registry (`ServedAfterLeaving`, `ServedAfterJoining`,
`CallsHeard`, `SourcesHeard`); a broadcast that reaches the connection is a
`SourceMessage`, `SourceError` or `SourceGivesUp` (`BroadcastSeen`), its own frames are
the actions of `HandleFrame`, closing is `Disconnect`, and everything else, the
other connections' business included, is a stutter (`Unnoticed`). A client proved over
`FeedServer` is therefore proved over this server, but for the superseded publish.

`WebSocketClientProofs` proves for any feeds, callers, payloads and number of frames in
flight what run `client` checks, `QuietAgreement` and `NoReconnectLoop`, and three
facts its liveness rests on: who waits has a timer (`WaitingIsTimed`), what is asked for has
a connection or one coming (`WantsConnection`), and an idle socket is going to be closed
(`IdleSocketIsTimed`). `ClientAssumption` says that what stands for none is none, and
that there are more requestIds than feeds. The invariant is about one feed of an open
connection (`FeedOK`): the last subscribe or unsubscribe on its way up is what the client
asks for now, or what is served is when none is on its way (`AsksAgree`,
`ServesTheAsk`); no two subscribes, and no subscribe and reply, share a requestId
(`RequestsDiffer`); and a refusal of what is asked for now is the server's last word
(`RefusedIsLast`), without which a refused subscription would be dropped while a later
one is served. Each step of either end keeps it for the feed it concerns
(`OneFeed`), whatever the lengths of its two queues. `NoReconnectLoop` has an invariant
of its own (`BackoffInv`): after one reconnect with the shortest delay the backoff has
begun and no connection since was stable, and after a second in a row the last close
was for a change of caller, which the next such close repeats.

`PageFeedsProofs` assumes `PageFeedsAssumption`, the client's assumption for the pages' use of
it. Every step of the pages takes at most one step of the client, so the client's invariant
holds under them, taken over through an instance of its proofs. Of a feed the invariant
says that its subscription is of a page that counts it as active, with the page's
current payload (`Holds`); that behind the answer to the last subscribe no message of an
earlier payload can come (`Answers`); and that a page which counts as connected has that
answer, so only its own messages are on their way (`HearsItsOwn`). Who is active and not
told was overtaken (`ToldOrOvertaken`): of the steps of the pages and the client only
another page's subscribe or unsubscribe leaves a page untold. All of it is proved for
any pages and screens, mounted one at a time or stacked; `OwnFeedsAreTold` adds that nobody
is overtaken where no two contexts show one feed.

`DevHubProofs` proves the hub's four properties for any apps, servers, slots and length of
its queue, from `SlotsAssumption`, `HolderAssumption` and `NoneAssumption` (numbers are
natural, and what stands for none is no app and no server). `TracksItsServers` needs where
the first task is: what it stops is its app's only server (`StopInv`), what it launches
finds none (`LaunchInv`), and what it spawned belongs to it until it is registered
(`SpawnInv`); and while there is no hub nothing of it runs (`DownInv`). `OneServerPerApp`
is a consequence; `TakenIsPending` is inductive with the types. `ReapsWhatItJudged` needs
that the entry the reaper judged is the app's own until it goes (`ReapInv`): exits and
`forgetDeadServers` drop it only when that server is dead, and the reaper of removed apps,
which drops any entry, is not at work then, since a pass does one thing after another
(`RemovingInv`).

`DevManagerProofs` proves of the batches alone `BatchSafety`, for any watchers and
changes: a change no call has taken has a timer or a call that repeats, busy is told
truly, and a callback never runs twice at once. The invariant is inductive with the
type. Of the manager it assumes `ManagerAssumption`: the watchers and kinds of change the code
has, a `None` that is no child, natural bounds, and more children than faults,
so that a start always finds a free identity. `ManagerBatches` proves that the
manager, callbacks and all, implements `BatchSpec`; `ManagerHandlesBatches`
follows. `ManagerTypes`, `ManagerKeepsItsChild`, `ManagerKeepsStops` and
`ManagerStartsAlone` are proved for any number of children, requests, packages, edits and
faults. The invariant `ChildInv` adds to `NoOrphanChild` and `StoppedIsUnused` where
the task at the head of the queue is: only a restart past its shutdown has
`devServer = None` with a new child to come, only the head is past its beginning,
the child awaited is the one stopped, and signalled children are that one or killed. A new child
then starts only when nobody else has the port.

`ManagerServesTheLastEdit` is `IdleServesTheLastEdit`: a manager that says it is not busy
has built the last edit, unless its build failed, and the child that runs was started on
it and on the last `.env`. Its invariant `IdleInv` says of each thing that is not up to
date who will see to it, and that whoever will keeps the manager busy: a watcher has the
change in its timer or its call (`WatchersHandle`, `ToHandle`); a queued build or sync is
awaited by a caller of its own, so a queue that is not empty has a busy watcher
(`CallersWait`); versions only grow, so what was built cannot be newer than its source
(`VersionsGrow`); of the last source is the build, the running build or one to come
(`BuildCatchesUp`), and likewise the environment (`EnvCatchesUp`); and a child that is
older than what is published has a sync behind the head of the queue
(`ChildCatchesUp`), whose tasks let go of the child before they install (`StepsFit`).

`MachineSlotsProofs` assumes `SlotsAssumption`: limits are positive and one is the largest.
`EarlierHoldersAreCounted` is the promise that survives the race the code accepts: a process
takes no slot while as many as its limit have held one since it began to look.
`Looking` is the invariant: while it counts, none of the earlier holders has left
its listing (`Lists`), since an earlier holder's file exists and is not stale to it
(`EarlierIsNotStale`); once it has counted, they are fewer than its limit
(`Fewer`), since their slots differ; and what it takes for free is none of theirs
(`Spares`), from which `EarlierHoldersAreSpared` follows.

`PageEventsProofs` assumes `EventsAssumption`: each event has a debounce and two lists of
actions over the requests. The invariant is the types with `WaitsInv` (only the last call
of a trailing event waits, and it is the bouncer), `BouncerInv`, `LogInv` and
`LoadingIsBusy`; `CallsAreLogged`, `LastCallWaits`, `LoadingHasARun` and `NewestIsShown`
are its consequences for any events, actions and requests.

`RoutineProofs` proves `NothingOutlives`, `LoggedOnce` and `AnswersAsMeant` for any routines, endpoints,
number of items, lanes and depth. `RoutineAssumption` is what the build makes of a routine:
each part of a control is a routine itself, the endpoint a call names exists, items and
lanes are numbers. It says nothing of how deep routines nest, and an endpoint may call
itself. None of these properties is inductive. The invariant `IInv` adds that the activations are
a finite tree of paths (`RunInv`), and that with an activation all those above it were
started, and none of them answered first (`PathsInv`): a control that ends does so when
the parts it awaits have ended, and with them, by `PathsInv`, everything below. Whether a
control awaited all it started depends on what it can have started: the second part of a
`:try` only after a body that a `:catch` catches, the third only after both (`ShapeInv`),
and of a control that goes one after another, just the first so many (`OrderInv`), so
that the last one ended is all of them ended. `LoggedOnce` needs that the context knows of
the `:try` around (`CaughtInv`), through other controls and endpoint calls but not through
`callApi`, which begins a context of its own and wraps an error of no Lowdefy class in one
of the request's, logged anew; and that an error is logged where it arose
and by nobody it passes (`LogInv`), so that `handled`, which travels with the error,
tells whether its origin logged it.

`AnswersAsMeant` is proved in two parts. The invariant `MInv` speaks of one activation and
its parts, and no meaning is in it: what runs at a place is the part the routine has there
(`Fits`), and was reached there, each earlier part of an ordered control having
continued and no other branch of an `:if` having run (`PartsInv`); and what an activation
answered is made of what its parts answered, or is an error of its own with no part run,
of a `:while` with parts that all continued (`AnswersInv`, with `MadeOf` for each kind of
control). A step changes one activation, and an activation that has ended has parts that
stay as they are, by `NothingOutlives` (`KeepsKids`, `KeepsMade`): that is where
interleaving could have done harm. `RoutineAnswersInvariant` states it, with `ToldInv`:
a caller that waits is told the result once nothing goes on (`StepsBefore`), so the
result stays what it was told. That `MInv` implies
`AnswersAsMeant` is then a fact of a single state (`MeantIs`): if each part means what it
answered and ran, so does the whole (`Composes`). The prover cannot do induction
over routines, but need not: the activations are finitely many, so what they answered
solves the equation of `meaning`, and any other solution would differ first at an
activation with fewest below it, whose parts agree.

Only model-checked: all liveness (`FailedSourceRestarts`, `ClosingFinishes`,
`CallerChangeCloses`, `PromisesSettle`, `Reconnects`, `IdleSocketCloses`, `BatchesSettle`,
`UseGetsAServer`, `RunsEnd`, `WaitersAreServed`, `CallsSettle`), which the proof system
does not cover. Every other property of a run is a theorem.

## 6. Abstractions and what is not modelled

- Time: a timer that is armed may fire at any moment. The lengths of delays
  matter only to the backoff, where ages stand for them.
- What a subscription evaluates to: `HashOf` maps a caller and payload to a hash;
  run configurations use one under which payloads tell channels apart.
- A refused or failed preparation is an outcome that is chosen, for any reason.
- Message contents, formats, logging and error texts.
- The hub's ports, attachments, logs and answers, and servers started from a
  terminal. Memory pressure is either of its limits at any moment; use and
  idleness of a server are chosen. That an app's `lowdefy.yaml` was missing for
  two passes of the reaper is one choice.
- Liveness of the hub: a start that finds a slot free takes it ahead of the apps
  that wait, so the code bounds no wait.
- The slot of a queued launch may also be released by a restart that meets a dead
  entry of an adopted server; the app is then queued again beside its pending
  launch. No run states it.
- Manager: which text `markRestartPending` logs; the `ready` flag and an answer that comes after the
  wait for it; the exit on a change of version, and the manager's own shutdown.
  A child reads what it is started on when it is spawned, and a build reads its
  source when it begins; what a build publishes is published at once. The
  watchers of plugin sources and of restart requests behave as the `.env` watcher
  does. One idle stop is queued at a time. A failing build leaves package.json as it
  was. The proxy is seen through the requests that are use and one
  tab; an edit reaches its watcher at once; the plugin check may come at any time
  after the first start.
- Manager: the exit of a child by itself is logged and no more (`startServer.mjs:109`).
  The manager holds such a child as its server until the next restart, a wake finds it
  there, and `UseGetsAServer` leaves requests that meet it out.
- Routines: what steps answer and conditions evaluate to is chosen, and so is whether a
  control fails by itself: the error is then a fault of the app, of a Lowdefy class or
  of none. `:log`, `:set_state`, validation, agent and auth steps are steps. A `:try` or a
  part that is no routine is a step that throws. A payload that does not validate is a
  fault; that it is an outside caller's error in an agent's tool call is left out.
  `:switch` is an `:if` with more branches; a detached call is a step that continues; a request step calls
  `callApi` once; `:set_state` changes nothing that is compared; `:throw` of an error that
  was caught is a new error of the author's; an async call is accepted at once.
- Slots: one slot per process at a time. Start times that cannot be read, journey runs
  that take a slot of two kinds, and progress notes are left out. The properties leave
  out holders of whose pid the caller has an earlier start time in its cache: the code
  takes their slots for stale until the entry expires.
- Events: what actions do to state, messages, nested control actions, events that an
  inner block claims and the length of histories. Calls of endpoints (`callAPIHandler.js`)
  hold values and answer as requests do. A request named twice by one action is left out.
- Several server instances: a registry is of one instance, and `publish` reaches
  the subscribers of that instance only.
- The order between a socket's `send` and the network is FIFO per feed, as a
  websocket is; frames of different feeds are not ordered with respect to each
  other, and no property relates them.

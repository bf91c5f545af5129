# Formal models of the module context and its RabbitMQ bus

This directory holds TLA+ models of this repository: the plugin framework
(`src/src/framework`) and the RabbitMQ message bus module
(`src/modules/rabbitmq_bus`), the TLC configurations that check them on small
instances, and proofs for every instance, checked by TLAPS. Paths below are
those of `PROJECT.json`, which maps every definition to the lines it models.
`Bus.cpp` is short for `src/modules/rabbitmq_bus/src/RabbitMqBusModule.cpp`,
`Proxy.cpp` for `src/modules/rabbitmq_bus/src/internal/MessageBusServiceProxy.cpp`,
`Manager.cpp` and `Base.cpp` for `ModuleManager.cpp` and `ModuleBase.cpp` of
`src/src/framework`.

## 1. Inventory

### The parts, their state and their operations

| part | state | operations | what makes it correct |
|---|---|---|---|
| **ModuleBase** (`Base.cpp`) | `state_`, `ctx_` of one plugin instance | `Init`, `Start`, `Stop`, `Fini`, each testing a transition table and calling a hook that may fail; `SetModuleName` | every hook that succeeded is undone once, before the instance is destroyed |
| **ModuleManager, ServiceRegistry, Context** (`Manager.cpp`, `ServiceRegistry.cpp`, `Context.cpp`) | modules by name, configurations, load order, providers per service | `LoadModules` (all or nothing), `LoadModule`, the loops `Init`, `Start` (forward, stop at the first failure), `Stop`, `Fini` (backward, keep the first error), lookups | load order and its reverse; a failed load leaves nothing behind; a result `Ok` speaks for every module |
| **Connection driver** (`Bus.cpp` 1292-2378) | `commands_`, `state_`, `stop_requested_` under a mutex; sockets, buffers, channels, `ready_`, `handshake_ready_`, `pending_disconnect_` of the driver thread | `Start`, `Stop`, `Publish`, `DeclareExchange`, `DeclareQueue`, `BindQueue`, `CompleteDelivery`, `GetConnectionState`; `ThreadMain` and the AMQP callbacks | every accepted call is answered once; the published state is true; frames leave in order; the connection recovers; `Stop` returns |
| **Delivery path** (`Bus.cpp` 1672-1728, 2334-2378, 2519-2652) | unacknowledged deliveries, the pool's queue, running handlers, queued completions | `HandleIncomingMessage`, the delivery callback, the worker task, `CompleteDelivery` | no delivery is lost or settled twice; a message is settled as its handler said; back pressure |
| **MessageBusServiceProxy** (`Proxy.cpp`) | none of its own; handlers, configuration and driver in the shared state | register and unregister a consumer handler, publish and declare through the driver | a delivery takes the handler registered at the time it arrives |
| **RabbitMqBusModule hooks** (`Bus.cpp` 2429-2661, `SharedState.h`) | shared state: configuration, driver, pool, handlers, under one mutex | `OnInit`, `OnStart`, `OnStop`, `OnFini` | start and stop in the right order; nothing of one life reaches into the next |
| **Dynamic topology** (`Bus.cpp` 1094-1146, 1504-1670, 2159-2332) | the driver's own copy of the configuration | upsert after a confirmed declaration, replay at every connect | what was confirmed is there again after a reconnect |
| **Reconnect backoff** (`Bus.cpp` 1836-1858, 1968) | `reconnect_delay_ms_`, `next_reconnect_at_` | double, cap, reset | the delay stays within the configured bounds, no attempt is early |
| **Heartbeats** (`Bus.cpp` 2083-2100) | `last_heartbeat_sent_`, `handshake_ready_`, the buffer | `MaybeSendHeartbeat` once per round of the loop | the broker hears an idle client in time |
| **Bus configuration** (`Bus.cpp` 162-364, 660-1092) | none | `ParseBusConfig` | accepts what is well-formed and nothing else: bounds, unique names, references that resolve |
| **Module configuration file** (`Manager.cpp` 1-246) | none | `ReadModuleConfig` | each module is loaded as exactly one entry says |
| **Value conversions** (`Bus.cpp` 366-658) | none | ConfigValue to AMQP fields and back | a value survives the round trip |

Tests, simulators, the example, the plugin macros and the build files are
clients or declarations; they have no row in the models.

### How they interact

* The application calls `Context`, which forwards to `ModuleManager`, which
  calls each `ModuleBase`, which calls the hooks of the bus module. A hook may
  call back and load further modules. All of this is one thread.
* `OnStart` makes a worker pool and a driver, and installs the delivery
  callback; `OnStop` ends the driver (flag, then join) and after it the pool.
* Application threads and pool workers call the driver: they put a closure in
  `commands_` under the mutex and block on a promise. The driver thread swaps
  the queue out, runs the closures and sets the promises, some at once, some in
  a later callback of the AMQP library.
* The broker pushes deliveries; the driver thread runs the delivery callback,
  which hands a task to the pool; a worker runs the handler and then calls the
  driver like any other thread.

### What is hard

Interleaving of callers, the driver thread, the workers and the stop; frames
and callbacks in any order and faults between any two of them; the rebuild of
the topology, which a fault may cut short; a promise that must be set exactly
once although four places may set it; results that outlive their connection;
drivers, pools and references that outlive a stop; hooks that fail half-way
through a loop; loading in the middle of a loop; numbers of 64 bits in an `int`.
`PROJECT.json` lists each of these hazards at its line with the properties that
catch it.

## 2. Modules

| module | role |
|---|---|
| `CommandService` | abstract specification: what the driver promises a calling thread |
| `ConnectionDriver` | the driver: callers, queue, thread, connection, rebuild, stop; implements `CommandService` |
| `ConnectionDriverProofs` | its theorems |
| `SequenceLemmas` | lemmas about queues, which the other proofs use |
| `MessageService` | abstract specification: how the messages are settled while a connection stands |
| `Delivery`, `DeliveryProofs` | broker, driver thread, worker pool, handlers and `OnStop` composed, and its theorems; implements `MessageService` until the first reconnect |
| `ModuleBase` | the life cycle of the instances, hooks that fail |
| `JsonValues` | JSON values and the reading of their fields, for both parsers |
| `ModuleConfig` | `ReadModuleConfig`: what a file of modules says |
| `ModuleManager` | `EXTENDS ModuleBase, ModuleConfig`: loading, the loops, the registry |
| `ModuleManagerProofs` | its theorems |
| `BusConfig`, `BusConfigProofs` | `ParseBusConfig`, and a definition of a well-formed configuration; and its theorems, which relate the two |
| `BusModule`, `BusModuleProofs` | `EXTENDS ModuleBase, BusConfig`: the hooks of the bus module over several lives, with driver thread, workers, handlers and callers; and its theorems |
| `Topology`, `TopologyProofs` | what the driver declares again after a connect, and a broker that loses some of it; and its theorems |
| `Backoff` | the delay between two attempts to connect |
| `Heartbeat` | `EXTENDS Backoff`: the driver's loop on the same clock |
| `TimingProofs` | the theorems of both |
| `MC...` | constants for TLC |

### ConnectionDriver

A client `c` has a call `op[c]`, a promise `result[c]` and a `ticket[c]`, the
rank of its call among those accepted. `commands`, `local` and `inflight` are
the three places a command can be in: `commands_`, the swapped-out
`local_commands`, and the declarations whose AMQP callbacks hold the promise.
`outbound` holds the frames of the buffer as tickets, `wire` is a history of
what the socket took. `boot` counts the replies of the topology rebuild:
exchanges, queues and bindings first (`TopologySteps`), then consumers
(`ConsumerSteps`); -1 says that it got an error and goes no further. `thread`
is the control point in `ThreadMain`; its names follow the calls in the loop.
The mutex is taken for single accesses only, so each critical section is one
action, and the unlocked stretches between two of them are actions of their
own: `HandleDisconnect` is `DropConnection` and `SettleState`, since it first
fails the connection and later locks the mutex to publish the state.
`reconnect` is the configuration's `reconnect.enabled`, chosen at the start
from `ReconnectModes` and never changed.

`DeclareExchange`, `DeclareQueue` and `BindQueue` differ in the frame they send
and the specification they keep, so one operation `declare` stands for them.
Argument checks before the queue (an empty name) have no effect and are left
out. `PublishBody` answers `ok` when the frame is in the buffer, which is all
the code knows.

The broker and AMQP-CPP are external. What the models assume of them: replies
on a channel come in the order of the requests (`AwaitsReply`), an error on a
channel or on the connection calls the `onError` of every request that waits
there (`FailInflight`), and closing the connection object does the same.

### Delivery

The same thread with a coarser loop, `top -> drain -> pump -> check`, or
`connect` when there is no connection, and in exchange the broker's queue, the
pool and the handlers. A delivery is a record of consumer, tag, message and
connection number; the last two are what only the properties look at. A new
connection starts its tags at 1, as AMQP does. The broker settles by channel
and tag; a tag it does not know closes the channel. `LinkBreaks` is the broker
(or the network) giving up the connection, which the client notices later.
`outbound` covers the bytes from the driver's buffer to the broker, so a
reconnect loses what is there.

`MessageService` is what an application may rely on: a message is in the queue,
out, or settled (`place`), and of a message that is out one word is said
(`words`), by its handler or by the driver thread that could not hand it to the
pool. The broker settles it by this word, or takes it back with the connection.
Driver, pool and tags do not occur in it. The refinement reads `place` off the
broker's side and `words` off the commands and frames that speak of a delivery
which is still out; `FirstLinkService` states it for behaviours that have not
reconnected.

The failure branch of `HandleIncomingMessage` for headers that cannot be
converted is left out: every AMQP field has a conversion. The order in which
the consumers start is left open.

### ModuleBase and ModuleManager

`mstate[m]` is `state_`, or `Absent` for a plugin that is not loaded. `owed[m]`
is a history: the hooks that undo what the successful hooks of `m` did. Each
operation takes its result `ok` as a parameter, which is the choice of the
hook. The loops are one step per module, with `next` as the loop's index and
`firstOk` as "no module failed so far". Between the iterations of `Init` and
`Start` a hook may load a module (`LoadModule`); in `Stop` and `Fini` that
would invalidate the reverse iterators of `module_order_`, undefined behaviour
that the model excludes. `Direct` is the application calling a module it looked
up. `SetModuleName` happens while an instance is staged and is part of
`StageNext` and `LoadModule`; that an application renames a loaded module is in
`BusModule`.

`LoadModules` begins with a file. A file is the JSON it holds and its
directory; a string is the sequence of its parts between separators, so that a
path is absolute when its first part is empty. `ReadModuleConfig` gives `{}`
for an error and `{specs}` otherwise, and `BeginLoad` can only be taken in the
second case: a call that fails changes nothing. `Libraries` are the plugins
that can be opened, with the type that each one's factory reports; the opening
and the factory are external and may fail at any time (`StageFails`). The loads
keep library and configuration of each instance, which is what
`LoadedAsWritten` compares with the text of the file: it reads the JSON by
itself, without the operators of `ModuleConfig`.

### BusConfig and BusModule

`ParseBusConfig` is one comprehension per record the code fills in, whose
fields range over the results of the readers: it is empty as soon as one of
them fails. `Narrow` is `static_cast<int>` of a 64-bit number. `WellFormed` is
the reference definition, written over the JSON and not over the parsed
records. The key by which `ParseBusConfig` tells bindings apart joins their
names with bars; `InitAgreesWithFile` excepts names that hold one.

`BusModule` follows the framework's thread through the hooks, one action per
critical section or external call (`at`), while the driver threads run the
delivery callback (`ReceiveMessage`, `SubmitTask`) and drain their queues
(`DrainCommands`), workers take and finish tasks, handlers are registered and a thread that calls the service looks the
driver up (`LookupDriver`) and calls it later (`CallDriver`), when the module
may have been stopped and started again. The driver runs from `LaunchDriver`
on, and takes calls and delivers before `StartReturns` records `Started`: in
that window the module still is `Inited` or `Stopped`. A worker whose
completion a driver takes waits for the driver's next drain; if it came after
the last one, it waits for ever (`Stranded`, finding 1), and so does a driver's
thread whose callback had to complete a delivery by itself. `drivers` and `pools` keep every
driver and pool ever made, so that a reference to an old one has a meaning.
`ModuleBase` decides which hook may run, and runs `OnStop` from `Fini`. The
connection, the frames and the settlement are left to `ConnectionDriver` and
`Delivery`. The pool is external: it may refuse to start, takes tasks only
while it runs, and its `Shutdown` waits for all tasks and may still report a
failure. `OnStart`'s branch for a driver that fails to start is left out, for
`Start` fails only when the thread exists. `RegisterConsumerHandler` reads
`state_->config` once before it locks (`Proxy.cpp` 49), which is a data race on
the pointer; both values it may find are non-null, so the model has only the
search under the lock.

### Topology

`exchanges`, `queues` and `bindings` are the driver's copy of the
configuration; `Upsert` is what the three functions of that name do to it once
a declaration is confirmed. `Plan` is the list of requests a rebuild sends, one
after the other, and `step` how many are answered. `requests` and `replies` are
on their way between driver and broker. `ConnectionDriver` only counts the
replies of a rebuild; here the broker remembers what it was told. It is
external: it refuses a declaration that contradicts what exists, a passive one
for what does not exist, a binding without its ends and a consumer without its
queue, and a refusal ends the channel. While the driver has no connection,
volatile exchanges and queues (not durable, auto_delete) may vanish, and
bindings with them. The flags of a specification are reduced to durable or
volatile, and passive or not; a binding has its arguments, but its routing key
is one of the things left out. `confirmed` is a history: what the application
got `Ok` for.

`Foreign` are queues that only other clients create (`OthersDeclare`), and that
may vanish at any time, whether the driver is connected or not. The application
may bind to them and check for them; what it binds to otherwise, the driver
knows (`MayDeclare`). `DependsOnOthers` is what a rebuild then asks for and
cannot create: passive declarations, and bindings to or consumers of a queue of
another client (a consumer, when the file declares such a queue passively).
`FileAssumption` is what `OnInit` has checked when the driver gets the
configuration: names are not given twice, and bindings and consumers refer to
what the same file declares (`UniqueArray` and `Resolves` of `BusConfig`).

### Backoff

`delay` is `reconnect_delay_ms_`, `next` is `next_reconnect_at_`, `now` the
clock. The file's delays are chosen at the start within what `ParseBusConfig`
accepts, and `Narrow` converts them to `int` afterwards, as the code does; so
`initial` and `maximum` may be negative. `Doubled` has the width of `int` and
wraps. `ConnectFails` is `ApplyReconnectBackoff`, `LinkLost` the end of
`HandleDisconnect`, both of which schedule and double; `ConnectSucceeds` resets
the delay, and that is as soon as TCP is connected. So a broker that accepts
the connection and refuses the rebuild is tried again after the initial delay
every time.

### Heartbeat

A round of the loop is `select` and what follows it (`EndSelect`: the handshake
may end, a heartbeat may fall due and go to the buffer), then the next round's
flush (`NextRound`), which sends it. A round lasts at most `MaxRound` units of
the clock, which stands for `socket_timeout_ms` and the time the calls take.
Nothing else is sent, for only an idle client depends on heartbeats. `heard` is
when the broker last got a frame; the handshake is one. The branch of
`MaybeSendHeartbeat` for a buffer that cannot be flushed is left out.

## 3. Runs

| run | instance | shows |
|---|---|---|
| `driver_safety` | 2 clients, 3 calls of any kind, 1 topology step, 1 consumer, 2 faults, reconnecting or not, a socket system that may fail to start | types; each blocked call is in one place (`CallInOnePlace`); `Connected` means rebuilt (`ConnectedIsUsable`); frames in order (`SendOrder`); an ended thread leaves only commands never drained, and shows in the state (`OnlyQueuedCallsStrand`); `Stopped` is final, and after `Error` the driver never connects again (`EndStatesAreFinal`); a frame is lost only with its connection (`OnlyDisconnectLoses`); the driver implements `CommandService` (`ServiceSpec`) |
| `driver_liveness` | 1 client, 2 calls, 1 fault | every call is answered unless the driver is stopped; the connection recovers; `Stop` returns |
| `driver_lost_call` | 2 clients, 1 call, no fault | **violated**: `EveryCallReturns` |
| `delivery_safety` | 2 messages, 2 workers, 1 consumer, 2 connections, no prefetch limit | a delivery has exactly one holder (`OneHolder`); a waiting worker has exactly one command queued (`WaitersAreQueued`); until a reconnect `MessageService` is implemented (`FirstLinkService`) |
| `delivery_one_link` | 1 connection, a manual and an auto_ack consumer, prefetch 1, a pool that may refuse | settled as the handler said (`SettledAsSaid`); prefetch bounds the pool (`PrefetchBoundsPool`) |
| `delivery_liveness` | 1 worker, prefetch 1, 2 connections | every delivery is settled or requeued; `OnStop` returns, except over a stranded completion |
| `delivery_stale_tag` | 2 connections | **violated**: `SettledAsSaid` |
| `module_manager` | 3 names, 2 libraries, one of them with the bus; 42 files: none, one or two entries, and forms that are not in order | registry exact (`RegistryMatchesModules`), clean destruction whatever hooks fail (`DestroyedClean`), atomic loading (`LoadAllOrNothing`) of what the file says (`LoadedAsWritten`), order of start and of teardown (`StartsInOrder`, `FiniInReverse`), `Ok` means all (`OkMeansAll`) |
| `bus_module` | 46 files, 2 inits, 2 starts, 2 deliveries, a caller | `OnInit` accepts the well-formed and nothing else with times the driver can use (`InitAgreesWithFile`); the callback finds the driver it runs on, and a running pool (`CallbackFindsItsDriver`); outside `Started` nothing runs (`QuietOutsideStarted`); a call that comes late is refused, and taken only by the current driver, over a running pool (`LateCallIsRefused`); a call of the framework returns unless a completion was stranded (`ReturnsUnlessStranded`) |
| `topology_rebuild` | a file with one exchange, a volatile queue, its binding and consumer; 3 declarations of the application, 2 lost connections; a queue of another client | a rebuild brings back what was confirmed (`ConfirmedIsPresent`); it is refused only over what it depends on others for (`RebuildNeverRefused`), and otherwise the client comes back (`ComesBack`) |
| `topology_headers` | the same, with two possible arguments of a binding | **violated**: `ConfirmedIsPresent` |
| `timing` | `int` up to 11, configured delays of up to 13, 4 waits in a row, heartbeat off or on, rounds of up to 1 | where the maximum can be doubled, the delay is within bounds (`DelayInBounds`) and no attempt comes early (`NoEarlyAttempt`); an idle client is heard within `heartbeat_seconds` (`BrokerHearsInTime`) |

### Bounds

`MaxCalls` bounds the calls accepted, `MaxFaults` the faults of network and
broker, `MaxLinks` the connections, `MaxTag` the deliveries per channel,
`MaxLosses` the lost connections of `Topology`, whose `MaxCalls` counts
declarations; `MaxInits`, `MaxStarts` and `MaxDeliveries` count in `BusModule`
the lives of the module, its drivers and its deliveries; `MaxTime` ends the
clock of `Backoff`, `MaxWaits` its waits in a row, `MaxConfigured` is its
largest configured delay, and `MaxRound` the longest round of `Heartbeat`. Two clients and three calls give a queue, a batch
and a declaration in flight at once, and a client that calls again after an
answer; two faults give a fault in a rebuild that an earlier fault caused. One
topology step and one consumer distinguish every phase of the rebuild: before,
between and after. Two messages and two tags let an old tag meet another
delivery; two connections are the smallest number with a stale completion.
Three modules distinguish first, middle and last in a loop. Three declarations
make a queue, a binding to it and a change of either, two losses a rebuild of
what a rebuild made. Two inits and two starts are the smallest numbers with something
left over from an earlier life, also a second start in one life; the files of
`MCBusModule` have, in each kind of record, fields that are missing, of another
type or out of bounds, each cross-reference wrong once, duplicates, and the
boundaries of the numbers from both sides. The files of `MCModuleManager` are all batches
of at most two entries, and each entry with each field missing, of another
type, empty or misleading. With `int` up to 11 a configured 12 converts to a
negative delay and a 6 overflows when it is doubled; four waits in a row reach
every maximum that can be doubled from 1. A heartbeat of one second of four units
leaves half of it two rounds, which is the least that `BrokerHearsInTime` asks
for, and that bound is tight: with longer rounds it fails. Most of the driver's and the manager's safety properties do not
rest on these bounds, for they are proved (section 5).

Symmetry is used for clients, messages and workers in runs without liveness; no
property or action distinguishes them.

`CHECK_DEADLOCK FALSE` stands in the runs of the driver and of the delivery: a
driver that has stopped and was called as often as the bound allows has nothing
left to do. The same holds of `Topology` and `Heartbeat` at their bounds.
`module_manager` and `bus_module` are checked for deadlock.

### Fairness

The driver thread always takes its next step (`WF(DriverStep)`): `select` has a
timeout, the mutex is held for single accesses, the loop sleeps for a bounded
time. A caller whose promise is set wakes up, and the joins of `Stop` return
once the thread has ended. `FlushSome`, `ConnectSucceeds`, `HandshakeDone`,
`BootstrapReply` and `DeclareConfirmed` get strong fairness: each is enabled
once per round of the loop, and the assumption is that a socket does accept
bytes, a reconnect comes due and succeeds, and a broker that got a request
replies, after finitely many rounds; the faults that contradict it are counted
by `MaxFaults`. A broker that keeps the socket open and never replies is
outside this assumption: the code sends heartbeats but does not watch for the
peer's (`Bus.cpp` 2083), so nothing would recover then. In `Delivery` the
workers, the stop and the broker's processing of what it was sent are weakly
fair; reading a frame that arrived, reading an error and connecting are
strongly fair for the reason above. That workers are fair assumes that handlers
return. In `Topology` the driver's steps and the broker's replies are weakly
fair: the driver tries again after every disconnect, and each disconnect but a
refusal is counted by `MaxLosses`. In
`BusModule` the framework's thread goes on once it is in a hook, the driver's
thread submits the task, drains its queue in every round and ends when it was
told to, and the workers take tasks and come to the end of the handler, which
again assumes that handlers return. That `CompleteDelivery` returns is not
assumed: it does if the thread drains its queue once more. Nothing
obliges the application to call, to register a handler or to stop, nor the
broker to deliver.

## 4. Findings

1. **A call that never returns** (`driver_lost_call`). `EnqueueCommand` accepts
   a command while `stop_requested_` is false; `ThreadMain` may already have
   done its last drain, and leaves the loop without another. The promise stays
   alive in `commands_`, so the caller waits for ever.
2. **A completion with a stale tag** (`delivery_stale_tag`). The command of
   `CompleteDelivery` finds the channel by the consumer's name. After a
   reconnect that is a new channel whose tags start at 1 again: the completion
   of an old delivery settles another message, whose handler has not returned.
3. **A binding that a reconnect forgets** (`topology_headers`).
   `IsSameBinding` compares exchange, queue and routing key. The broker tells
   bindings apart by their arguments too, and with a headers exchange the
   arguments are all there is. Of two confirmed bindings the driver keeps the
   last; when the broker has lost the queue, the other does not come back,
   while the published state is `Connected`.

Two more consequences have no run of their own, because the passing runs state
them as the exceptions they allow. `StopHangsOnlyOnStranded`
(`delivery_liveness`) and `ReturnsUnlessStranded` (`bus_module`): if the caller
of the first finding is a worker, `OnStop`, having joined the driver thread,
waits in `ThreadPool::Shutdown` for ever, and with it the framework's `Stop` or
`Fini`. `RebuildNeverRefused` and `ComesBack` (`topology_rebuild`): a confirmed
passive declaration replaces the active one of the same name in the driver's
configuration, so that the rebuild checks for a queue it used to create, and a
binding to another client's queue is replayed like one's own; the client stays
away while such a queue is missing (`DependsOnOthers`).

`AnsweredUnlessStopped`, `StopHangsOnlyOnStranded`, `ReturnsUnlessStranded`, `SettledAsSaid` on one
connection and `ConfirmedIsPresent` with one argument show that nothing else
breaks these promises within the bounds of their runs.

## 5. Proofs

The theorems hold for any set of clients, workers, messages or plugins, any
configuration and every value of the numeric constants, under the named
assumptions of the modules, which give the constants their types. Some say
more, and all of these are what the code ensures:

* `ManagerAssumption`: a file that can be read is read as a sequence of entries
  whose names are in `Modules`.
* `HeartbeatAssumption`: a second has at least two units.
* `DeliveryAssumption`: the driver's thread is not a worker of the pool. The
  model only uses the two as names of those who wait for a completion.
* `FileAssumption`: the driver's configuration passed the checks of `OnInit`,
  without which there is no driver (`InitAgrees`).
* `BusModuleAssumption`: there is one bus module.

`PROJECT.json` lists the theorems with the properties they state.

**ConnectionDriverProofs.** `TypeCorrect` first, one step per action. Most
properties are not inductive: that `inflight` is empty when the connection is
not ready, for example, needs to know that nothing clears `ready_` except
`HandleDisconnect`, and where in the loop that may happen. `LinkInv` says it:
what each control point leaves of the connection, the batch and the state.
`LinkCorrect` is `[]LinkInv`, and from it follow `ConnectedImpliesUsable`,
`InflightImpliesReady`, `ExitLeavesOnlyQueue` and `EndStatesStay`.
`CallsAreAccounted` proves `CallInOnePlace` with the lemmas of `SequenceLemmas`
about what a swap, an append and a tail do to the range and injectivity of a
queue. `OnlyDisconnectsLose` and `FramesKeepOrder` are about the frames.
`BufferCases` sorts all steps into three: those that leave sent and buffered
frames as they are (also `FlushSome` and `FlushFails`, which move a part of the
buffer to the wire: `CutKeepsConcat`), the command that appends one frame, and
the loss of the connection with its buffer. For the last, `BufferInv` is needed:
without a connection nothing is buffered, so that a connect has nothing to
clear. `SendOrder` is not inductive either. It says that the sent, the buffered,
the batch's and the queue's tickets are increasing as one sequence; `OrderInv`
adds that all of them are at most the number of accepted calls, so that the
next call's ticket is above them, and `CallInOnePlace` that a call which returns
has no command left whose ticket would be forgotten. `ImplementsService` is the refinement: every step of the driver is a
step of `CommandService` or leaves its variables alone.

**ModuleManagerProofs.** `ManagerInv` is types, `HooksMatchState`,
`RegistryMatchesModules` and what a load in progress has staged; `LoopInv` is
the invariant of the loops: in `Init` and `Start` all modules behind the index
have reached the state, in `Stop` those ahead of it unless a failure was
recorded, in `Fini` all of them. The order theorems and `OkIsForAll` need
`LoopInv`; `DestroysClean` needs that `Fini` has emptied `owed` by the time it
clears the maps. `LoadInv` ties the batch in progress to the file it comes from.
`LoadsAllOrNothing` and `LoadsAsWritten` compare the result with the JSON of
the file, for every set of files: `ReadIsParsed`, `ParsedEntries` and
`ParsedEntry` take the parser apart, down to the fields of one entry, and
`StoreEffect` says what a commit makes of them.

**TimingProofs.** `BackoffInv` is types, the order of the configured delays,
which no step changes, and `DelayInBounds`. `DoubledType` says that doubling
stays an `int`, and is exact where it does not overflow; with it
`ScheduleStays` carries the invariant over the one operation that two actions
share. `NarrowType` is the same of the conversion. `AttemptsWait` proves
`NoEarlyAttempt` with `WaitInv`: the delay always is the length of the wait to
come, and an attempt is due when the wait in force is over; `DoubledWait` says
that doubling a bounded wait and bounding it again is the next wait. The
provers have no law of exponentiation, so the recurrence of the powers of two
(`PowersOfTwo`, a fact of arithmetic, not of the model) is a hypothesis of this
theorem.

That the broker is heard in time says nothing by itself of
the next step. `HeartbeatInv` adds where a round is on the clock (`RoundInv`)
and, in `BeatInv`, how far the last heartbeat lies behind the start of the
round: less than the interval and one round, and less than the interval once
the round has found none due. `HeartbeatsComeInTime` follows with
`IntervalType`: twice the interval is at most the heartbeat. The heartbeats
change nothing of the delay (`HeartbeatsKeepBackoff`, a refinement by the same
variables), so the theorems about `Backoff` carry over.

**DeliveryProofs.** The queues here may hold anything in any number, so the
lemmas of `SequenceLemmas` about `Occurs` and `AtMostOnce` are stated for an
arbitrary set of elements. `BaseInv` is types, what the broker's side of a
connection has to do with the driver's (`LinkInv`, `ClosedInv`), and who waits
for which command (`CallerInv`); `WaitersStayQueued` follows from it.
`DeliveriesHaveOneHolder` needs `PlaceInv`, which speaks of all deliveries and
not only of those the broker still waits for: none has a number not yet given
(`NumberInv`), the number determines it (`KeyInv`), each is held at most once
among frames, tasks, handlers, commands and settlements (`OnceInv`), and while
the connection is good none that is outstanding is out of sight (`KeptInv`).
The one-holder property alone is not inductive: a broken connection suspends
it, and a reconnect could bring it back with two holders.

`SettledAsSaid` and `PrefetchBoundsPool` are false after a reconnect, the first
being finding 2. What the code does promise is proved: `FirstLinkSettlesAsSaid`
and `FirstLinkPrefetchBoundsPool` hold in every behaviour as long as no
reconnect has happened (`epoch <= 1`). `SaidInv` says that no command and no
frame claims what no handler said; together with `KeyInv` the tag then leads to
the message it was said of. For the prefetch count, `HandInv` has everything
that is pending on the client among what the broker has sent and not settled,
which `PrefetchInv` bounds.

`FirstLinkImplementsService` is the refinement of `MessageService`: the first
state and every step up to the first reconnect map to the abstract one. It is
stronger than `SettledAsSaid`, for it also covers what is given back, that no
delivery has two words, and that the settlement waits for the word. `ServiceInv`
adds three things to `PlaceInv`: that a message is in exactly one place of the
broker (`MessageInv`); that nothing is said of a delivery the broker has
forgotten, since `auto_ack` consumers say nothing (`ManualInv`); and that the
broker closes no channel (`FirstLinkInv`), because a delivery the client holds
is one the broker waits for, so that its tag is known. The last is what a
reconnect breaks. A step of the driver that moves a word from the commands to
the frames changes nothing of `words` (`RunKeepsWords`); a `Settle` of the
broker finds one delivery for the frame's tag, whose only word the frame is
(`FirstLinkKnows`, `SettleIsSettle`).

**TopologyProofs.** Neither property is inductive; both stand in one invariant,
`TopologyInv`, since what is refused depends on what exists and the other way
round. `RoundInv` says what is under way in each phase: one request or one
reply of the rebuild, the application's own only when it is over. `EndsInv`: the
plan never asks for a binding or consumer whose ends it does not declare before.
`AgreeInv`: among what exists, what the driver keeps and what was confirmed,
there are never two exchanges or queues of one name that differ, which is the
other reason for a refusal. `RememberInv`: for whatever was confirmed the driver
keeps a specification it takes for the same. `DoneInv`: what has been answered is
there. `ConfirmedStaysPresent` has the hypothesis that arguments do not tell
bindings apart, without which finding 3 refutes it; everything else is proved
for any arguments.

**BusModuleProofs.** `BusInv` says at each control point of the framework's
thread what the module's state and the shared state are (`HookInv`); that only
the current driver can have a thread, from its launch, which is before the
module is `Started`, until it is joined (`Serving`), and that its pool runs as
long as that is so (`AliveInv`); that a delivery callback, which has
copied driver and pool and left the mutex, still holds the current ones, and
so never waits for its own thread (`CallbackInv`); and that tasks are of the current pool (`TaskInv`). That
`OnStop` joins the driver before it shuts the pool down is what makes the last
two inductive. `LateCallsAreRefused` is an action property and needs only
`AliveInv`. Drivers and pools are numbered in the order they are made
(`MadeInOrder`), and the theorems hold for any number of lives.

**BusConfigProofs.** The parser and `WellFormed` say the same of a JSON value in
two ways, and the proofs bring both to a third form, conditions on the fields of
each record (`ConnectionOk`, `BindingOk`, `EntriesOk` and the like).
`RequiredIs`, `OptionalIs` and `FieldsAre` say of each reader when its result
is empty and what it holds otherwise; the lemmas about records and arrays carry
this up to the sections. `ParserIsDeterministic`: the result is a value or an
error. `ParserIsSound`: only well-formed values are accepted.
`ParserIsComplete`: all of them are, where the names in bindings hold no bars
(`Plain`), for the code joins them with bars to find duplicates.
`ParsedTimesAreUsable`: times that fit an `int` come through the conversion in
the order that was checked before it. A reader believes the type that a value
carries, so the theorems speak of the members of a set `J` of JSON values that
is closed under taking parts and whose values are what their types say
(`JsonSet`); every JSON text with its parts is such a set, and `FilesAreJson` in
`MCBusModule` has TLC check this of the files of the run. No induction over JSON
is needed, since the depth the parser looks at is fixed.

`InitAgrees` in `BusModuleProofs` uses them for `InitAgreesWithFile`. `AnswerInv`
is what connects the two: whatever happens after an `OnInit`, its answer, the
configuration that is kept and the result of parsing the file belong together.

**Model-checked only.** The liveness properties (`AnsweredUnlessStopped`,
`Recovers`, `StopCompletes`, `EveryDeliverySettles`, `StopHangsOnlyOnStranded`,
`ComesBack`, `ReturnsUnlessStranded`): liveness under fairness and `ENABLED` are
beyond the prover. Every other property of a passing run is stated by a theorem,
`SettledAsSaid` and `PrefetchBoundsPool` with the hypothesis `epoch <= 1`, which
their run has as its bound, and `ConfirmedIsPresent` and `NoEarlyAttempt` with
the hypotheses named above.

## 6. Plan

All of the plan is done: each component that keeps state has a module, each
safety property of the passing runs a theorem, and the driver and the delivery
path each implement an abstract specification. What could follow:

1. `MessageService` beyond the first reconnect, once `CompleteDelivery` tells
   the tags of two connections apart (finding 2); the refinement then loses its
   hypothesis.
2. A failing `Submit` while the driver's thread is the caller, as soon as the
   code answers it (section 7).

## 7. Limits

Not modelled: the conversions between `ConfigValue` and AMQP fields (a
recursion over values, without state), the plugin factory macros and public
interfaces, and the simulators, tests and the example, which are clients.

Left out of what is modelled: the bytes of frames and partial frames (a partial
`send` takes whole frames here, the rest stays in the buffer), TLS, logging,
the text of JSON, the shortening of paths, and the value of a failed `Result`,
which `ParseBusConfig` reads for `worker_pool` before it tests it (`Bus.cpp`
940): the model refuses the field, as the test that follows does. That the
broker falls silent is never noticed by the code, so no property speaks of it;
nor does the parser compare `socket_timeout_ms` with the heartbeat, which
`BrokerHearsInTime` has as a precondition.
Two threads that stop the driver at once would race on
`thread_`; the framework calls from one thread, and the models have one
stopper. That `ThreadPool::Shutdown` waits for queued tasks, and that `Submit`
fails only when the pool is not running, are assumptions about the foundation
library, which is not in the repository. An exclusive queue that the old
connection still holds when the new one declares it, and exchanges that other
clients create or delete, are left out of `Topology`; so is a broker that loses
the client's own entities while the driver believes the connection is up. A failing `Submit` is followed in
`Delivery` (`PoolMayRefuse`): the driver thread then waits for itself.

----------------------------- MODULE BusModule -----------------------------
(***************************************************************************)
(* RabbitMqBusModule: the hooks of the bus module and the state they share *)
(* with the driver's delivery callback, the pool's tasks and the threads   *)
(* that call the module's service. The framework calls Init, Start, Stop   *)
(* and Fini of ModuleBase from one thread, whose place in a hook is the    *)
(* variable at; the shared state is accessed under its mutex, one action   *)
(* per critical section.                                                   *)
(*                                                                         *)
(* What a driver does with its connection is in ConnectionDriver, what     *)
(* becomes of a delivery in Delivery. Here drivers and pools come and go.  *)
(***************************************************************************)
EXTENDS ModuleBase, BusConfig, FiniteSets

CONSTANTS
  Files,                (* sequence of JSON values the module may be
                           configured with                                  *)
  MaxInits,             (* bound: successful calls of OnInit                *)
  MaxStarts,            (* bound: drivers made                              *)
  MaxDeliveries         (* bound: deliveries                                *)

ASSUME BusModuleAssumption ==
  /\ \E b \in Modules : Modules = {b}
  /\ Files # <<>>
  /\ MaxInits \in Nat /\ MaxStarts \in Nat /\ MaxDeliveries \in Nat

VARIABLES
  file,                 (* which of Files configures the module             *)
  renamed,              (* SetModuleName gave it a name without a config    *)
  answer,               (* history: what OnInit said last                   *)
  at, calling,          (* the framework's thread: where, in which call     *)
  config, handlers, pool, driver,       (* RabbitMqBusSharedState; 0: null  *)
  pools,                (* the thread pool of each successful OnInit        *)
  drivers,              (* the driver of each OnStart                       *)
  callback,             (* callback[d]: what d's delivery callback copied   *)
  tasks,                (* of all pools, queued or running                  *)
  delivered,
  client                (* a thread that calls the service                  *)

shared == <<config, handlers, pool, driver>>
nameVars == <<file, renamed, answer>>
vars == <<moduleVars, nameVars, at, calling, shared, pools, drivers, callback,
          tasks, delivered, client>>

Bus == CHOOSE b \in Modules : TRUE
None == 0
DriverIds == 1 .. MaxStarts
PoolIds == 1 .. MaxInits

Unmade == [at |-> "none", consumers |-> {}]
NoCallback ==
  [handled |-> FALSE, manual |-> FALSE, driver |-> None, pool |-> None, waits |-> FALSE]
IdleClient == [at |-> "idle", driver |-> None]

Alive(d) == drivers[d].at \in {"running", "stopping"}
InCallback(d) == callback[d] # NoCallback
Made == Cardinality({d \in DriverIds : drivers[d] # Unmade})
Inits == Cardinality({p \in PoolIds : pools[p] # "none"})

Callback ==
  [handled : BOOLEAN, manual : BOOLEAN, driver : DriverIds \cup {None},
   pool : PoolIds \cup {None}, waits : BOOLEAN]
Task ==
  [id : 1 .. MaxDeliveries, handled : BOOLEAN, manual : BOOLEAN,
   driver : DriverIds \cup {None}, pool : PoolIds,
   at : {"queued", "running", "waiting"}]

TypeOK ==
  /\ ModuleTypeOK
  /\ file \in DOMAIN Files
  /\ renamed \in BOOLEAN
  /\ answer \in {"none", "ok", "failed"}
  /\ at \in {"idle", "install", "launch", "return", "request", "join", "shutdown", "fini"}
  /\ calling \in {"none", "Start", "Stop", "Fini"}
  /\ at = "idle" <=> calling = "none"
  /\ DOMAIN config = DOMAIN DefaultConfig
  /\ pool \in PoolIds \cup {None}
  /\ driver \in DriverIds \cup {None}
  /\ pools \in [PoolIds -> {"none", "new", "running", "stopped"}]
  /\ \A d \in DriverIds :
       drivers[d].at \in {"none", "new", "running", "stopping", "exited"}
  /\ callback \in [DriverIds -> Callback]
  /\ tasks \subseteq Task
  /\ delivered \in 0 .. MaxDeliveries
  /\ client \in [at : {"idle", "looked", "called"}, driver : DriverIds \cup {None}]

BusInit ==
  /\ mstate = [m \in Modules |-> "Created"]
  /\ ctx = [m \in Modules |-> FALSE]
  /\ owed = [m \in Modules |-> {}]
  /\ file \in DOMAIN Files
  /\ renamed = FALSE
  /\ answer = "none"
  /\ at = "idle" /\ calling = "none"
  /\ config = DefaultConfig /\ handlers = {}
  /\ pool = None /\ driver = None
  /\ pools = [p \in PoolIds |-> "none"]
  /\ drivers = [d \in DriverIds |-> Unmade]
  /\ callback = [d \in DriverIds |-> NoCallback]
  /\ tasks = {}
  /\ delivered = 0
  /\ client = IdleClient

-----------------------------------------------------------------------------
(* The framework's thread.                                                 *)

Free(to) == at = "idle" /\ IsValidTransition(mstate[Bus], to)

(* Before Init the application may give the module another name, under     *)
(* which the manager has no configuration.                                 *)
SetModuleName ==
  /\ at = "idle"
  /\ mstate[Bus] = "Created"
  /\ renamed' = TRUE
  /\ UNCHANGED <<moduleVars, file, answer, at, calling, shared, pools,
                 drivers, callback, tasks, delivered, client>>

Loaded == IF renamed THEN {} ELSE ParseBusConfig(Files[file])

OnInitFails ==
  /\ Loaded = {}
  /\ answer' = "failed"
  /\ Init(Bus, FALSE)
  /\ UNCHANGED <<shared, pools>>

OnInitSucceeds ==
  /\ Inits < MaxInits
  /\ config' \in Loaded
  /\ answer' = "ok"
  /\ handlers' = {}
  /\ pool' = Inits + 1
  /\ driver' = None
  /\ pools' = [pools EXCEPT ![Inits + 1] = "new"]
  /\ Init(Bus, TRUE)

InitModule ==
  /\ Free("Inited")
  /\ OnInitFails \/ OnInitSucceeds
  /\ UNCHANGED <<file, renamed, at, calling, drivers, callback, tasks,
                 delivered, client>>

(* OnStart up to the start of the pool; a pool may refuse to start, for    *)
(* one because it was shut down before.                                    *)
StartPool ==
  /\ Free("Started")
  /\ Made < MaxStarts
  /\ \/ /\ pools' = [pools EXCEPT ![pool] = "running"]
        /\ at' = "install" /\ calling' = "Start"
        /\ UNCHANGED moduleVars
     \/ /\ Start(Bus, FALSE)
        /\ UNCHANGED <<pools, at, calling>>
  /\ UNCHANGED <<nameVars, shared, drivers, callback, tasks, delivered, client>>

(* The consumers as the driver's own copy of the configuration has them.   *)
Subscriptions(specs) ==
  {[name |-> specs[i].name, auto_ack |-> specs[i].auto_ack] : i \in DOMAIN specs}

(* The driver is in the shared state before its thread runs.               *)
InstallDriver ==
  /\ at = "install"
  /\ drivers' = [drivers EXCEPT ![Made + 1] =
                   [at |-> "new", consumers |-> Subscriptions(config.consumers)]]
  /\ driver' = Made + 1
  /\ at' = "launch"
  /\ UNCHANGED <<moduleVars, nameVars, calling, config, handlers, pool, pools,
                 callback, tasks, delivered, client>>

(* Start of a new driver always succeeds. From here on it takes calls and  *)
(* delivers, though the module's state is still the one before Start ...   *)
LaunchDriver ==
  /\ at = "launch"
  /\ drivers' = [drivers EXCEPT ![Made].at = "running"]
  /\ at' = "return"
  /\ UNCHANGED <<moduleVars, nameVars, calling, shared, pools, callback, tasks,
                 delivered, client>>

(* ... until OnStart has returned.                                         *)
StartReturns ==
  /\ at = "return"
  /\ Start(Bus, TRUE)
  /\ at' = "idle" /\ calling' = "none"
  /\ UNCHANGED <<nameVars, shared, pools, drivers, callback, tasks, delivered, client>>

(* Stop, and Fini as far as it has to stop the module first. *)
StopModule ==
  /\ \/ Free("Stopped") /\ calling' = "Stop"
     \/ Free("Fini") /\ calling' = "Fini"
  /\ at' = IF calling' = "Stop" \/ "OnStop" \in FiniHooks(mstate[Bus])
           THEN "request" ELSE "fini"
  /\ UNCHANGED <<moduleVars, nameVars, shared, pools, drivers, callback, tasks,
                 delivered, client>>

(* Mutant of RequestStop: the flag is not set.                              *)
RequestNothing ==
  /\ at = "request"
  /\ at' = "join"
  /\ UNCHANGED <<moduleVars, nameVars, calling, shared, pools, drivers,
                 callback, tasks, delivered, client>>

(* OnStop: the driver's Stop, which sets the flag and joins the thread ... *)
RequestStop ==
  /\ at = "request"
  /\ drivers' = [d \in DriverIds |->
                   IF d = driver /\ drivers[d].at = "running"
                   THEN [drivers[d] EXCEPT !.at = "stopping"] ELSE drivers[d]]
  /\ at' = "join"
  /\ UNCHANGED <<moduleVars, nameVars, calling, shared, pools, callback, tasks,
                 delivered, client>>

(* Mutant of JoinDriver: the pool is shut down without waiting.             *)
JoinNothing ==
  /\ at = "join"
  /\ at' = "shutdown"
  /\ UNCHANGED <<moduleVars, nameVars, calling, shared, pools, drivers,
                 callback, tasks, delivered, client>>

JoinDriver ==
  /\ at = "join"
  /\ driver # None => ~Alive(driver)
  /\ at' = "shutdown"
  /\ UNCHANGED <<moduleVars, nameVars, calling, shared, pools, drivers,
                 callback, tasks, delivered, client>>

TasksOf(p) == {t \in tasks : t.pool = p}

(* Mutant of PoolIsDone: tasks that wait in the queue do not count.         *)
NoneIsRunning(p) == \A t \in TasksOf(p) : t.at = "queued"

PoolIsDone(p) == TasksOf(p) = {}

(* ... and then the pool's Shutdown, which waits for the tasks and may     *)
(* report a failure all the same.                                          *)
ShutdownPool ==
  /\ at = "shutdown"
  /\ PoolIsDone(pool)
  /\ pools' = [pools EXCEPT ![pool] = "stopped"]
  /\ \/ /\ calling = "Stop"
        /\ \E ok \in BOOLEAN : Stop(Bus, ok)
        /\ at' = "idle" /\ calling' = "none"
     \/ /\ calling = "Fini"
        /\ at' = "fini"
        /\ UNCHANGED <<moduleVars, calling>>
  /\ UNCHANGED <<nameVars, shared, drivers, callback, tasks, delivered, client>>

(* Mutant of Cleared: the configuration becomes null.                       *)
ClearedToNull ==
  /\ config' = NoFields
  /\ handlers' = {}
  /\ pool' = None /\ driver' = None

(* OnFini, under the mutex; the last references to driver and pool go.     *)
Cleared ==
  /\ config' = DefaultConfig
  /\ handlers' = {}
  /\ pool' = None /\ driver' = None

FiniModule ==
  /\ at = "fini"
  /\ IF "OnFini" \in FiniHooks(mstate[Bus]) THEN Cleared ELSE UNCHANGED shared
  /\ \E ok \in BOOLEAN : Fini(Bus, ok)
  /\ at' = "idle" /\ calling' = "none"
  /\ UNCHANGED <<nameVars, pools, drivers, callback, tasks, delivered, client>>

(* A call the transition table forbids. *)
CallRefused ==
  /\ at = "idle"
  /\ \E to \in ModuleState : Refused(Bus, to, FALSE)
  /\ UNCHANGED vars

-----------------------------------------------------------------------------
(* The driver's thread: the delivery callback, whose copies are made under *)
(* the mutex and used after it.                                            *)

(* Mutant of CanEnqueue: the driver does not look at the stop request.      *)
WasStarted(d) == drivers[d].at # "new"

CanEnqueue(d) == drivers[d].at = "running"

(* CompleteDelivery waits for the driver's thread to execute the command.  *)
AwaitsCompletion(c) == c.manual /\ c.driver # None /\ CanEnqueue(c.driver)

ReceiveMessage(d) ==
  /\ Alive(d) /\ ~InCallback(d)
  /\ delivered < MaxDeliveries
  /\ delivered' = delivered + 1
  /\ \E k \in drivers[d].consumers :
       callback' = [callback EXCEPT ![d] =
         [handled |-> k.name \in handlers, manual |-> ~k.auto_ack,
          driver |-> driver, pool |-> pool, waits |-> FALSE]]
  /\ UNCHANGED <<moduleVars, nameVars, at, calling, shared, pools, drivers,
                 tasks, client>>

(* A pool that is not running takes no task; the callback gives the        *)
(* delivery back itself, and waits for its own thread to do so.            *)
SubmitTask(d) ==
  LET c == callback[d]
      taken == c.pool # None /\ pools[c.pool] = "running"
      task == [id |-> delivered, handled |-> c.handled, manual |-> c.manual,
               driver |-> c.driver, pool |-> c.pool, at |-> "queued"]
  IN /\ InCallback(d) /\ ~c.waits
     /\ tasks' = IF taken THEN tasks \cup {task} ELSE tasks
     /\ callback' = [callback EXCEPT ![d] =
                       IF ~taken /\ AwaitsCompletion(c)
                       THEN [c EXCEPT !.waits = TRUE] ELSE NoCallback]
     /\ UNCHANGED <<moduleVars, nameVars, at, calling, shared, pools, drivers,
                    delivered, client>>

WaitingTasks(d) == {t \in tasks : t.at = "waiting" /\ t.driver = d}
WaitingCallbacks(d) == {e \in DriverIds : callback[e].waits /\ callback[e].driver = d}

(* The thread executes the completions that are in its queue.              *)
DrainCommands(d) ==
  /\ Alive(d) /\ ~InCallback(d)
  /\ WaitingTasks(d) # {} \/ WaitingCallbacks(d) # {}
  /\ tasks' = tasks \ WaitingTasks(d)
  /\ callback' = [e \in DriverIds |-> IF e \in WaitingCallbacks(d) THEN NoCallback
                                                                  ELSE callback[e]]
  /\ UNCHANGED <<moduleVars, nameVars, at, calling, shared, pools, drivers,
                 delivered, client>>

(* What came into the queue after the last drain is left there.            *)
ThreadEnds(d) ==
  /\ drivers[d].at = "stopping"
  /\ ~InCallback(d)
  /\ drivers' = [drivers EXCEPT ![d].at = "exited"]
  /\ UNCHANGED <<moduleVars, nameVars, at, calling, shared, pools, callback,
                 tasks, delivered, client>>

-----------------------------------------------------------------------------
(* The workers of the pools.                                               *)

TakeTask(t) ==
  /\ t.at = "queued"
  /\ pools[t.pool] = "running"
  /\ tasks' = (tasks \ {t}) \cup {[t EXCEPT !.at = "running"]}
  /\ UNCHANGED <<moduleVars, nameVars, at, calling, shared, pools, drivers,
                 callback, delivered, client>>

(* The handler has returned, and CompleteDelivery is called; a driver that *)
(* was told to stop refuses it, and the task ends.                         *)
FinishTask(t) ==
  /\ t.at = "running"
  /\ tasks' = IF AwaitsCompletion(t)
              THEN (tasks \ {t}) \cup {[t EXCEPT !.at = "waiting"]}
              ELSE tasks \ {t}
  /\ UNCHANGED <<moduleVars, nameVars, at, calling, shared, pools, drivers,
                 callback, delivered, client>>

-----------------------------------------------------------------------------
(* The service: MessageBusServiceProxy.                                    *)

RegisterConsumerHandler(k) ==
  /\ k \in Names(config.consumers)
  /\ handlers' = handlers \cup {k}
  /\ UNCHANGED <<moduleVars, nameVars, at, calling, config, pool, driver,
                 pools, drivers, callback, tasks, delivered, client>>

UnregisterConsumerHandler(k) ==
  /\ k \in handlers
  /\ handlers' = handlers \ {k}
  /\ UNCHANGED <<moduleVars, nameVars, at, calling, config, pool, driver,
                 pools, drivers, callback, tasks, delivered, client>>

(* Publish and the declarations take a reference under the mutex ...       *)
LookupDriver ==
  /\ client.at = "idle"
  /\ driver # None
  /\ client' = [at |-> "looked", driver |-> driver]
  /\ UNCHANGED <<moduleVars, nameVars, at, calling, shared, pools, drivers,
                 callback, tasks, delivered>>

(* ... and call the driver after it, which may have been stopped since.    *)
CallDriver ==
  /\ client.at = "looked"
  /\ client' = IF CanEnqueue(client.driver)
               THEN [client EXCEPT !.at = "called"] ELSE IdleClient
  /\ UNCHANGED <<moduleVars, nameVars, at, calling, shared, pools, drivers,
                 callback, tasks, delivered>>

(* When a call returns, and whether it does, is in ConnectionDriver.       *)
CallReturns ==
  /\ client.at = "called"
  /\ client' = IdleClient
  /\ UNCHANGED <<moduleVars, nameVars, at, calling, shared, pools, drivers,
                 callback, tasks, delivered>>

-----------------------------------------------------------------------------
Next ==
  \/ SetModuleName \/ InitModule
  \/ StartPool \/ InstallDriver \/ LaunchDriver \/ StartReturns
  \/ StopModule \/ RequestStop \/ JoinDriver \/ ShutdownPool \/ FiniModule
  \/ CallRefused
  \/ \E d \in DriverIds :
       ReceiveMessage(d) \/ SubmitTask(d) \/ DrainCommands(d) \/ ThreadEnds(d)
  \/ \E t \in tasks : TakeTask(t) \/ FinishTask(t)
  \/ \E k \in Names(config.consumers) :
       RegisterConsumerHandler(k) \/ UnregisterConsumerHandler(k)
  \/ LookupDriver \/ CallDriver \/ CallReturns

BusSpec == BusInit /\ [][Next]_vars

(* The framework's thread goes on once it is in a call, the driver's       *)
(* thread drains its queue in every round and ends when told to, and       *)
(* handlers return. That CompleteDelivery returns is not assumed: it does  *)
(* if the thread still drains its queue.                                   *)
Progress ==
  /\ WF_vars(\/ InstallDriver \/ LaunchDriver \/ StartReturns
             \/ RequestStop \/ JoinDriver \/ ShutdownPool \/ FiniModule)
  /\ \A d \in DriverIds :
       WF_vars(SubmitTask(d)) /\ WF_vars(DrainCommands(d)) /\ WF_vars(ThreadEnds(d))
  /\ WF_vars(\E t \in tasks : TakeTask(t) \/ FinishTask(t))

FairSpec == BusSpec /\ Progress
-----------------------------------------------------------------------------
(* Where the configured times fit an int, the driver gets times it can     *)
(* work with; static_cast<int> of larger ones can make them negative.      *)
TimesAreUsable ==
  (\A n \in TimesOf(Files[file]) : n <= IntMax) =>
    /\ config.settings.socket_timeout_ms >= 10
    /\ config.settings.initial_delay_ms >= 0
    /\ config.settings.initial_delay_ms <= config.settings.max_delay_ms

(* OnInit accepts exactly the well-formed JSON, as long as the module has  *)
(* the name it was loaded with: nothing it needs is left to fail later.    *)
InitAgreesWithFile ==
  /\ answer = "ok" => WellFormed(Files[file]) /\ ~renamed /\ TimesAreUsable
  /\ answer = "failed" =>
       \/ renamed
       \/ ~WellFormed(Files[file])
       \/ ~Plain(Files[file])

(* The callback runs on the thread of the driver it completes with, and    *)
(* its pool takes the task: if it did not, the callback would complete the *)
(* delivery on the thread that has to execute the completion.              *)
CallbackFindsItsDriver ==
  \A d \in DriverIds :
    InCallback(d) => /\ callback[d].driver = d
                     /\ callback[d].pool # None
                     /\ pools[callback[d].pool] = "running"

(* Outside Started, and when OnFini takes the mutex to destroy driver and  *)
(* pool, no thread and no task of the module is left that could need it.   *)
QuietOutsideStarted ==
  (at = "idle" /\ mstate[Bus] # "Started") \/ at = "fini" =>
    /\ \A d \in DriverIds : ~Alive(d)
    /\ tasks = {}

(* A call is taken only by the driver the module has at that moment, whose *)
(* pool is running, even when the caller looked the driver up before a     *)
(* stop and a restart. The module itself may not be Started yet.           *)
LateCallIsRefused ==
  [][client.at = "looked" /\ client'.at = "called" =>
       client.driver = driver /\ pools[pool] = "running"]_vars

Stranded(t) == t.at = "waiting" /\ ~Alive(t.driver)

(* A call of the framework returns, unless a worker's completion came into *)
(* the driver's queue after the last drain: the worker then waits for      *)
(* ever, and the pool's Shutdown for the worker.                           *)
ReturnsUnlessStranded ==
  at # "idle" ~> at = "idle" \/ (at = "shutdown" /\ \E t \in tasks : Stranded(t))
=============================================================================

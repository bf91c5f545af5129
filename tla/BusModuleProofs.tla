-------------------------- MODULE BusModuleProofs --------------------------
(***************************************************************************)
(* Theorems about BusModule, for every choice of configuration files and   *)
(* every number of starts, stops and deliveries.                           *)
(***************************************************************************)
EXTENDS BusModule, BusConfigProofs, FiniteSetTheorems, TLAPS

(* An element of drivers: a driver that was made, or none.                 *)
IsDriver(r) ==
  /\ r = [at |-> r.at, consumers |-> r.consumers]
  /\ r.at \in {"none", "new", "running", "stopping", "exited"}
  /\ r.at = "none" <=> r = Unmade

(* Drivers and pools are made one after the other.                         *)
MadeInOrder ==
  /\ DOMAIN drivers = DriverIds
  /\ \A d \in DriverIds : IsDriver(drivers[d])
  /\ Made \in 0 .. MaxStarts
  /\ {d \in DriverIds : drivers[d] # Unmade} = 1 .. Made
  /\ Inits \in 0 .. MaxInits
  /\ {p \in PoolIds : pools[p] # "none"} = 1 .. Inits

InUse == {"Inited", "Started", "Stopped"}

(* Where the framework's thread is in a hook, as the module's state and    *)
(* the shared state have it.                                               *)
HookInv ==
  /\ mstate[Bus] \in InUse => pool \in PoolIds /\ pools[pool] # "none"
  /\ at \in {"install", "launch", "return"} =>
       mstate[Bus] \in {"Inited", "Stopped"} /\ pools[pool] = "running"
  /\ at = "install" => Made < MaxStarts
  /\ at = "launch" => driver = Made /\ driver \in DriverIds
  /\ at \in {"request", "join", "shutdown"} =>
       mstate[Bus] = "Started" /\ calling \in {"Stop", "Fini"}

(* The time a driver can have a thread: from its launch, before the module *)
(* is Started, until OnStop has joined it.                                 *)
Serving ==
  \/ mstate[Bus] = "Started" /\ at \in {"idle", "request", "join"}
  \/ mstate[Bus] \in {"Inited", "Stopped"} /\ at = "return"

(* Only the current driver can have a thread, and its pool runs as long as *)
(* it has one.                                                             *)
AliveInv ==
  \A d \in DriverIds : Alive(d) =>
    d = driver /\ Serving /\ pools[pool] = "running"

(* The delivery callback holds what the shared state still says, and so    *)
(* never waits for a completion itself.                                    *)
CallbackInv ==
  \A d \in DriverIds : InCallback(d) =>
    /\ Alive(d)
    /\ callback[d].driver = d /\ callback[d].pool = pool
    /\ delivered # 0
    /\ ~callback[d].waits

(* Tasks are the current pool's, which is not shut down under them.        *)
TaskInv ==
  \A t \in tasks :
    /\ t.pool = pool
    /\ Serving \/ (mstate[Bus] = "Started" /\ at = "shutdown")
    /\ pools[pool] = "running"

BusInv ==
  /\ TypeOK /\ MadeInOrder /\ HookInv
  /\ AliveInv /\ CallbackInv /\ TaskInv
  /\ client.at = "looked" => client.driver \in DriverIds

-----------------------------------------------------------------------------
(* Facts about the module's name, its operations and the parser.           *)

LEMMA TheBus == Bus \in Modules /\ Modules = {Bus}
<1>1. PICK b \in Modules : Modules = {b}
  BY BusModuleAssumption
<1> QED
  BY <1>1 DEF Bus

LEMMA Bounds == MaxInits \in Nat /\ MaxStarts \in Nat /\ MaxDeliveries \in Nat
BY BusModuleAssumption

(* An operation succeeds by moving the state; a failing Fini moves it too. *)
LEMMA BusOperations ==
  ASSUME ModuleTypeOK, NEW ok \in BOOLEAN
  PROVE  /\ Init(Bus, ok) \/ Start(Bus, ok) \/ Stop(Bus, ok) \/ Fini(Bus, ok)
              => ModuleTypeOK'
         /\ Init(Bus, ok) =>
              mstate'[Bus] = IF ok THEN "Inited" ELSE mstate[Bus]
         /\ Start(Bus, ok) =>
              mstate'[Bus] = IF ok THEN "Started" ELSE mstate[Bus]
         /\ Stop(Bus, ok) =>
              mstate'[Bus] = IF ok THEN "Stopped" ELSE mstate[Bus]
         /\ Fini(Bus, ok) =>
              mstate'[Bus] = IF mstate[Bus] \in InUse THEN "Fini" ELSE mstate'[Bus]
         /\ Fini(Bus, ok) => mstate'[Bus] \in {"Fini", mstate[Bus]}
<1> USE TheBus DEF ModuleTypeOK, ModuleState, Absent, moduleVars
<1>1. Init(Bus, ok) => /\ ModuleTypeOK'
                       /\ mstate'[Bus] = IF ok THEN "Inited" ELSE mstate[Bus]
  BY DEF Init, Refused
<1>2. Start(Bus, ok) => /\ ModuleTypeOK'
                        /\ mstate'[Bus] = IF ok THEN "Started" ELSE mstate[Bus]
  BY DEF Start, Refused
<1>3. Stop(Bus, ok) => /\ ModuleTypeOK'
                       /\ mstate'[Bus] = IF ok THEN "Stopped" ELSE mstate[Bus]
  BY DEF Stop, Refused
<1>4. Fini(Bus, ok) => /\ ModuleTypeOK'
                       /\ mstate[Bus] \in InUse => mstate'[Bus] = "Fini"
                       /\ mstate'[Bus] \in {"Fini", mstate[Bus]}
  BY DEF Fini, Refused, InUse, IsValidTransition, ValidTransitions
<1> QED
  BY <1>1, <1>2, <1>3, <1>4

(* What a configuration has, is what the default has.                      *)
LEMMA ParsedFields ==
  \A c \in Loaded : DOMAIN c = DOMAIN DefaultConfig
<1>1. \A s, e, q, b, p, k :
        DOMAIN [settings |-> s, exchanges |-> e, queues |-> q, bindings |-> b,
                publishers |-> p, consumers |-> k] = DOMAIN DefaultConfig
  BY DEF DefaultConfig
<1>2. ASSUME NEW c \in Loaded
      PROVE  \E s, e, q, b, p, k :
               c = [settings |-> s, exchanges |-> e, queues |-> q, bindings |-> b,
                    publishers |-> p, consumers |-> k]
  <2>1. c \in ParseBusConfig(Files[file])
    BY DEF Loaded
  <2> DEFINE x == Files[file]
  <2>2. c \in {[settings |-> s, exchanges |-> e, queues |-> q, bindings |-> b,
                publishers |-> p, consumers |-> k] :
                 s \in ParseSettings(x), e \in ParseExchanges(x),
                 q \in ParseQueues(x), b \in ParseBindings(x),
                 p \in ParsePublishers(x), k \in ParseConsumers(x)}
    BY <2>1 DEF ParseBusConfig
  <2> QED
    BY <2>2
<1> QED
  BY <1>1, <1>2

(* Drivers and pools stay made.                                            *)
LEMMA KeepsMade ==
  ASSUME MadeInOrder, DOMAIN drivers' = DriverIds,
         \A d \in DriverIds : IsDriver(drivers'[d]),
         \A d \in DriverIds : drivers'[d].at = "none" <=> drivers[d].at = "none",
         \A p \in PoolIds : pools'[p] = "none" <=> pools[p] = "none"
  PROVE  MadeInOrder' /\ Made' = Made /\ Inits' = Inits
<1>1. {d \in DriverIds : drivers'[d] # Unmade} = {d \in DriverIds : drivers[d] # Unmade}
  BY DEF MadeInOrder, IsDriver
<1>2. {p \in PoolIds : pools'[p] # "none"} = {p \in PoolIds : pools[p] # "none"}
  OBVIOUS
<1>3. Made' = Made /\ Inits' = Inits
  BY <1>1, <1>2 DEF Made, Inits
<1> QED
  BY <1>1, <1>2, <1>3 DEF MadeInOrder

(* The next driver, and the next pool.                                     *)
LEMMA CountsUp ==
  ASSUME NEW n \in Nat
  PROVE  Cardinality(1 .. n) = n /\ (1 .. n) \cup {n + 1} = 1 .. n + 1
<1>1. Cardinality(1 .. n) = n
  BY FS_Interval
<1> QED
  BY <1>1

LEMMA InitBusInv == BusInit => BusInv
<1> SUFFICES ASSUME BusInit PROVE BusInv
  OBVIOUS
<1> USE Bounds DEF BusInit
<1>1. TypeOK
  <2>1. ModuleTypeOK
    BY TheBus DEF ModuleTypeOK, ModuleState
  <2>2. callback \in [DriverIds -> Callback]
    BY DEF NoCallback, Callback
  <2>3. client \in [at : {"idle", "looked", "called"}, driver : DriverIds \cup {None}]
    BY DEF IdleClient
  <2>4. \A d \in DriverIds : drivers[d].at = "none"
    BY DEF Unmade
  <2>5. pools \in [PoolIds -> {"none", "new", "running", "stopped"}]
    OBVIOUS
  <2>6. /\ at = "idle" /\ calling = "none" /\ answer = "none" /\ renamed = FALSE
        /\ file \in DOMAIN Files /\ tasks = {} /\ delivered \in 0 .. MaxDeliveries
        /\ config = DefaultConfig /\ pool = None /\ driver = None
    OBVIOUS
  <2> HIDE DEF BusInit
  <2> QED
    BY <2>1, <2>2, <2>3, <2>4, <2>5, <2>6 DEF TypeOK
<1>2. \A d \in DriverIds : IsDriver(drivers[d])
  BY DEF IsDriver, Unmade
<1>3. Cardinality({}) = 0 /\ 1 .. 0 = {}
  BY FS_EmptySet
<1>4. MadeInOrder
  <2>1. {d \in DriverIds : drivers[d] # Unmade} = {}
    BY DEF DriverIds
  <2>2. {p \in PoolIds : pools[p] # "none"} = {}
    BY DEF PoolIds
  <2>3. Made = 0 /\ Inits = 0
    BY <1>3, <2>1, <2>2 DEF Made, Inits
  <2> QED
    BY <1>2, <1>3, <2>1, <2>2, <2>3 DEF MadeInOrder
<1> QED
  BY <1>1, <1>4, TheBus
     DEF BusInv, HookInv, AliveInv, CallbackInv, TaskInv, InUse, Alive, Unmade,
         InCallback, IdleClient

-----------------------------------------------------------------------------
(* The steps. Each lemma is about the steps of one thread.                 *)

(* A step that leaves the life of drivers and pools alone.                 *)
LEMMA AsideKeepsInv ==
  ASSUME BusInv,
         UNCHANGED <<moduleVars, file, answer, at, calling, config, pool, driver,
                     pools, drivers, callback, tasks, delivered>>,
         renamed' \in BOOLEAN,
         client' \in [at : {"idle", "looked", "called"}, driver : DriverIds \cup {None}],
         client'.at = "looked" => client'.driver \in DriverIds
  PROVE  BusInv'
<1> USE DEF moduleVars
<1>1. TypeOK'
  BY DEF BusInv, TypeOK, ModuleTypeOK
<1>2. MadeInOrder'
  BY DEF BusInv, MadeInOrder, Made, Inits
<1>3. HookInv' /\ AliveInv' /\ CallbackInv' /\ TaskInv'
  BY DEF BusInv, HookInv, AliveInv, CallbackInv, TaskInv, Serving, Made, Alive, InCallback
<1> QED
  BY <1>1, <1>2, <1>3 DEF BusInv

LEMMA ServiceKeepsInv ==
  ASSUME BusInv,
         \/ SetModuleName \/ CallRefused \/ LookupDriver \/ CallDriver \/ CallReturns
         \/ \E k \in Names(config.consumers) :
              RegisterConsumerHandler(k) \/ UnregisterConsumerHandler(k)
         \/ UNCHANGED vars
  PROVE  BusInv'
<1>0. /\ client \in [at : {"idle", "looked", "called"}, driver : DriverIds \cup {None}]
      /\ renamed \in BOOLEAN /\ driver \in DriverIds \cup {None}
      /\ client.at = "looked" => client.driver \in DriverIds
  BY DEF BusInv, TypeOK
<1> USE DEF vars, nameVars, shared
<1>1. CASE SetModuleName
  BY <1>0, <1>1, AsideKeepsInv DEF SetModuleName
<1>2. CASE CallRefused
  BY <1>0, <1>2, AsideKeepsInv DEF CallRefused
<1>3. CASE LookupDriver
  BY <1>0, <1>3, AsideKeepsInv DEF LookupDriver
<1>4. CASE CallDriver
  BY <1>0, <1>4, AsideKeepsInv DEF CallDriver, IdleClient
<1>5. CASE CallReturns
  BY <1>0, <1>5, AsideKeepsInv DEF CallReturns, IdleClient
<1>6. CASE \E k \in Names(config.consumers) :
             RegisterConsumerHandler(k) \/ UnregisterConsumerHandler(k)
  BY <1>0, <1>6, AsideKeepsInv
     DEF RegisterConsumerHandler, UnregisterConsumerHandler
<1>7. CASE UNCHANGED vars
  BY <1>0, <1>7, AsideKeepsInv
<1> QED
  BY <1>1, <1>2, <1>3, <1>4, <1>5, <1>6, <1>7

(* The driver's thread and the workers.                                    *)
LEMMA ReceiveKeepsInv ==
  ASSUME BusInv, NEW d \in DriverIds, ReceiveMessage(d)
  PROVE  BusInv'
<1>0. /\ TypeOK /\ MadeInOrder /\ HookInv /\ AliveInv /\ CallbackInv /\ TaskInv
      /\ Alive(d) /\ ~InCallback(d) /\ delivered < MaxDeliveries
      /\ delivered' = delivered + 1
      /\ UNCHANGED <<moduleVars, nameVars, at, calling, shared, pools, drivers,
                     tasks, client>>
  BY DEF BusInv, ReceiveMessage
<1> USE DEF moduleVars, nameVars, shared
<1>2. /\ driver = d /\ pool \in PoolIds /\ delivered \in Nat
      /\ delivered' \in 0 .. MaxDeliveries /\ delivered' # 0
  BY <1>0, Bounds DEF AliveInv, Serving, HookInv, InUse, TypeOK
<1>1. PICK c : /\ c \in Callback
               /\ c.driver = driver /\ c.pool = pool /\ ~c.waits
               /\ callback' = [callback EXCEPT ![d] = c]
  <2>1. PICK k : callback' = [callback EXCEPT ![d] =
                   [handled |-> k.name \in handlers, manual |-> ~k.auto_ack,
                    driver |-> driver, pool |-> pool, waits |-> FALSE]]
    BY DEF ReceiveMessage
  <2> DEFINE c == [handled |-> k.name \in handlers, manual |-> ~k.auto_ack,
                   driver |-> driver, pool |-> pool, waits |-> FALSE]
  <2>2. c \in Callback
    <3>1. (k.name \in handlers) \in BOOLEAN /\ (~k.auto_ack) \in BOOLEAN
      OBVIOUS
    <3> QED
      BY <1>2, <3>1 DEF Callback
  <2>3. /\ c.driver = driver /\ c.pool = pool /\ ~c.waits
        /\ callback' = [callback EXCEPT ![d] = c]
    BY <2>1
  <2> HIDE DEF c
  <2> QED
    BY <2>2, <2>3
<1>3. callback' \in [DriverIds -> Callback]
  BY <1>0, <1>1, <1>2 DEF TypeOK
<1>4. TypeOK'
  BY <1>0, <1>2, <1>3 DEF TypeOK, ModuleTypeOK
<1>5. MadeInOrder' /\ HookInv' /\ AliveInv' /\ TaskInv'
  BY <1>0 DEF MadeInOrder, Made, Inits, HookInv, AliveInv, Alive, TaskInv, Serving
<1>6. CallbackInv'
  <2>1. /\ callback'[d].driver = d /\ callback'[d].pool = pool
        /\ ~callback'[d].waits
        /\ \A e \in DriverIds \ {d} : callback'[e] = callback[e]
    BY <1>0, <1>1, <1>2 DEF TypeOK
  <2> QED
    BY <1>0, <1>2, <2>1 DEF CallbackInv, InCallback, Alive
<1> QED
  BY <1>0, <1>4, <1>5, <1>6 DEF BusInv

LEMMA SubmitKeepsInv ==
  ASSUME BusInv, NEW d \in DriverIds, SubmitTask(d)
  PROVE  BusInv'
<1> DEFINE c == callback[d]
           task == [id |-> delivered, handled |-> c.handled, manual |-> c.manual,
                    driver |-> c.driver, pool |-> c.pool, at |-> "queued"]
<1>0. /\ TypeOK /\ MadeInOrder /\ HookInv /\ AliveInv /\ CallbackInv /\ TaskInv
      /\ InCallback(d)
      /\ UNCHANGED <<moduleVars, nameVars, at, calling, shared, pools, drivers,
                     delivered, client>>
  BY DEF BusInv, SubmitTask
<1> USE DEF moduleVars, nameVars, shared
<1>2. /\ Alive(d) /\ c.driver = d /\ c.pool = pool
      /\ delivered \in 1 .. MaxDeliveries
      /\ Serving /\ pools[pool] = "running" /\ pool \in PoolIds
  BY <1>0, Bounds DEF CallbackInv, AliveInv, Serving, HookInv, InUse, TypeOK
<1>1. tasks' = tasks \cup {task} /\ callback' = [callback EXCEPT ![d] = NoCallback]
  <2>1. c.pool # None /\ pools[c.pool] = "running"
    BY <1>2 DEF PoolIds, None
  <2> QED
    BY <2>1 DEF SubmitTask
<1>3. callback' \in [DriverIds -> Callback] /\ c \in Callback
  <2>1. NoCallback \in Callback
    BY DEF NoCallback, Callback
  <2> QED
    BY <1>0, <1>1, <2>1 DEF TypeOK
<1>4. task \in Task /\ task.pool = pool
  BY <1>2, <1>3 DEF Callback, Task
<1> HIDE DEF task, c
<1>5. TypeOK'
  BY <1>0, <1>1, <1>3, <1>4 DEF TypeOK, ModuleTypeOK
<1>6. MadeInOrder' /\ HookInv' /\ AliveInv'
  BY <1>0 DEF MadeInOrder, Made, Inits, HookInv, AliveInv, Alive, Serving
<1>7. CallbackInv'
  BY <1>0, <1>1 DEF CallbackInv, InCallback, Alive, TypeOK
<1>8. TaskInv'
  BY <1>0, <1>1, <1>2, <1>4 DEF TaskInv, Serving
<1> QED
  BY <1>0, <1>5, <1>6, <1>7, <1>8 DEF BusInv

(* Only tasks ever wait for the driver's thread.                           *)
LEMMA DrainKeepsInv ==
  ASSUME BusInv, NEW d \in DriverIds, DrainCommands(d)
  PROVE  BusInv'
<1>0. /\ TypeOK /\ MadeInOrder /\ HookInv /\ AliveInv /\ CallbackInv /\ TaskInv
      /\ tasks' \subseteq tasks
      /\ UNCHANGED <<moduleVars, nameVars, at, calling, shared, pools, drivers,
                     delivered, client>>
  BY DEF BusInv, DrainCommands
<1> USE DEF moduleVars, nameVars, shared
<1>1. callback' = callback
  <2>1. WaitingCallbacks(d) = {}
    BY <1>0 DEF WaitingCallbacks, CallbackInv, InCallback, NoCallback
  <2>2. callback = [e \in DriverIds |-> callback[e]]
    BY <1>0 DEF TypeOK
  <2> QED
    BY <2>1, <2>2 DEF DrainCommands
<1>2. TypeOK'
  BY <1>0, <1>1 DEF TypeOK, ModuleTypeOK
<1>3. MadeInOrder' /\ HookInv' /\ AliveInv' /\ CallbackInv' /\ TaskInv'
  BY <1>0, <1>1
     DEF MadeInOrder, Made, Inits, HookInv, AliveInv, CallbackInv, TaskInv, Serving,
         Alive, InCallback
<1> QED
  BY <1>0, <1>2, <1>3 DEF BusInv

LEMMA ThreadEndsKeepsInv ==
  ASSUME BusInv, NEW d \in DriverIds, ThreadEnds(d)
  PROVE  BusInv'
<1>0. /\ TypeOK /\ MadeInOrder /\ HookInv /\ AliveInv /\ CallbackInv /\ TaskInv
      /\ drivers[d].at = "stopping" /\ ~InCallback(d)
      /\ drivers' = [drivers EXCEPT ![d].at = "exited"]
      /\ UNCHANGED <<moduleVars, nameVars, at, calling, shared, pools, callback,
                     tasks, delivered, client>>
  BY DEF BusInv, ThreadEnds
<1> USE DEF moduleVars, nameVars, shared
<1>1. /\ DOMAIN drivers' = DriverIds
      /\ drivers'[d] = [at |-> "exited", consumers |-> drivers[d].consumers]
      /\ \A e \in DriverIds \ {d} : drivers'[e] = drivers[e]
  BY <1>0 DEF MadeInOrder, IsDriver
<1>2. \A e \in DriverIds : IsDriver(drivers'[e])
  BY <1>0, <1>1 DEF MadeInOrder, IsDriver, Unmade
<1>3. MadeInOrder' /\ Made' = Made
  BY <1>0, <1>1, <1>2, KeepsMade
<1>4. TypeOK'
  BY <1>0, <1>2 DEF TypeOK, ModuleTypeOK, IsDriver
<1>5. HookInv' /\ AliveInv' /\ TaskInv' /\ CallbackInv'
  BY <1>0, <1>1, <1>3
     DEF HookInv, AliveInv, CallbackInv, TaskInv, Serving, Alive, InCallback
<1> QED
  BY <1>0, <1>3, <1>4, <1>5 DEF BusInv

LEMMA WorkersKeepInv ==
  ASSUME BusInv, NEW t \in tasks, TakeTask(t) \/ FinishTask(t)
  PROVE  BusInv'
<1>0. /\ TypeOK /\ MadeInOrder /\ HookInv /\ AliveInv /\ CallbackInv /\ TaskInv
      /\ UNCHANGED <<moduleVars, nameVars, at, calling, shared, pools, drivers,
                     callback, delivered, client>>
  BY DEF BusInv, TakeTask, FinishTask
<1> USE DEF moduleVars, nameVars, shared
<1>1. PICK a \in {"running", "waiting"} : tasks' \subseteq tasks \cup {[t EXCEPT !.at = a]}
  BY DEF TakeTask, FinishTask
<1>2. [t EXCEPT !.at = a] \in Task /\ [t EXCEPT !.at = a].pool = t.pool
  BY <1>0 DEF TypeOK, Task
<1>3. TypeOK'
  BY <1>0, <1>1, <1>2 DEF TypeOK, ModuleTypeOK
<1>4. MadeInOrder' /\ Made' = Made
  BY <1>0 DEF MadeInOrder, Made, Inits
<1>6. HookInv' /\ AliveInv' /\ CallbackInv'
  BY <1>0, <1>4 DEF HookInv, AliveInv, CallbackInv, Serving, Alive, InCallback
<1>5. TaskInv'
  BY <1>0, <1>1, <1>2 DEF TaskInv, Serving
<1> QED
  BY <1>0, <1>3, <1>4, <1>5, <1>6 DEF BusInv

(* The framework's thread, hook by hook.                                   *)

(* Nothing of the module runs where no hook can be in the middle of a stop *)
(* and the module is not started, or the stop is past the pool.            *)
LEMMA NothingRuns ==
  ASSUME BusInv,
         \/ mstate[Bus] # "Started" /\ at # "return"
         \/ at \in {"install", "launch", "fini"}
  PROVE  /\ \A d \in DriverIds : ~Alive(d) /\ ~InCallback(d)
         /\ tasks = {}
BY DEF BusInv, AliveInv, CallbackInv, TaskInv, Serving

(* A free framework thread calls an operation the state allows.            *)
LEMMA FreeStates ==
  ASSUME BusInv
  PROVE  /\ Free("Inited") => mstate[Bus] \in {"Created", "Fini"}
         /\ Free("Started") => mstate[Bus] \in {"Inited", "Stopped"}
         /\ Free("Stopped") => mstate[Bus] = "Started"
         /\ Free("Fini") => mstate[Bus] \in {"Created", "Inited", "Started", "Stopped"}
BY DEF Free, IsValidTransition, ValidTransitions

(* What is left of the invariant where nothing of the module runs.         *)
LEMMA QuietInv ==
  ASSUME TypeOK', MadeInOrder', HookInv',
         tasks' = {},
         \A d \in DriverIds : ~Alive(d)' /\ ~InCallback(d)',
         client'.at = "looked" => client'.driver \in DriverIds
  PROVE  BusInv'
BY DEF BusInv, AliveInv, CallbackInv, TaskInv

LEMMA InitKeepsInv ==
  ASSUME BusInv, InitModule
  PROVE  BusInv'
<1>0. /\ TypeOK /\ MadeInOrder /\ HookInv
      /\ at = "idle" /\ mstate[Bus] \in {"Created", "Fini"}
      /\ UNCHANGED <<file, renamed, at, calling, drivers, callback, tasks,
                     delivered, client>>
      /\ client.at = "looked" => client.driver \in DriverIds
  BY FreeStates DEF BusInv, InitModule, Free
<1>1. (\A d \in DriverIds : ~Alive(d) /\ ~InCallback(d)) /\ tasks = {}
  BY <1>0, NothingRuns
<1>2. (\A d \in DriverIds : ~Alive(d)' /\ ~InCallback(d)') /\ tasks' = {}
  BY <1>0, <1>1 DEF Alive, InCallback
<1> USE DEF shared
<1>3. CASE OnInitFails
  <2>1. ModuleTypeOK' /\ mstate'[Bus] = mstate[Bus]
    BY <1>0, <1>3, BusOperations DEF OnInitFails, TypeOK
  <2>2. TypeOK'
    BY <1>0, <1>3, <2>1 DEF OnInitFails, TypeOK
  <2>3. MadeInOrder' /\ HookInv'
    BY <1>0, <1>3, <2>1 DEF OnInitFails, MadeInOrder, Made, Inits, HookInv, InUse
  <2> QED
    BY <1>0, <1>2, <2>2, <2>3, QuietInv
<1>4. CASE OnInitSucceeds
  <2>1. ModuleTypeOK' /\ mstate'[Bus] = "Inited"
    BY <1>0, <1>4, BusOperations DEF OnInitSucceeds, TypeOK
  <2>2. /\ Inits < MaxInits /\ Inits \in Nat /\ Inits + 1 \in PoolIds
        /\ pool' = Inits + 1 /\ driver' = None /\ answer' = "ok"
        /\ pools' = [pools EXCEPT ![Inits + 1] = "new"]
        /\ config' \in Loaded
    BY <1>0, <1>4, Bounds DEF OnInitSucceeds, MadeInOrder, PoolIds
  <2>3. TypeOK'
    <3>1. DOMAIN config' = DOMAIN DefaultConfig
      BY <2>2, ParsedFields
    <3> QED
      BY <1>0, <2>1, <2>2, <3>1 DEF TypeOK
  <2>4. MadeInOrder'
    <3>1. PICK n : n = Inits + 1
      OBVIOUS
    <3>2. n \in PoolIds /\ Inits \in Nat /\ n \in 0 .. MaxInits
      BY <2>2, <3>1, Bounds
    <3>3. {p \in PoolIds : pools'[p] # "none"} = 1 .. n
      <4>1. {p \in PoolIds : pools'[p] # "none"}
              = {p \in PoolIds : pools[p] # "none"} \cup {n}
        BY <1>0, <2>2, <3>1, <3>2 DEF TypeOK
      <4>2. {p \in PoolIds : pools[p] # "none"} = 1 .. Inits
        BY <1>0 DEF MadeInOrder
      <4> QED
        BY <3>1, <3>2, <4>1, <4>2, CountsUp
    <3>4. Inits' = n
      <4>1. Cardinality(1 .. n) = n
        BY <3>2, CountsUp
      <4> QED
        BY <3>3, <4>1 DEF Inits
    <3> QED
      BY <1>0, <3>2, <3>3, <3>4 DEF MadeInOrder, Made
  <2>5. HookInv'
    BY <1>0, <2>1, <2>2 DEF HookInv, TypeOK
  <2> QED
    BY <1>0, <1>2, <2>3, <2>4, <2>5, QuietInv
<1> QED
  BY <1>3, <1>4 DEF InitModule

LEMMA StartPoolKeepsInv ==
  ASSUME BusInv, StartPool
  PROVE  BusInv'
<1>0. /\ TypeOK /\ MadeInOrder /\ HookInv
      /\ at = "idle" /\ mstate[Bus] \in {"Inited", "Stopped"} /\ Made < MaxStarts
      /\ pool \in PoolIds
      /\ UNCHANGED <<nameVars, shared, drivers, callback, tasks, delivered, client>>
      /\ client.at = "looked" => client.driver \in DriverIds
  BY FreeStates DEF BusInv, StartPool, Free, HookInv, InUse
<1>1. (\A d \in DriverIds : ~Alive(d)' /\ ~InCallback(d)') /\ tasks' = {}
  BY <1>0, NothingRuns DEF Alive, InCallback
<1> USE DEF shared, nameVars
<1>2. CASE /\ pools' = [pools EXCEPT ![pool] = "running"]
           /\ at' = "install" /\ calling' = "Start"
           /\ UNCHANGED moduleVars
  <2>1. pools[pool] # "none" /\ pools'[pool] = "running"
    BY <1>0, <1>2 DEF HookInv, InUse, TypeOK
  <2>2. \A p \in PoolIds : pools'[p] = "none" <=> pools[p] = "none"
    BY <1>0, <1>2, <2>1 DEF TypeOK
  <2>3. MadeInOrder' /\ Made' = Made
    BY <1>0, <2>2, KeepsMade DEF MadeInOrder
  <2>4. TypeOK'
    BY <1>0, <1>2 DEF TypeOK, ModuleTypeOK, moduleVars
  <2>5. HookInv'
    BY <1>0, <1>2, <2>1, <2>3 DEF HookInv, InUse, moduleVars
  <2> QED
    BY <1>0, <1>1, <2>3, <2>4, <2>5, QuietInv
<1>3. CASE Start(Bus, FALSE) /\ UNCHANGED <<pools, at, calling>>
  <2>1. ModuleTypeOK' /\ mstate'[Bus] = mstate[Bus]
    BY <1>0, <1>3, BusOperations DEF TypeOK
  <2>2. TypeOK'
    BY <1>0, <1>3, <2>1 DEF TypeOK
  <2>3. MadeInOrder' /\ HookInv'
    BY <1>0, <1>3, <2>1 DEF MadeInOrder, Made, Inits, HookInv, InUse
  <2> QED
    BY <1>0, <1>1, <2>2, <2>3, QuietInv
<1> QED
  BY <1>2, <1>3 DEF StartPool

LEMMA InstallKeepsInv ==
  ASSUME BusInv, InstallDriver
  PROVE  BusInv'
<1>0. /\ TypeOK /\ MadeInOrder /\ HookInv
      /\ at = "install" /\ mstate[Bus] \in {"Inited", "Stopped"}
      /\ pool \in PoolIds /\ pools[pool] = "running"
      /\ Made < MaxStarts /\ driver' = Made + 1 /\ at' = "launch"
      /\ UNCHANGED <<moduleVars, nameVars, calling, config, handlers, pool, pools,
                     callback, tasks, delivered, client>>
      /\ client.at = "looked" => client.driver \in DriverIds
  BY DEF BusInv, InstallDriver, HookInv, InUse
<1>1. (\A d \in DriverIds : ~Alive(d) /\ ~InCallback(d)) /\ tasks = {}
  BY <1>0, NothingRuns
<1> USE DEF nameVars, moduleVars
<1>2. PICK n : n = Made + 1
  OBVIOUS
<1>3. n \in DriverIds /\ Made \in Nat /\ n \in 0 .. MaxStarts
  BY <1>0, <1>2, Bounds DEF MadeInOrder, DriverIds
<1>4. /\ DOMAIN drivers' = DriverIds
      /\ drivers'[n] = [at |-> "new", consumers |-> Subscriptions(config.consumers)]
      /\ \A d \in DriverIds \ {n} : drivers'[d] = drivers[d]
  BY <1>0, <1>2, <1>3 DEF InstallDriver, MadeInOrder
<1>5. \A d \in DriverIds : IsDriver(drivers'[d])
  BY <1>0, <1>4 DEF MadeInOrder, IsDriver, Unmade
<1>6. MadeInOrder' /\ Made' = n
  <2>1. {d \in DriverIds : drivers'[d] # Unmade} = 1 .. n
    <3>1. {d \in DriverIds : drivers'[d] # Unmade}
            = {d \in DriverIds : drivers[d] # Unmade} \cup {n}
      <4>1. drivers'[n] # Unmade
        BY <1>4 DEF Unmade
      <4> QED
        BY <1>3, <1>4, <4>1
    <3>2. {d \in DriverIds : drivers[d] # Unmade} = 1 .. Made
      BY <1>0 DEF MadeInOrder
    <3> QED
      BY <1>2, <1>3, <3>1, <3>2, CountsUp
  <2>2. Made' = n
    <3>1. Cardinality(1 .. n) = n
      BY <1>3, CountsUp
    <3> QED
      BY <2>1, <3>1 DEF Made
  <2> QED
    BY <1>0, <1>3, <1>4, <1>5, <2>1, <2>2 DEF MadeInOrder, Inits
<1>7. TypeOK'
  BY <1>0, <1>2, <1>3, <1>5 DEF TypeOK, ModuleTypeOK, IsDriver
<1>8. HookInv'
  BY <1>0, <1>2, <1>3, <1>6 DEF HookInv, InUse
<1>9. \A d \in DriverIds : ~Alive(d)' /\ ~InCallback(d)'
  BY <1>0, <1>1, <1>4 DEF Alive, InCallback
<1> QED
  BY <1>0, <1>1, <1>6, <1>7, <1>8, <1>9, QuietInv

LEMMA LaunchKeepsInv ==
  ASSUME BusInv, LaunchDriver
  PROVE  BusInv'
<1>0. /\ TypeOK /\ MadeInOrder /\ HookInv
      /\ at = "launch" /\ mstate[Bus] \in {"Inited", "Stopped"}
      /\ pool \in PoolIds /\ pools[pool] = "running"
      /\ driver = Made /\ driver \in DriverIds
      /\ at' = "return"
      /\ drivers' = [drivers EXCEPT ![driver].at = "running"]
      /\ UNCHANGED <<moduleVars, nameVars, calling, shared, pools, callback, tasks,
                     delivered, client>>
      /\ client.at = "looked" => client.driver \in DriverIds
  BY DEF BusInv, LaunchDriver, HookInv, InUse
<1>1. (\A d \in DriverIds : ~Alive(d) /\ ~InCallback(d)) /\ tasks = {}
  BY <1>0, NothingRuns
<1> USE DEF nameVars, shared, moduleVars
<1>2. ModuleTypeOK' /\ mstate' = mstate
  BY <1>0 DEF TypeOK, ModuleTypeOK
<1>3. /\ DOMAIN drivers' = DriverIds
      /\ drivers'[driver] = [at |-> "running", consumers |-> drivers[driver].consumers]
      /\ \A d \in DriverIds \ {driver} : drivers'[d] = drivers[d]
  BY <1>0 DEF MadeInOrder, IsDriver
<1>4. \A d \in DriverIds : IsDriver(drivers'[d])
  BY <1>0, <1>3 DEF MadeInOrder, IsDriver, Unmade
<1>5. drivers[driver].at # "none"
  <2>1. driver \in 1 .. Made
    BY <1>0 DEF MadeInOrder, DriverIds
  <2>2. drivers[driver] # Unmade
    BY <1>0, <2>1 DEF MadeInOrder
  <2> QED
    BY <1>0, <2>2 DEF MadeInOrder, IsDriver
<1>6. MadeInOrder' /\ Made' = Made
  BY <1>0, <1>3, <1>4, <1>5, KeepsMade
<1>7. TypeOK'
  BY <1>0, <1>2, <1>4 DEF TypeOK, IsDriver
<1>8. HookInv' /\ TaskInv'
  BY <1>0, <1>1, <1>2 DEF HookInv, InUse, TaskInv
<1>9. AliveInv' /\ CallbackInv'
  BY <1>0, <1>1, <1>2, <1>3 DEF AliveInv, CallbackInv, Serving, Alive, InCallback
<1> QED
  BY <1>0, <1>6, <1>7, <1>8, <1>9 DEF BusInv

(* The module's state follows its driver.                                  *)
LEMMA StartReturnsKeepsInv ==
  ASSUME BusInv, StartReturns
  PROVE  BusInv'
<1>0. /\ TypeOK /\ MadeInOrder /\ HookInv /\ AliveInv /\ CallbackInv /\ TaskInv
      /\ at = "return" /\ mstate[Bus] \in {"Inited", "Stopped"}
      /\ pool \in PoolIds /\ pools[pool] = "running"
      /\ Start(Bus, TRUE) /\ at' = "idle" /\ calling' = "none"
      /\ UNCHANGED <<nameVars, shared, pools, drivers, callback, tasks, delivered, client>>
      /\ client.at = "looked" => client.driver \in DriverIds
  BY DEF BusInv, StartReturns, HookInv, InUse
<1> USE DEF nameVars, shared
<1>1. ModuleTypeOK' /\ mstate'[Bus] = "Started"
  BY <1>0, BusOperations DEF TypeOK
<1>2. TypeOK' /\ MadeInOrder'
  BY <1>0, <1>1 DEF TypeOK, MadeInOrder, Made, Inits
<1>3. HookInv'
  BY <1>0, <1>1 DEF HookInv, InUse
<1>4. AliveInv' /\ CallbackInv' /\ TaskInv'
  BY <1>0, <1>1 DEF AliveInv, CallbackInv, TaskInv, Serving, Alive, InCallback
<1> QED
  BY <1>0, <1>2, <1>3, <1>4 DEF BusInv

LEMMA StopKeepsInv ==
  ASSUME BusInv, StopModule \/ RequestStop \/ JoinDriver
  PROVE  BusInv'
<1>0. /\ TypeOK /\ MadeInOrder /\ HookInv /\ AliveInv /\ CallbackInv /\ TaskInv
      /\ client.at = "looked" => client.driver \in DriverIds
  BY DEF BusInv
<1> USE DEF moduleVars, nameVars, shared
<1>1. CASE StopModule
  <2>1. /\ at = "idle" /\ calling' \in {"Stop", "Fini"}
        /\ \/ mstate[Bus] = "Started" /\ at' = "request"
           \/ mstate[Bus] # "Started" /\ at' = "fini"
        /\ UNCHANGED <<moduleVars, nameVars, shared, pools, drivers, callback, tasks,
                       delivered, client>>
    BY <1>1, FreeStates
       DEF StopModule, Free, FiniHooks, IsValidTransition, ValidTransitions
  <2>2. TypeOK'
    BY <1>0, <2>1 DEF TypeOK, ModuleTypeOK
  <2>3. MadeInOrder' /\ HookInv'
    BY <1>0, <2>1 DEF MadeInOrder, Made, Inits, HookInv
  <2>4. AliveInv' /\ CallbackInv' /\ TaskInv'
    BY <1>0, <2>1 DEF AliveInv, CallbackInv, TaskInv, Serving, Alive, InCallback
  <2> QED
    BY <1>0, <2>1, <2>2, <2>3, <2>4 DEF BusInv
<1>2. CASE RequestStop
  <2>1. /\ at = "request" /\ at' = "join"
        /\ UNCHANGED <<moduleVars, nameVars, calling, shared, pools, callback, tasks,
                       delivered, client>>
    BY <1>2 DEF RequestStop
  <2>2. DOMAIN drivers' = DriverIds
    BY <1>2 DEF RequestStop
  <2>3. ASSUME NEW d \in DriverIds
        PROVE  \/ drivers'[d] = drivers[d]
               \/ /\ drivers[d].at = "running"
                  /\ drivers'[d] = [at |-> "stopping", consumers |-> drivers[d].consumers]
    <3>1. drivers[d] = [at |-> drivers[d].at, consumers |-> drivers[d].consumers]
      BY <1>0 DEF MadeInOrder, IsDriver
    <3>2. drivers'[d] = IF d = driver /\ drivers[d].at = "running"
                        THEN [drivers[d] EXCEPT !.at = "stopping"] ELSE drivers[d]
      BY <1>2 DEF RequestStop
    <3>3. [drivers[d] EXCEPT !.at = "stopping"]
            = [at |-> "stopping", consumers |-> drivers[d].consumers]
      BY <3>1
    <3> QED
      BY <3>2, <3>3
  <2>4. ASSUME NEW d \in DriverIds PROVE IsDriver(drivers'[d])
    <3>1. CASE drivers'[d] = drivers[d]
      BY <1>0, <3>1 DEF MadeInOrder
    <3>2. CASE drivers'[d] = [at |-> "stopping", consumers |-> drivers[d].consumers]
      BY <3>2 DEF IsDriver, Unmade
    <3> QED
      BY <2>3, <3>1, <3>2
  <2>5. MadeInOrder' /\ Made' = Made
    BY <1>0, <2>1, <2>2, <2>3, <2>4, KeepsMade
  <2>6. TypeOK'
    BY <1>0, <2>1, <2>4 DEF TypeOK, ModuleTypeOK, IsDriver
  <2>7. HookInv' /\ TaskInv'
    BY <1>0, <2>1 DEF HookInv, TaskInv, Serving
  <2>8. \A d \in DriverIds : Alive(d)' <=> Alive(d)
    <3> TAKE d \in DriverIds
    <3>1. \/ drivers'[d] = drivers[d]
          \/ drivers[d].at = "running" /\ drivers'[d].at = "stopping"
      <4>1. CASE drivers'[d] = drivers[d]
        BY <4>1
      <4>2. CASE /\ drivers[d].at = "running"
                 /\ drivers'[d] = [at |-> "stopping", consumers |-> drivers[d].consumers]
        BY <4>2
      <4> QED
        BY <2>3, <4>1, <4>2
    <3> QED
      BY <3>1 DEF Alive
  <2>9. AliveInv' /\ CallbackInv'
    BY <1>0, <2>1, <2>8 DEF AliveInv, CallbackInv, Serving, InCallback
  <2> QED
    BY <1>0, <2>1, <2>5, <2>6, <2>7, <2>9 DEF BusInv
<1>3. CASE JoinDriver
  <2>1. /\ at = "join" /\ at' = "shutdown" /\ (driver # None => ~Alive(driver))
        /\ UNCHANGED <<moduleVars, nameVars, calling, shared, pools, drivers,
                       callback, tasks, delivered, client>>
    BY <1>3 DEF JoinDriver
  <2>2. TypeOK' /\ MadeInOrder' /\ HookInv' /\ TaskInv'
    BY <1>0, <2>1
       DEF TypeOK, ModuleTypeOK, MadeInOrder, Made, Inits, HookInv, TaskInv, Serving
  <2>3. \A d \in DriverIds : ~Alive(d)
    BY <1>0, <2>1 DEF AliveInv, DriverIds, None
  <2>4. AliveInv' /\ CallbackInv'
    BY <1>0, <2>1, <2>3 DEF AliveInv, CallbackInv, Alive, InCallback
  <2> QED
    BY <1>0, <2>1, <2>2, <2>4 DEF BusInv
<1> QED
  BY <1>1, <1>2, <1>3

LEMMA ShutdownKeepsInv ==
  ASSUME BusInv, ShutdownPool
  PROVE  BusInv'
<1>0. /\ TypeOK /\ MadeInOrder /\ HookInv
      /\ at = "shutdown" /\ mstate[Bus] = "Started" /\ pool \in PoolIds
      /\ pools[pool] # "none" /\ PoolIsDone(pool)
      /\ pools' = [pools EXCEPT ![pool] = "stopped"]
      /\ UNCHANGED <<nameVars, shared, drivers, callback, tasks, delivered, client>>
      /\ client.at = "looked" => client.driver \in DriverIds
  BY DEF BusInv, ShutdownPool, HookInv, InUse
<1> USE DEF nameVars, shared
<1>1. \A d \in DriverIds : ~Alive(d) /\ ~InCallback(d)
  BY <1>0 DEF BusInv, AliveInv, Serving, CallbackInv
<1>2. tasks = {}
  BY <1>0 DEF BusInv, TaskInv, PoolIsDone, TasksOf
<1>3. /\ \A d \in DriverIds : ~Alive(d)' /\ ~InCallback(d)'
      /\ tasks' = {}
  BY <1>0, <1>1, <1>2 DEF Alive, InCallback
<1>4. pools'[pool] = "stopped"
  BY <1>0 DEF TypeOK
<1>5. \A p \in PoolIds : pools'[p] = "none" <=> pools[p] = "none"
  BY <1>0 DEF TypeOK
<1>6. MadeInOrder' /\ Made' = Made
  BY <1>0, <1>5, KeepsMade DEF MadeInOrder
<1>7. /\ ModuleTypeOK' /\ mstate'[Bus] \in {"Started", "Stopped"}
      /\ \/ at' = "idle" /\ calling' = "none"
         \/ at' = "fini" /\ calling' = "Fini"
  <2>1. CASE /\ \E ok \in BOOLEAN : Stop(Bus, ok)
             /\ at' = "idle" /\ calling' = "none"
    BY <1>0, <2>1, BusOperations DEF TypeOK
  <2>2. CASE calling = "Fini" /\ at' = "fini" /\ UNCHANGED <<moduleVars, calling>>
    BY <1>0, <2>2 DEF TypeOK, ModuleTypeOK, moduleVars
  <2> QED
    BY <2>1, <2>2 DEF ShutdownPool
<1>8. TypeOK'
  BY <1>0, <1>7 DEF TypeOK
<1>9. HookInv'
  BY <1>0, <1>4, <1>7 DEF HookInv
<1> QED
  BY <1>0, <1>3, <1>6, <1>8, <1>9, QuietInv

LEMMA FiniKeepsInv ==
  ASSUME BusInv, FiniModule
  PROVE  BusInv'
<1>0. /\ TypeOK /\ MadeInOrder /\ HookInv /\ at = "fini"
      /\ at' = "idle" /\ calling' = "none"
      /\ UNCHANGED <<nameVars, pools, drivers, callback, tasks, delivered, client>>
      /\ client.at = "looked" => client.driver \in DriverIds
  BY DEF BusInv, FiniModule
<1> USE DEF nameVars, shared
<1>1. /\ \A d \in DriverIds : ~Alive(d)' /\ ~InCallback(d)'
      /\ tasks' = {}
  BY <1>0, NothingRuns DEF Alive, InCallback
<1>2. /\ ModuleTypeOK' /\ mstate'[Bus] \in {"Fini", mstate[Bus]}
      /\ mstate[Bus] \in InUse => mstate'[Bus] = "Fini"
  BY <1>0, BusOperations DEF FiniModule, TypeOK
<1>3. /\ DOMAIN config' = DOMAIN DefaultConfig
      /\ pool' \in PoolIds \cup {None} /\ driver' \in DriverIds \cup {None}
  BY <1>0 DEF FiniModule, Cleared, TypeOK
<1>4. TypeOK'
  BY <1>0, <1>2, <1>3 DEF TypeOK
<1>5. MadeInOrder'
  BY <1>0 DEF MadeInOrder, Made, Inits
<1>6. HookInv'
  BY <1>0, <1>2 DEF HookInv, InUse
<1> QED
  BY <1>0, <1>1, <1>4, <1>5, <1>6, QuietInv

LEMMA NextBusInv ==
  ASSUME BusInv, [Next]_vars
  PROVE  BusInv'
<1>1. CASE \/ SetModuleName \/ CallRefused
           \/ LookupDriver \/ CallDriver \/ CallReturns
           \/ \E k \in Names(config.consumers) :
                RegisterConsumerHandler(k) \/ UnregisterConsumerHandler(k)
           \/ UNCHANGED vars
  BY <1>1, ServiceKeepsInv
<1>2. CASE \E d \in DriverIds : ReceiveMessage(d) \/ SubmitTask(d)
                              \/ DrainCommands(d) \/ ThreadEnds(d)
  BY <1>2, ReceiveKeepsInv, SubmitKeepsInv, DrainKeepsInv, ThreadEndsKeepsInv
<1>3. CASE \E t \in tasks : TakeTask(t) \/ FinishTask(t)
  BY <1>3, WorkersKeepInv
<1>4. CASE InitModule \/ StartPool \/ InstallDriver \/ LaunchDriver \/ StartReturns
  BY <1>4, InitKeepsInv, StartPoolKeepsInv, InstallKeepsInv, LaunchKeepsInv,
     StartReturnsKeepsInv
<1>5. CASE StopModule \/ RequestStop \/ JoinDriver \/ ShutdownPool \/ FiniModule
  BY <1>5, StopKeepsInv, ShutdownKeepsInv, FiniKeepsInv
<1> QED
  BY <1>1, <1>2, <1>3, <1>4, <1>5 DEF Next

LEMMA BusInvHolds == BusSpec => []BusInv
<1>1. BusInit => BusInv
  BY InitBusInv
<1>2. BusInv /\ [Next]_vars => BusInv'
  BY NextBusInv
<1> QED
  BY <1>1, <1>2, PTL DEF BusSpec

-----------------------------------------------------------------------------
(* The variables keep their types, over any number of life cycles.         *)
THEOREM BusTypeCorrect == BusSpec => []TypeOK
<1>1. BusInv => TypeOK
  BY DEF BusInv
<1> QED
  BY <1>1, BusInvHolds, PTL

(* The callback, which copies driver and pool of the shared state under    *)
(* the mutex and uses them after it, holds its own driver and a pool that  *)
(* takes the task, however its steps fall between those of OnStart, OnStop *)
(* and OnFini.                                                             *)
THEOREM CallbackHoldsItsDriver == BusSpec => []CallbackFindsItsDriver
<1>1. BusInv => CallbackFindsItsDriver
  BY DEF BusInv, CallbackFindsItsDriver, CallbackInv, AliveInv, Serving, HookInv,
         InUse, None, PoolIds
<1> QED
  BY <1>1, BusInvHolds, PTL

(* Outside Started, and when OnFini destroys driver and pool, no thread    *)
(* and no task of the module is left: RequestStop, JoinDriver and          *)
(* ShutdownPool come in the order that leaves none behind.                 *)
THEOREM QuietWhenNotStarted == BusSpec => []QuietOutsideStarted
<1>1. BusInv => QuietOutsideStarted
  <2> SUFFICES ASSUME BusInv, (at = "idle" /\ mstate[Bus] # "Started") \/ at = "fini"
               PROVE  (\A d \in DriverIds : ~Alive(d)) /\ tasks = {}
    BY DEF QuietOutsideStarted
  <2> QED
    BY NothingRuns
<1> QED
  BY <1>1, BusInvHolds, PTL

(* Publish and the declarations call the driver after they have left the   *)
(* mutex. Only the driver of the moment takes the call, while its pool     *)
(* runs: one looked up before a stop and a restart refuses it.             *)
THEOREM LateCallsAreRefused == BusSpec => LateCallIsRefused
<1>1. BusInv /\ [Next]_vars =>
        [client.at = "looked" /\ client'.at = "called" =>
           client.driver = driver /\ pools[pool] = "running"]_vars
  <2> SUFFICES ASSUME BusInv, [Next]_vars, client.at = "looked", client'.at = "called"
               PROVE  client.driver = driver /\ pools[pool] = "running"
    OBVIOUS
  <2>1. client' # client
    OBVIOUS
  <2>2. CallDriver
    BY <2>1
       DEF Next, vars, nameVars, shared, SetModuleName, InitModule, StartPool,
           InstallDriver, LaunchDriver, StartReturns, StopModule, RequestStop,
           JoinDriver, ShutdownPool, FiniModule, CallRefused, ReceiveMessage,
           SubmitTask, DrainCommands, ThreadEnds, TakeTask, FinishTask, RegisterConsumerHandler,
           UnregisterConsumerHandler, LookupDriver, CallReturns
  <2>3. CanEnqueue(client.driver)
    BY <2>2 DEF CallDriver, IdleClient
  <2> QED
    BY <2>3 DEF CanEnqueue, Alive, BusInv, AliveInv
<1> QED
  BY <1>1, BusInvHolds, PTL DEF BusSpec, LateCallIsRefused

-----------------------------------------------------------------------------
(* What OnInit said, and the file it read.                                 *)

Parsed == ParseBusConfig(Files[file])

(* The answer stays true of the file: the module is renamed only as long   *)
(* as it was never initialised, and what it works with is what the file    *)
(* says until OnFini resets it.                                            *)
AnswerInv ==
  /\ answer = "ok" => /\ ~renamed /\ mstate[Bus] # "Created"
                      /\ Parsed # {}
                      /\ config \in Parsed \cup {DefaultConfig}
  /\ answer = "failed" => renamed \/ Parsed = {}

LEMMA NextAnswerInv ==
  ASSUME BusInv, AnswerInv, [Next]_vars
  PROVE  AnswerInv'
<1>0. ModuleTypeOK
  BY DEF BusInv, TypeOK
<1> USE DEF nameVars, shared
<1>1. CASE UNCHANGED <<file, renamed, answer, config, mstate>>
  BY <1>1 DEF AnswerInv, Parsed
<1>2. CASE UNCHANGED <<file, renamed, answer, config>> /\ mstate'[Bus] # "Created"
  BY <1>2 DEF AnswerInv, Parsed
<1>3. CASE SetModuleName
  BY <1>3 DEF SetModuleName, AnswerInv, Parsed
<1>4. CASE InitModule
  <2>1. UNCHANGED <<file, renamed>> /\ Parsed' = Parsed
    BY <1>4 DEF InitModule, Parsed
  <2>2. CASE OnInitFails
    BY <2>1, <2>2 DEF OnInitFails, Loaded, AnswerInv, Parsed
  <2>3. CASE OnInitSucceeds
    <3>1. mstate'[Bus] = "Inited"
      BY <1>0, <2>3, BusOperations DEF OnInitSucceeds
    <3>2. ~renamed /\ config' \in Parsed /\ answer' = "ok"
      BY <2>3 DEF OnInitSucceeds, Loaded, Parsed
    <3> QED
      BY <2>1, <3>1, <3>2 DEF AnswerInv
  <2> QED
    BY <1>4, <2>2, <2>3 DEF InitModule
<1>5. CASE FiniModule
  <2>1. UNCHANGED <<file, renamed, answer>> /\ Parsed' = Parsed
    BY <1>5 DEF FiniModule, Parsed
  <2>2. mstate'[Bus] \in {"Fini", mstate[Bus]}
    BY <1>0, <1>5, BusOperations DEF FiniModule
  <2>3. config' \in {DefaultConfig, config}
    BY <1>5 DEF FiniModule, Cleared
  <2> QED
    BY <2>1, <2>2, <2>3 DEF AnswerInv
<1>6. CASE StartPool
  <2>1. UNCHANGED <<file, renamed, answer, config>>
    BY <1>6 DEF StartPool
  <2>2. UNCHANGED mstate \/ Start(Bus, FALSE)
    BY <1>6 DEF StartPool, moduleVars
  <2>3. mstate'[Bus] = mstate[Bus]
    BY <1>0, <2>2, BusOperations
  <2> QED
    BY <2>1, <2>3 DEF AnswerInv, Parsed
<1>7. CASE StartReturns
  <2>1. Start(Bus, TRUE) /\ UNCHANGED <<file, renamed, answer, config>>
    BY <1>7 DEF StartReturns
  <2> QED
    BY <1>0, <1>2, <2>1, BusOperations
<1>8. CASE ShutdownPool
  <2>1. UNCHANGED <<file, renamed, answer, config>>
    BY <1>8 DEF ShutdownPool
  <2>2. UNCHANGED mstate \/ \E ok \in BOOLEAN : Stop(Bus, ok)
    BY <1>8 DEF ShutdownPool, moduleVars
  <2>3. mstate'[Bus] = mstate[Bus] \/ mstate'[Bus] = "Stopped"
    BY <1>0, <2>2, BusOperations
  <2> QED
    BY <2>1, <2>3 DEF AnswerInv, Parsed
<1>9. CASE \/ InstallDriver \/ LaunchDriver \/ StopModule \/ RequestStop \/ JoinDriver \/ CallRefused
           \/ LookupDriver \/ CallDriver \/ CallReturns \/ UNCHANGED vars
           \/ \E d \in DriverIds : ReceiveMessage(d) \/ SubmitTask(d)
                                   \/ DrainCommands(d) \/ ThreadEnds(d)
           \/ \E t \in tasks : TakeTask(t) \/ FinishTask(t)
           \/ \E k \in Names(config.consumers) :
                RegisterConsumerHandler(k) \/ UnregisterConsumerHandler(k)
  <2>1. UNCHANGED <<file, renamed, answer, config, mstate>>
    BY <1>9 DEF InstallDriver, LaunchDriver, StopModule, RequestStop, JoinDriver, CallRefused,
                LookupDriver, CallDriver, CallReturns, vars, moduleVars, ReceiveMessage,
                SubmitTask, DrainCommands, ThreadEnds, TakeTask, FinishTask, RegisterConsumerHandler,
                UnregisterConsumerHandler
  <2> QED
    BY <1>1, <2>1
<1> QED
  BY <1>3, <1>4, <1>5, <1>6, <1>7, <1>8, <1>9 DEF Next

LEMMA AnswerInvHolds == BusSpec => []AnswerInv
<1>1. BusInit => AnswerInv
  BY DEF BusInit, AnswerInv
<1>2. BusInv /\ AnswerInv /\ [Next]_vars => AnswerInv'
  BY NextAnswerInv
<1> QED
  BY <1>1, <1>2, BusInvHolds, PTL DEF BusSpec

(* OnInit accepts exactly the well-formed configurations, for every JSON   *)
(* the module may be configured with: J stands for any set of JSON values  *)
(* that holds the files and all that is inside them.                       *)
THEOREM InitAgrees ==
  ASSUME NEW J, NEW W, JsonSet(J, W), \A i \in DOMAIN Files : Files[i] \in J
  PROVE  BusSpec => []InitAgreesWithFile
<1>1. TypeOK /\ AnswerInv => InitAgreesWithFile
  <2> SUFFICES ASSUME TypeOK, AnswerInv PROVE InitAgreesWithFile
    OBVIOUS
  <2> DEFINE x == Files[file]
  <2>1. x \in J
    BY DEF TypeOK
  <2>2. ASSUME answer = "ok" PROVE WellFormed(x) /\ ~renamed
    BY <2>1, <2>2, ParserIsSound DEF AnswerInv, Parsed
  <2>3. ASSUME answer = "ok", config \in Parsed PROVE TimesAreUsable
    BY <2>1, <2>3, ParsedTimesAreUsable DEF TimesAreUsable, Parsed
  <2>4. ASSUME config = DefaultConfig PROVE TimesAreUsable
    BY <2>4 DEF TimesAreUsable, DefaultConfig
  <2>5. ASSUME answer = "failed" PROVE renamed \/ ~WellFormed(x) \/ ~Plain(x)
    BY <2>1, <2>5, ParserIsComplete DEF AnswerInv, Parsed
  <2> QED
    BY <2>2, <2>3, <2>4, <2>5 DEF InitAgreesWithFile, AnswerInv
<1> QED
  BY <1>1, BusTypeCorrect, AnswerInvHolds, PTL
=============================================================================

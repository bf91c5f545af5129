--------------------------- MODULE ModuleManager ---------------------------
(***************************************************************************)
(* ModuleManager with its ServiceRegistry, behind Context: loading of      *)
(* plugins (a whole configuration, all or nothing, or one at a time), and  *)
(* the loops that drive the loaded modules through their life cycle, one   *)
(* step per module. One thread calls; a hook may load further modules.     *)
(***************************************************************************)
EXTENDS ModuleBase, ModuleConfig, SequencesExt

CONSTANTS
  Files,                (* a sequence: configuration files                  *)
  TypeOf,               (* libraries of plugins, with the type of each      *)
  Providers             (* those whose plugin is an IMessageBusService      *)

(* What each file is read as, and the entries of all. *)
Read == [i \in DOMAIN Files |-> ReadModuleConfig(Files[i])]
Specs == UNION {ToSet(s) : s \in UNION {Read[i] : i \in DOMAIN Files}}

Libraries == DOMAIN TypeOf

(* A file lists its modules, and Modules has every name they may take.     *)
ASSUME ManagerAssumption ==
  /\ 0 \notin DOMAIN Files
  /\ \A i \in DOMAIN Files : Read[i] \subseteq Seq(Specs)
  /\ \A s \in Specs : s.name \in Modules

VARIABLES
  order,                (* module_order_                                    *)
  library,              (* modules_by_name_: {the library of the instance}  *)
  config,               (* configs_by_name_: {the configuration}, or {}     *)
  services,             (* service_registry_, providers of the bus service  *)
  call,                 (* the operation in progress, or "none"             *)
  next,                 (* index of the module its loop is at               *)
  firstOk,              (* no module has failed in it so far                *)
  loading,              (* history: the file being loaded, or 0             *)
  batch,                (* the entries it was read as                       *)
  staged                (* how many of their instances are created          *)

callVars == <<call, next, firstOk>>
loadVars == <<loading, batch, staged>>
registryVars == <<order, library, config, services>>
vars == <<moduleVars, registryVars, callVars, loadVars>>

Loops == {"Init", "Start", "Stop", "Fini"}
Paths == Libraries \cup {s.library_path : s \in Specs}
Configs == {NoFields} \cup {s.config : s \in Specs}

(* modules_by_name_ *)
Loaded == {m \in Modules : mstate[m] # Absent}

TypeOK ==
  /\ ModuleTypeOK
  /\ order \in Seq(Modules)
  /\ library \in [Modules -> SUBSET Paths]
  /\ config \in [Modules -> SUBSET Configs]
  /\ services \subseteq Modules
  /\ call \in Loops \cup {"none", "Load"}
  /\ next \in Nat
  /\ firstOk \in BOOLEAN
  /\ loading \in DOMAIN Files \cup {0}
  /\ batch \in Seq(Specs)
  /\ staged \in Nat

ManagerInit ==
  /\ ModuleInit
  /\ order = <<>>
  /\ library = [m \in Modules |-> {}]
  /\ config = [m \in Modules |-> {}]
  /\ services = {}
  /\ call = "none" /\ next = 0 /\ firstOk = TRUE
  /\ loading = 0 /\ batch = <<>> /\ staged = 0

Return ==
  /\ call' = "none"
  /\ next' = 0
  /\ firstOk' = TRUE

-----------------------------------------------------------------------------
(* Loading.                                                                *)

Names(specs) == [i \in DOMAIN specs |-> specs[i].name]
Of(specs, m) == {i \in DOMAIN specs : specs[i].name = m}

(* RegisterKnownServices of the new instances.                             *)
RegisterKnownServices(specs) ==
  services' = services \cup
    {specs[i].name : i \in {j \in DOMAIN specs : specs[j].library_path \in Providers}}

(* StoreLoadedModule for an instance of each entry, and its configuration. *)
Store(specs) ==
  /\ mstate' = [m \in Modules |-> IF Of(specs, m) # {} THEN "Created" ELSE mstate[m]]
  /\ order' = order \o Names(specs)
  /\ library' = [m \in Modules |-> IF Of(specs, m) # {}
                   THEN {specs[i].library_path : i \in Of(specs, m)} ELSE library[m]]
  /\ config' = [m \in Modules |-> IF Of(specs, m) # {}
                   THEN {specs[i].config : i \in Of(specs, m)} ELSE config[m]]
  /\ RegisterKnownServices(specs)
  /\ UNCHANGED <<ctx, owed>>

(* The file is read, and the pre-check refuses a name that is loaded       *)
(* already. When either fails, the call returns and nothing has changed.   *)
BeginLoad(i) ==
  /\ call = "none"
  /\ \E specs \in Read[i] :
       /\ ToSet(Names(specs)) \cap Loaded = {}
       /\ batch' = specs
  /\ call' = "Load"
  /\ loading' = i
  /\ UNCHANGED <<moduleVars, registryVars, next, firstOk, staged>>

Staging == call = "Load" /\ staged < Len(batch)

(* Mutants of StageNext: the instance is stored as soon as it is created;   *)
(* ValidateConfiguredModule is left out.                                    *)
StoreAtOnce ==
  /\ Staging
  /\ Store(<<batch[staged + 1]>>)
  /\ staged' = staged + 1
  /\ UNCHANGED <<callVars, loading, batch>>

StageUnvalidated ==
  /\ Staging
  /\ batch[staged + 1].library_path \in Libraries
  /\ staged' = staged + 1
  /\ UNCHANGED <<moduleVars, registryVars, callVars, loading, batch>>

(* The plugin is opened, and its instance created, named and validated.    *)
StageNext ==
  /\ Staging
  /\ LET spec == batch[staged + 1]
     IN spec.library_path \in Libraries /\ TypeOf[spec.library_path] = spec.type
  /\ staged' = staged + 1
  /\ UNCHANGED <<moduleVars, registryVars, callVars, loading, batch>>

EndLoad ==
  /\ loading' = 0 /\ batch' = <<>> /\ staged' = 0
  /\ Return

(* One of these fails, as any may: the handles created so far are          *)
(* destroyed with the call.                                                *)
StageFails ==
  /\ Staging
  /\ EndLoad
  /\ UNCHANGED <<moduleVars, registryVars>>

CommitBatch ==
  /\ call = "Load"
  /\ staged = Len(batch)
  /\ Store(batch)
  /\ EndLoad

(* LoadModule, by the application or by a hook of a module that the Init   *)
(* or Start loop is at; its configuration is the empty object.             *)
LoadModule(m, path) ==
  /\ call \in {"none", "Init", "Start"}
  /\ m \notin Loaded
  /\ Store(<<[name |-> m, library_path |-> path, config |-> NoFields]>>)
  /\ UNCHANGED <<callVars, loadVars>>

-----------------------------------------------------------------------------
(* The loops. Init and Start go forward and give up at the first failure;  *)
(* Stop and Fini go backward over all modules.                             *)

(* Mutant of Begin: the backward loops start one module too early.          *)
BeginBeforeLast(op) ==
  /\ call = "none"
  /\ call' = op
  /\ next' = IF op \in {"Init", "Start"} THEN 1 ELSE Len(order) - 1
  /\ firstOk' = TRUE
  /\ UNCHANGED <<moduleVars, registryVars, loadVars>>

Begin(op) ==
  /\ call = "none"
  /\ call' = op
  /\ next' = IF op \in {"Init", "Start"} THEN 1 ELSE Len(order)
  /\ firstOk' = TRUE
  /\ UNCHANGED <<moduleVars, registryVars, loadVars>>

(* Mutant of Forward: the loop goes on after a failure.                     *)
ForwardAnyway(ok) ==
  /\ next' = next + 1
  /\ UNCHANGED <<call, firstOk>>

(* One iteration of a forward loop, with the result of its module.         *)
Forward(ok) ==
  \/ ok /\ next' = next + 1 /\ UNCHANGED <<call, firstOk>>
  \/ ~ok /\ Return

InLoop(op) == call = op /\ next \in 1 .. Len(order)

InitNext ==
  /\ InLoop("Init")
  /\ \E ok \in BOOLEAN : Init(order[next], ok) /\ Forward(ok)
  /\ UNCHANGED <<registryVars, loadVars>>

StartNext ==
  /\ InLoop("Start")
  /\ \E ok \in BOOLEAN : Start(order[next], ok) /\ Forward(ok)
  /\ UNCHANGED <<registryVars, loadVars>>

(* Mutant of Backward: the result of the last module is returned.           *)
BackwardLastResult(ok) ==
  /\ next' = next - 1
  /\ firstOk' = ok
  /\ UNCHANGED call

(* One iteration of a backward loop: the first error is kept.              *)
Backward(ok) ==
  /\ next' = next - 1
  /\ firstOk' = (firstOk /\ ok)
  /\ UNCHANGED call

StopNext ==
  /\ InLoop("Stop")
  /\ \E ok \in BOOLEAN : Stop(order[next], ok) /\ Backward(ok)
  /\ UNCHANGED <<registryVars, loadVars>>

(* Mutant of FiniNext: the modules are finished in load order.              *)
FiniForward ==
  /\ InLoop("Fini")
  /\ \E ok \in BOOLEAN : Fini(order[Len(order) + 1 - next], ok) /\ Backward(ok)
  /\ UNCHANGED <<registryVars, loadVars>>

FiniNext ==
  /\ InLoop("Fini")
  /\ \E ok \in BOOLEAN : Fini(order[next], ok) /\ Backward(ok)
  /\ UNCHANGED <<registryVars, loadVars>>

LoopDone ==
  /\ call \in {"Init", "Start", "Stop"}
  /\ ~InLoop(call)
  /\ Return
  /\ UNCHANGED <<moduleVars, registryVars, loadVars>>

(* Mutant of FiniDone: the registry is not cleared.                         *)
FiniKeepsServices ==
  /\ call = "Fini"
  /\ ~InLoop("Fini")
  /\ mstate' = [m \in Modules |-> Absent]
  /\ owed' = [m \in Modules |-> {}]
  /\ ctx' = [m \in Modules |-> FALSE]
  /\ order' = <<>>
  /\ library' = [m \in Modules |-> {}]
  /\ config' = [m \in Modules |-> {}]
  /\ UNCHANGED services
  /\ Return
  /\ UNCHANGED loadVars

(* The end of Fini: registry, modules, configurations and order are        *)
(* cleared, which destroys the instances.                                  *)
FiniDone ==
  /\ call = "Fini"
  /\ ~InLoop("Fini")
  /\ mstate' = [m \in Modules |-> Absent]
  /\ owed' = [m \in Modules |-> {}]
  /\ ctx' = [m \in Modules |-> FALSE]
  /\ order' = <<>>
  /\ library' = [m \in Modules |-> {}]
  /\ config' = [m \in Modules |-> {}]
  /\ services' = {}
  /\ Return
  /\ UNCHANGED loadVars

(* The application calls a module it looked up, outside the loops.         *)
Direct(m, ok) ==
  /\ call = "none"
  /\ m \in Loaded
  /\ Init(m, ok) \/ Start(m, ok) \/ Stop(m, ok) \/ Fini(m, ok)
  /\ UNCHANGED <<registryVars, callVars, loadVars>>

Next ==
  \/ \E i \in DOMAIN Files : BeginLoad(i)
  \/ StageNext \/ StageFails \/ CommitBatch
  \/ \E m \in Modules, path \in Libraries : LoadModule(m, path)
  \/ \E op \in Loops : Begin(op)
  \/ InitNext \/ StartNext \/ StopNext \/ FiniNext
  \/ LoopDone \/ FiniDone
  \/ \E m \in Modules, ok \in BOOLEAN : Direct(m, ok)

Spec == ManagerInit /\ [][Next]_vars
-----------------------------------------------------------------------------
(* Properties.                                                             *)

(* The order, the modules, their configurations and the services of the    *)
(* registry always speak of the same instances: a lookup never finds a     *)
(* provider that was destroyed, nor misses one that is loaded.             *)
RegistryMatchesModules ==
  /\ IsInjective(order)
  /\ ToSet(order) = Loaded
  /\ \A m \in Modules : config[m] # {} <=> m \in Loaded
  /\ \A m \in Modules : library[m] # {} <=> m \in Loaded
  /\ services = {m \in Modules : library[m] \cap Providers # {}}

(* No instance is destroyed while it owes a hook: whatever failed before,  *)
(* every started module was told to stop and every inited one to finish.   *)
DestroyedClean ==
  [][\A m \in Modules :
       mstate[m] # Absent /\ mstate'[m] = Absent => owed[m] = {}]_vars

(* The entries of the file being loaded, as it is written. *)
Entries == Files[loading].root.v["modules"].v

(* LoadModules takes effect for the whole file, in its order, or not at    *)
(* all; nothing else adds more than one module.                            *)
LoadAllOrNothing ==
  [][order' # order =>
       \/ order' = <<>>
       \/ /\ call = "Load"
          /\ order' = order \o [i \in DOMAIN Entries |-> Entries[i].v["name"].v]
       \/ call # "Load" /\ \E m \in Modules : order' = Append(order, m)]_vars

(* The library an entry names is at a path: by itself, or seen from the    *)
(* directory of the file; and what the entry configures its module with.   *)
NamesLibrary(x, directory, path) ==
  LET written == x.v["library_path"].v
      rooted == Len(written) > 1 /\ written[1] = ""
  IN path = IF rooted THEN written ELSE directory \o written

OwnConfig(x) ==
  IF "config" \in DOMAIN x.v THEN x.v["config"].v ELSE NoFields

(* A module that LoadModules adds is what exactly one entry of a file of   *)
(* the supported version says: an instance of the type it names, from its  *)
(* library, with its configuration.                                        *)
LoadedAsWritten ==
  [][\A m \in Loaded' \ Loaded :
       call = "Load" =>
         \E i \in DOMAIN Entries :
           /\ Files[loading].root.v["schema_version"].v = 2
           /\ \A j \in DOMAIN Entries : Entries[j].v["name"].v = m <=> j = i
           /\ \E path \in library'[m] :
                /\ NamesLibrary(Entries[i], Files[loading].directory, path)
                /\ TypeOf[path] = Entries[i].v["type"].v
           /\ config'[m] = {OwnConfig(Entries[i])}]_vars

(* Start reaches a module only when every module loaded before it, which   *)
(* it may depend on, is started.                                           *)
StartsInOrder ==
  [][\A i \in DOMAIN order :
       call = "Start" /\ mstate[order[i]] # "Started"
         /\ mstate'[order[i]] = "Started"
       => \A j \in 1 .. i - 1 : mstate[order[j]] = "Started"]_vars

(* Fini runs the hooks of a module only when the modules loaded after it   *)
(* owe none: nothing is torn down under a module that may still use it.    *)
FiniInReverse ==
  [][\A i \in DOMAIN order :
       call = "Fini" /\ owed'[order[i]] # owed[order[i]]
       => \A j \in i + 1 .. Len(order) : owed[order[j]] = {}]_vars

(* Init, Start and Stop report success only when every loaded module, also *)
(* one that a hook loaded meanwhile, has reached the state.                *)
ReportsOk(op) ==
  /\ call = op /\ call' = "none"
  /\ firstOk /\ ~InLoop(op)

OkMeansAll ==
  [][/\ ReportsOk("Init") => \A m \in Loaded : mstate[m] = "Inited"
     /\ ReportsOk("Start") => \A m \in Loaded : mstate[m] = "Started"
     /\ ReportsOk("Stop") => \A m \in Loaded : mstate[m] = "Stopped"]_vars
=============================================================================

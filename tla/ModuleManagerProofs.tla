------------------------ MODULE ModuleManagerProofs ------------------------
(***************************************************************************)
(* Theorems about ModuleManager, for every set of plugins, every choice of *)
(* service providers and every size of the configuration.                  *)
(***************************************************************************)
EXTENDS ModuleManager, SequenceLemmas, TLAPS

(* The instance of an entry is of the type the entry names. *)
Validated(spec) ==
  spec.library_path \in Libraries /\ TypeOf[spec.library_path] = spec.type

(* What holds of the load in progress: its entries are those of the file,  *)
(* none is loaded yet, and those created so far are validated.             *)
LoadInv ==
  call = "Load" =>
    /\ loading \in DOMAIN Files /\ batch \in Read[loading]
    /\ ToSet(Names(batch)) \cap Loaded = {}
    /\ \A i \in 1 .. staged : Validated(batch[i])

(* The state a loop brings a module to.                                    *)
Target(op) ==
  IF op = "Init" THEN "Inited"
  ELSE IF op = "Start" THEN "Started"
  ELSE IF op = "Stop" THEN "Stopped" ELSE "Fini"

(* Every module that a loop has passed is where the loop brings it; in the *)
(* loop of Stop, only as long as none has failed.                          *)
LoopInv ==
  /\ call \in {"Init", "Start"} =>
       /\ next \in 1 .. Len(order) + 1
       /\ \A j \in 1 .. next - 1 : mstate[order[j]] = Target(call)
  /\ call \in {"Stop", "Fini"} =>
       /\ next \in 0 .. Len(order)
       /\ firstOk \/ call = "Fini" =>
            \A j \in next + 1 .. Len(order) : mstate[order[j]] = Target(call)

IdleInv == call # "Load" => staged = 0

ManagerInv ==
  TypeOK /\ HooksMatchState /\ RegistryMatchesModules /\ LoadInv /\ IdleInv

-----------------------------------------------------------------------------
(* Facts about the operations of one module.                               *)

LEMMA StateNames ==
  /\ \A x \in ModuleState : x # Absent
  /\ "Created" \in ModuleState
BY DEF ModuleState, Absent

ModuleOp(m, ok) == Init(m, ok) \/ Start(m, ok) \/ Stop(m, ok) \/ Fini(m, ok)

(* An operation keeps the types, moves the state of its module only, and   *)
(* neither creates nor destroys an instance.                               *)
LEMMA ModuleOpEffect ==
  ASSUME ModuleTypeOK, NEW m \in Modules, mstate[m] # Absent,
         NEW ok \in BOOLEAN, ModuleOp(m, ok)
  PROVE  /\ ModuleTypeOK'
         /\ \A n \in Modules \ {m} : mstate'[n] = mstate[n] /\ owed'[n] = owed[n]
         /\ Loaded' = Loaded
<1> USE DEF ModuleTypeOK, Loaded, ModuleState, Absent
<1>1. CASE UNCHANGED moduleVars BY <1>1 DEF moduleVars
<1>2. CASE Init(m, ok) BY <1>1, <1>2 DEF Init, Refused
<1>3. CASE Start(m, ok) BY <1>1, <1>3 DEF Start, Refused
<1>4. CASE Stop(m, ok) BY <1>1, <1>4 DEF Stop, Refused
<1>5. CASE Fini(m, ok)
  <2>1. CASE Refused(m, "Fini", ok) BY <1>1, <2>1 DEF Refused
  <2>2. CASE ~Refused(m, "Fini", ok) BY <1>5, <2>2 DEF Fini
  <2> QED
    BY <2>1, <2>2
<1> QED
  BY <1>2, <1>3, <1>4, <1>5 DEF ModuleOp

(* The hooks owed follow the state through every operation.                *)
LEMMA ModuleOpHooks ==
  ASSUME ModuleTypeOK, HooksMatchState, NEW m \in Modules, mstate[m] # Absent,
         NEW ok \in BOOLEAN, ModuleOp(m, ok)
  PROVE  HooksMatchState'
<1> USE DEF ModuleTypeOK, ModuleState, Absent, IsValidTransition, ValidTransitions
<1>1. CASE UNCHANGED moduleVars BY <1>1 DEF moduleVars, HooksMatchState
<1>2. CASE Init(m, ok) BY <1>1, <1>2 DEF Init, Refused, HooksMatchState
<1>3. CASE Start(m, ok) BY <1>1, <1>3 DEF Start, Refused, HooksMatchState
<1>4. CASE Stop(m, ok) BY <1>1, <1>4 DEF Stop, Refused, HooksMatchState
<1>5. CASE Fini(m, ok)
  <2>1. CASE Refused(m, "Fini", ok) BY <1>1, <2>1 DEF Refused
  <2>2. CASE ~Refused(m, "Fini", ok)
    <3>1. /\ "OnStop" \in FiniHooks(mstate[m]) <=> mstate[m] = "Started"
          /\ "OnFini" \in FiniHooks(mstate[m])
               <=> mstate[m] \in {"Inited", "Started", "Stopped"}
      BY DEF FiniHooks
    <3>2. /\ mstate' = [mstate EXCEPT ![m] = "Fini"]
          /\ ctx' = [ctx EXCEPT ![m] = FALSE]
          /\ owed' = [owed EXCEPT ![m] = @ \ FiniHooks(mstate[m])]
      BY <1>5, <2>2 DEF Fini
    <3> QED
      BY <3>1, <3>2 DEF HooksMatchState
  <2> QED
    BY <2>1, <2>2
<1> QED
  BY <1>2, <1>3, <1>4, <1>5 DEF ModuleOp

-----------------------------------------------------------------------------
(* Storing new instances.                                                  *)

LEMMA NamesOfSeq ==
  ASSUME NEW S, NEW s \in Seq(S), \A x \in S : x.name \in Modules
  PROVE  /\ Names(s) \in Seq(Modules)
         /\ Len(Names(s)) = Len(s)
         /\ \A m : m \in ToSet(Names(s)) <=> Of(s, m) # {}
<1>1. s \in [1 .. Len(s) -> S] /\ Len(s) \in Nat /\ DOMAIN s = 1 .. Len(s)
  BY LenProperties
<1>2. Names(s) \in [1 .. Len(s) -> Modules]
  BY <1>1 DEF Names
<1>3. Names(s) \in Seq(Modules)
  BY <1>1, <1>2, SeqDef
<1>4. Len(Names(s)) = Len(s)
  BY <1>1, <1>2, <1>3, LenProperties
<1>5. \A m : m \in ToSet(Names(s)) <=> Of(s, m) # {}
  BY <1>1 DEF ToSet, Names, Of
<1> QED
  BY <1>3, <1>4, <1>5

LEMMA StoreEffect ==
  ASSUME TypeOK, HooksMatchState, RegistryMatchesModules,
         NEW S, NEW s \in Seq(S),
         \A x \in S : x.name \in Modules /\ x.library_path \in Paths /\ x.config \in Configs,
         IsInjective(Names(s)), ToSet(Names(s)) \cap Loaded = {}, Store(s)
  PROVE  /\ ModuleTypeOK' /\ HooksMatchState' /\ RegistryMatchesModules'
         /\ order' \in Seq(Modules)
         /\ library' \in [Modules -> SUBSET Paths]
         /\ config' \in [Modules -> SUBSET Configs]
         /\ services' \subseteq Modules
         /\ Loaded' = Loaded \cup ToSet(Names(s))
<1> DEFINE new == ToSet(Names(s))
<1>1. /\ Names(s) \in Seq(Modules)
      /\ \A m : m \in new <=> Of(s, m) # {}
  BY NamesOfSeq
<1>2. \A i \in DOMAIN s : s[i] \in S
  BY ElementOfSeq, LenProperties
<1>3. new \subseteq Modules
  BY <1>1, MemberIndex, ElementOfSeq
<1>4. /\ mstate' = [m \in Modules |-> IF Of(s, m) # {} THEN "Created" ELSE mstate[m]]
      /\ library' = [m \in Modules |-> IF Of(s, m) # {}
                       THEN {s[i].library_path : i \in Of(s, m)} ELSE library[m]]
      /\ config' = [m \in Modules |-> IF Of(s, m) # {}
                      THEN {s[i].config : i \in Of(s, m)} ELSE config[m]]
      /\ order' = order \o Names(s)
      /\ UNCHANGED <<ctx, owed>>
  BY DEF Store
<1>5. services' = services \cup
        {s[i].name : i \in {j \in DOMAIN s : s[j].library_path \in Providers}}
  BY DEF Store, RegisterKnownServices
<1>6. \A m \in Modules : m \in new => mstate'[m] = "Created"
  BY <1>1, <1>4
<1>7. \A m \in Modules : m \notin new => /\ mstate'[m] = mstate[m]
                                         /\ library'[m] = library[m]
                                         /\ config'[m] = config[m]
  BY <1>1, <1>4
<1>8. Loaded' = Loaded \cup new
  BY <1>3, <1>6, <1>7, StateNames DEF Loaded
<1>9. ModuleTypeOK'
  BY <1>4, StateNames DEF TypeOK, ModuleTypeOK
<1>10. \A m : Of(s, m) \subseteq DOMAIN s
  BY DEF Of
<1>11. library' \in [Modules -> SUBSET Paths]
  BY <1>2, <1>4, <1>10 DEF TypeOK
<1>12. config' \in [Modules -> SUBSET Configs]
  BY <1>2, <1>4, <1>10 DEF TypeOK
<1>13. services' \subseteq Modules
  BY <1>2, <1>5 DEF TypeOK
<1>14. /\ order' \in Seq(Modules)
       /\ ToSet(order') = ToSet(order) \cup new
  BY <1>1, <1>4, ConcatToSet DEF TypeOK
<1>15. IsInjective(order')
  BY <1>1, <1>4, ConcatDistinct DEF TypeOK, RegistryMatchesModules
<1>16. HooksMatchState'
  <2>1. \A m \in new : mstate[m] = Absent
    BY <1>3 DEF Loaded
  <2>2. \A m \in new : owed[m] = {} /\ ~ctx[m]
    BY <1>3, <2>1 DEF HooksMatchState, TypeOK, ModuleTypeOK, Absent
  <2> QED
    BY <1>3, <1>4, <1>6, <1>7, <2>2 DEF HooksMatchState
<1>17. \A m \in Modules : /\ config'[m] # {} <=> m \in Loaded'
                          /\ library'[m] # {} <=> m \in Loaded'
  <2>1. ASSUME NEW m \in Modules, m \in new
        PROVE  config'[m] # {} /\ library'[m] # {}
    BY <1>1, <1>4, <2>1
  <2> QED
    BY <1>7, <1>8, <2>1 DEF RegistryMatchesModules
<1>18. services' = {m \in Modules : library'[m] \cap Providers # {}}
  <2>1. ASSUME NEW m \in Modules, m \in new
        PROVE  m \in services' <=> library'[m] \cap Providers # {}
    <3>1. library[m] = {}
      BY <2>1 DEF RegistryMatchesModules
    <3>2. m \notin services
      BY <3>1 DEF RegistryMatchesModules
    <3>3. library'[m] = {s[i].library_path : i \in Of(s, m)}
      BY <1>1, <1>4, <2>1
    <3>4. m \in services' <=> \E i \in DOMAIN s : s[i].library_path \in Providers /\ s[i].name = m
      BY <1>5, <3>2
    <3> QED
      BY <3>3, <3>4 DEF Of
  <2>2. ASSUME NEW m \in Modules, m \notin new
        PROVE  m \in services' <=> library'[m] \cap Providers # {}
    <3>1. \A i \in DOMAIN s : s[i].name # m
      BY <1>1, <2>2 DEF Of
    <3>2. m \in services' <=> m \in services
      BY <1>5, <3>1
    <3> QED
      BY <1>7, <2>2, <3>2 DEF RegistryMatchesModules
  <2> QED
    BY <1>13, <2>1, <2>2
<1>19. RegistryMatchesModules'
  BY <1>8, <1>14, <1>15, <1>17, <1>18 DEF RegistryMatchesModules
<1> QED
  BY <1>8, <1>9, <1>11, <1>12, <1>13, <1>14, <1>16, <1>19

-----------------------------------------------------------------------------
(* What the reading of a file returns.                                     *)

(* The entries as they are written. *)
Written(i) == Files[i].root.v["modules"].v

LEMMA ReadIsParsed ==
  ASSUME NEW i \in DOMAIN Files, NEW specs \in Read[i]
  PROVE  /\ Files[i].root.v["schema_version"].t = "int"
         /\ Files[i].root.v["schema_version"].v = 2
         /\ specs \in ParseEntries(Written(i), Files[i].directory)
<1> DEFINE root == Files[i].root
<1>1. specs \in ReadModuleConfig(Files[i])
  BY DEF Read
<1>2. 2 \in Required(root, "schema_version", "int")
  BY <1>1 DEF ReadModuleConfig, kConfigSchemaVersion
<1>3. PICK items \in Required(root, "modules", "array") :
        specs \in ParseEntries(items, Files[i].directory)
  BY <1>1 DEF ReadModuleConfig
<1>4. items = Written(i)
  BY <1>3 DEF Required, Written
<1> QED
  BY <1>2, <1>3, <1>4 DEF Required

LEMMA ParsedEntries ==
  ASSUME NEW items, NEW directory, NEW specs \in ParseEntries(items, directory)
  PROVE  /\ IsInjective(Names(specs))
         /\ DOMAIN specs = DOMAIN items
         /\ \A k \in DOMAIN items : specs[k] \in ParseModuleConfigEntry(items[k], directory)
<1> DEFINE parsed == [k \in DOMAIN items |->
                        IF IsObject(items[k])
                        THEN ParseModuleConfigEntry(items[k], directory) ELSE {}]
           chosen == [k \in DOMAIN items |-> CHOOSE s \in parsed[k] : TRUE]
<1>1. /\ specs = chosen
      /\ \A k \in DOMAIN items : parsed[k] # {}
      /\ IsInjective([k \in DOMAIN specs |-> specs[k].name])
  BY DEF ParseEntries, ParseUniqueArray, UniqueArray
<1>2. \A k \in DOMAIN items : specs[k] \in parsed[k]
  BY <1>1
<1>3. \A k \in DOMAIN items : parsed[k] \subseteq ParseModuleConfigEntry(items[k], directory)
  OBVIOUS
<1> QED
  BY <1>1, <1>2, <1>3 DEF Names

LEMMA ParsedEntry ==
  ASSUME NEW x, NEW directory, NEW spec \in ParseModuleConfigEntry(x, directory)
  PROVE  /\ x.v["name"].t = "string" /\ spec.name = x.v["name"].v
         /\ spec.type = x.v["type"].v
         /\ spec.library_path = AbsolutePath(directory, x.v["library_path"].v)
         /\ spec.config = OwnConfig(x)
<1>1. PICK n \in RequiredString(x, "name"), t \in RequiredString(x, "type"),
           l \in RequiredString(x, "library_path"),
           c \in Optional(x, "config", "object", NoFields) :
        spec = [name |-> n, type |-> t, config |-> c,
                library_path |-> AbsolutePath(directory, l)]
  BY DEF ParseModuleConfigEntry
<1>2. /\ HasField(x, "name") /\ x.v["name"].t = "string"
      /\ n = x.v["name"].v /\ t = x.v["type"].v /\ l = x.v["library_path"].v
  BY DEF RequiredString, Required
<1>3. c = OwnConfig(x)
  BY <1>2 DEF Optional, Required, HasField, OwnConfig
<1> QED
  BY <1>1, <1>2, <1>3

LEMMA ReadFacts ==
  ASSUME NEW i \in DOMAIN Files, NEW specs \in Read[i]
  PROVE  /\ specs \in Seq(Specs)
         /\ IsInjective(Names(specs))
         /\ Names(specs) = [k \in DOMAIN Written(i) |-> Written(i)[k].v["name"].v]
<1>1. specs \in ParseEntries(Written(i), Files[i].directory)
  BY ReadIsParsed
<1>2. /\ IsInjective(Names(specs))
      /\ DOMAIN specs = DOMAIN Written(i)
      /\ \A k \in DOMAIN Written(i) :
           specs[k] \in ParseModuleConfigEntry(Written(i)[k], Files[i].directory)
  BY <1>1, ParsedEntries
<1>3. \A k \in DOMAIN Written(i) : specs[k].name = Written(i)[k].v["name"].v
  BY <1>2, ParsedEntry
<1> QED
  BY <1>2, <1>3, ManagerAssumption DEF Names

LEMMA SpecsAreTyped ==
  \A x \in Specs : x.name \in Modules /\ x.library_path \in Paths /\ x.config \in Configs
BY ManagerAssumption DEF Paths, Configs

-----------------------------------------------------------------------------
(* The invariant of the manager.                                           *)

LEMMA InitManagerInv == ManagerInit => ManagerInv
<1> SUFFICES ASSUME ManagerInit PROVE ManagerInv
  OBVIOUS
<1> USE DEF ManagerInit, ModuleInit
<1>1. <<>> \in Seq(Modules)
  BY EmptySeq
<1>2. TypeOK
  <2>1. <<>> \in Seq(Specs)
    BY EmptySeq
  <2> QED
    BY <1>1, <2>1 DEF TypeOK, ModuleTypeOK, Loops
<1>3. HooksMatchState
  BY DEF HooksMatchState, Absent
<1>4. Loaded = {}
  BY DEF Loaded
<1>5. RegistryMatchesModules
  BY <1>4, EmptyToSet DEF RegistryMatchesModules
<1>6. LoadInv /\ IdleInv
  BY DEF LoadInv, IdleInv
<1> QED
  BY <1>2, <1>3, <1>5, <1>6 DEF ManagerInv

LEMMA ManagerStepCases ==
  ASSUME [Next]_vars
  PROVE  \/ \E i \in DOMAIN Files : BeginLoad(i)
         \/ StageNext \/ StageFails \/ CommitBatch
         \/ \E m \in Modules, path \in Libraries : LoadModule(m, path)
         \/ \E op \in Loops : Begin(op)
         \/ InitNext \/ StartNext \/ StopNext \/ FiniNext
         \/ LoopDone \/ FiniDone
         \/ \E m \in Modules, ok \in BOOLEAN : Direct(m, ok)
         \/ UNCHANGED vars
BY DEF Next

(* An operation on the module a loop is at, or on one looked up.           *)
LEMMA ModuleStepKeepsInv ==
  ASSUME ManagerInv, NEW m \in Modules, m \in Loaded, NEW ok \in BOOLEAN,
         ModuleOp(m, ok), UNCHANGED <<registryVars, loadVars>>,
         call # "Load", call' # "Load",
         call' \in Loops \cup {"none", "Load"}, next' \in Nat, firstOk' \in BOOLEAN
  PROVE  ManagerInv'
<1>1. mstate[m] # Absent /\ ModuleTypeOK
  BY DEF Loaded, ManagerInv, TypeOK
<1>2. ModuleTypeOK' /\ Loaded' = Loaded
  BY <1>1, ModuleOpEffect
<1>3. HooksMatchState'
  BY <1>1, ModuleOpHooks DEF ManagerInv
<1> QED
  BY <1>2, <1>3
     DEF ManagerInv, TypeOK, RegistryMatchesModules, LoadInv, IdleInv, registryVars,
         loadVars

(* The module a loop is at is loaded.                                      *)
LEMMA LoopModule ==
  ASSUME ManagerInv, NEW op, InLoop(op)
  PROVE  order[next] \in Modules /\ order[next] \in Loaded
<1>1. order \in Seq(Modules) /\ next \in 1 .. Len(order)
  BY DEF ManagerInv, TypeOK, InLoop
<1>2. order[next] \in ToSet(order)
  BY <1>1, MemberIndex
<1> QED
  BY <1>1, <1>2, ElementOfSeq DEF ManagerInv, RegistryMatchesModules

LEMMA NextManagerInv ==
  ASSUME ManagerInv, [Next]_vars
  PROVE  ManagerInv'
<1>0. TypeOK /\ HooksMatchState /\ RegistryMatchesModules
  BY DEF ManagerInv
<1> USE DEF callVars
<1>1. ASSUME NEW i \in DOMAIN Files, BeginLoad(i) PROVE ManagerInv'
  <2>1. /\ batch' \in Read[i] /\ ToSet(Names(batch')) \cap Loaded = {}
        /\ call' = "Load" /\ loading' = i
        /\ UNCHANGED <<moduleVars, registryVars, next, firstOk, staged>>
    BY <1>1 DEF BeginLoad
  <2>2. batch' \in Seq(Specs)
    BY <2>1, ReadFacts
  <2>3. staged = 0
    BY <1>1 DEF BeginLoad, ManagerInv, IdleInv
  <2>4. LoadInv'
    BY <2>1, <2>3 DEF LoadInv, Loaded, moduleVars
  <2>5. TypeOK'
    BY <1>0, <2>1, <2>2 DEF TypeOK, ModuleTypeOK, moduleVars, registryVars
  <2> QED
    BY <1>0, <2>1, <2>4, <2>5
       DEF ManagerInv, IdleInv, HooksMatchState, RegistryMatchesModules, Loaded,
           moduleVars, registryVars
<1>2. CASE StageNext
  <2>1. /\ staged' = staged + 1 /\ Validated(batch[staged + 1])
        /\ call = "Load"
        /\ UNCHANGED <<moduleVars, registryVars, callVars, loading, batch>>
    BY <1>2 DEF StageNext, Staging, Validated
  <2>2. TypeOK'
    BY <1>0, <2>1 DEF TypeOK, ModuleTypeOK, moduleVars, registryVars
  <2>3. \A i \in 1 .. staged' : i \in 1 .. staged \/ i = staged + 1
    BY <1>0, <2>1 DEF TypeOK
  <2>4. LoadInv'
    BY <2>1, <2>3 DEF ManagerInv, LoadInv, Loaded, moduleVars
  <2> QED
    BY <1>0, <2>1, <2>2, <2>4
       DEF ManagerInv, IdleInv, HooksMatchState, RegistryMatchesModules, Loaded,
           moduleVars, registryVars
<1>3. CASE StageFails
  <2>1. <<>> \in Seq(Specs)
    BY EmptySeq
  <2> QED
    BY <1>0, <1>3, <2>1
       DEF StageFails, EndLoad, Return, ManagerInv, IdleInv, TypeOK, ModuleTypeOK,
           HooksMatchState, RegistryMatchesModules, LoadInv, Loaded,
           moduleVars, registryVars
<1>4. CASE CommitBatch
  <2>1. /\ loading \in DOMAIN Files /\ batch \in Read[loading]
        /\ ToSet(Names(batch)) \cap Loaded = {} /\ Store(batch)
    BY <1>4 DEF CommitBatch, ManagerInv, LoadInv
  <2>2. batch \in Seq(Specs) /\ IsInjective(Names(batch))
    BY <2>1, ReadFacts
  <2>3. /\ ModuleTypeOK' /\ HooksMatchState' /\ RegistryMatchesModules'
        /\ order' \in Seq(Modules)
        /\ library' \in [Modules -> SUBSET Paths]
        /\ config' \in [Modules -> SUBSET Configs]
        /\ services' \subseteq Modules
    BY <1>0, <2>1, <2>2, StoreEffect, SpecsAreTyped
  <2>4. <<>> \in Seq(Specs)
    BY EmptySeq
  <2>5. /\ call' = "none" /\ next' = 0 /\ firstOk' = TRUE
        /\ loading' = 0 /\ batch' = <<>> /\ staged' = 0
    BY <1>4 DEF CommitBatch, EndLoad, Return
  <2> QED
    BY <2>3, <2>4, <2>5 DEF ManagerInv, IdleInv, TypeOK, LoadInv
<1>5. ASSUME NEW m \in Modules, NEW path \in Libraries, LoadModule(m, path)
      PROVE  ManagerInv'
  <2> DEFINE spec == [name |-> m, library_path |-> path, config |-> NoFields]
  <2>1. /\ <<spec>> \in Seq({spec})
        /\ IsInjective(Names(<<spec>>)) /\ ToSet(Names(<<spec>>)) = {m}
    <3>1. Names(<<spec>>) = <<m>>
      BY DEF Names
    <3> QED
      BY <3>1, SingletonToSet
  <2>2. Store(<<spec>>) /\ ToSet(Names(<<spec>>)) \cap Loaded = {}
    BY <1>5, <2>1 DEF LoadModule
  <2>3. \A x \in {spec} : x.name \in Modules /\ x.library_path \in Paths /\ x.config \in Configs
    BY DEF Paths, Configs
  <2>4. /\ ModuleTypeOK' /\ HooksMatchState' /\ RegistryMatchesModules'
        /\ order' \in Seq(Modules)
        /\ library' \in [Modules -> SUBSET Paths]
        /\ config' \in [Modules -> SUBSET Configs]
        /\ services' \subseteq Modules
    <3> HIDE DEF spec
    <3> QED
      BY <1>0, <2>1, <2>2, <2>3, StoreEffect
  <2>5. UNCHANGED <<call, next, firstOk, loading, batch, staged>> /\ call # "Load"
    BY <1>5 DEF LoadModule, loadVars
  <2> QED
    BY <1>0, <2>4, <2>5 DEF ManagerInv, IdleInv, TypeOK, LoadInv
<1>6. ASSUME NEW op \in Loops, Begin(op) PROVE ManagerInv'
  <2>1. Len(order) \in Nat
    BY <1>0, LenProperties DEF TypeOK
  <2> QED
    BY <1>0, <1>6, <2>1
       DEF Begin, ManagerInv, TypeOK, ModuleTypeOK, HooksMatchState,
           RegistryMatchesModules, LoadInv, IdleInv, Loaded, Loops, moduleVars,
           registryVars, loadVars
<1>7. ASSUME NEW op \in Loops, InLoop(op), NEW ok \in BOOLEAN,
             ModuleOp(order[next], ok), Forward(ok) \/ Backward(ok),
             UNCHANGED <<registryVars, loadVars>>
      PROVE  ManagerInv'
  <2>1. order[next] \in Modules /\ order[next] \in Loaded
    BY <1>7, LoopModule
  <2>2. call = op /\ next \in Nat \ {0}
    BY <1>0, <1>7 DEF InLoop, TypeOK
  <2>3. /\ call # "Load" /\ call' # "Load"
        /\ call' \in Loops \cup {"none", "Load"}
        /\ next' \in Nat /\ firstOk' \in BOOLEAN
    <3>1. /\ call' \in {call, "none"}
          /\ next' \in {next + 1, next - 1, 0}
      BY <1>7 DEF Forward, Backward, Return
    <3>2. firstOk' \in BOOLEAN
      BY <1>0, <1>7, Zenon DEF Forward, Backward, Return, TypeOK
    <3>3. next' \in Nat
      BY <2>2, <3>1
    <3> QED
      BY <2>2, <3>1, <3>2, <3>3 DEF Loops
  <2>4. PICK m \in Modules : m = order[next]
    BY <2>1
  <2>5. ModuleOp(m, ok)
    BY <1>7, <2>4
       DEF ModuleOp, Init, Start, Stop, Fini, Refused, FiniHooks
  <2>6. m \in Loaded
    BY <2>1, <2>4
  <2> QED
    BY <1>7, <2>3, <2>5, <2>6, ModuleStepKeepsInv
<1>8. CASE InitNext \/ StartNext \/ StopNext \/ FiniNext
  BY <1>7, <1>8 DEF InitNext, StartNext, StopNext, FiniNext, ModuleOp, Loops
<1>9. CASE LoopDone
  BY <1>0, <1>9
     DEF LoopDone, Return, ManagerInv, TypeOK, ModuleTypeOK, HooksMatchState,
         RegistryMatchesModules, LoadInv, IdleInv, Loaded, moduleVars, registryVars,
         loadVars
<1>10. CASE FiniDone
  <2>1. /\ mstate' = [m \in Modules |-> Absent]
        /\ owed' = [m \in Modules |-> {}]
        /\ ctx' = [m \in Modules |-> FALSE]
        /\ order' = <<>>
        /\ library' = [m \in Modules |-> {}]
        /\ config' = [m \in Modules |-> {}]
        /\ services' = {}
        /\ call' = "none" /\ next' = 0 /\ firstOk' = TRUE
        /\ UNCHANGED <<loading, batch, staged>> /\ call = "Fini"
    BY <1>10 DEF FiniDone, Return, loadVars
  <2>2. Loaded' = {}
    BY <2>1 DEF Loaded
  <2>3. <<>> \in Seq(Modules)
    BY EmptySeq
  <2>4. TypeOK'
    BY <1>0, <2>1, <2>3 DEF TypeOK, ModuleTypeOK
  <2>5. HooksMatchState'
    BY <2>1 DEF HooksMatchState, Absent
  <2>6. RegistryMatchesModules'
    BY <2>1, <2>2, EmptyToSet DEF RegistryMatchesModules
  <2> QED
    BY <2>1, <2>4, <2>5, <2>6 DEF ManagerInv, LoadInv, IdleInv
<1>11. ASSUME NEW m \in Modules, NEW ok \in BOOLEAN, Direct(m, ok)
       PROVE  ManagerInv'
  <2>1. /\ m \in Loaded /\ ModuleOp(m, ok)
        /\ UNCHANGED <<registryVars, loadVars, call, next, firstOk>>
        /\ call = "none"
    BY <1>11 DEF Direct, ModuleOp
  <2>2. /\ call # "Load" /\ call' # "Load"
        /\ call' \in Loops \cup {"none", "Load"}
        /\ next' \in Nat /\ firstOk' \in BOOLEAN
    BY <1>0, <2>1 DEF TypeOK
  <2> QED
    BY <2>1, <2>2, ModuleStepKeepsInv
<1>12. CASE UNCHANGED vars
  BY <1>0, <1>12
     DEF vars, ManagerInv, TypeOK, ModuleTypeOK, HooksMatchState,
         RegistryMatchesModules, LoadInv, IdleInv, Loaded, moduleVars, registryVars,
         loadVars
<1> QED
  BY <1>1, <1>2, <1>3, <1>4, <1>5, <1>6, <1>8, <1>9, <1>10, <1>11, <1>12,
     ManagerStepCases

-----------------------------------------------------------------------------
(* The invariant of the loops.                                             *)

LEMMA ModuleOpResult ==
  ASSUME ModuleTypeOK, NEW m \in Modules, mstate[m] # Absent,
         NEW ok \in BOOLEAN
  PROVE  /\ Init(m, ok) /\ ok => mstate'[m] = "Inited"
         /\ Start(m, ok) /\ ok => mstate'[m] = "Started"
         /\ Stop(m, ok) /\ ok => mstate'[m] = "Stopped"
         /\ Fini(m, ok) => mstate'[m] = "Fini"
<1> USE DEF ModuleTypeOK, ModuleState, Absent
<1>1. /\ Init(m, ok) /\ ok => mstate'[m] = "Inited"
      /\ Start(m, ok) /\ ok => mstate'[m] = "Started"
      /\ Stop(m, ok) /\ ok => mstate'[m] = "Stopped"
  BY DEF Init, Start, Stop, Refused
<1>2. Fini(m, ok) => mstate'[m] = "Fini"
  BY DEF Fini, Refused, IsValidTransition, ValidTransitions, moduleVars
<1> QED
  BY <1>1, <1>2

LEMMA LoopStepLoaded ==
  ASSUME ManagerInv, InitNext \/ StartNext \/ StopNext \/ FiniNext
  PROVE  Loaded' = Loaded
<1>1. PICK ok \in BOOLEAN : /\ ModuleOp(order[next], ok)
                            /\ \E op \in Loops : InLoop(op)
  BY DEF InitNext, StartNext, StopNext, FiniNext, ModuleOp, Loops
<1>2. order[next] \in Modules /\ order[next] \in Loaded
  BY <1>1, LoopModule
<1>3. PICK m \in Modules : m = order[next]
  BY <1>2
<1>4. ModuleOp(m, ok)
  BY <1>1, <1>3 DEF ModuleOp, Init, Start, Stop, Fini, Refused, FiniHooks
<1>5. mstate[m] # Absent /\ ModuleTypeOK
  BY <1>2, <1>3 DEF Loaded, ManagerInv, TypeOK
<1> QED
  BY <1>4, <1>5, ModuleOpEffect

(* The iteration of a loop: what it does to the module it is at, and where *)
(* it goes.                                                                *)
Iterates(ok) ==
  /\ InLoop(call)
  /\ ok \/ call = "Fini" => mstate'[order[next]] = Target(call)
  /\ \A m \in Modules \ {order[next]} : mstate'[m] = mstate[m] /\ owed'[m] = owed[m]
  /\ UNCHANGED order
  /\ \/ call \in {"Init", "Start"} /\ Forward(ok)
     \/ call \in {"Stop", "Fini"} /\ Backward(ok)

LEMMA LoopStepIterates ==
  ASSUME ManagerInv, InitNext \/ StartNext \/ StopNext \/ FiniNext
  PROVE  \E ok \in BOOLEAN : Iterates(ok)
<1>1. ASSUME NEW op \in Loops, InLoop(op), NEW ok \in BOOLEAN,
             \/ op = "Init" /\ Init(order[next], ok)
             \/ op = "Start" /\ Start(order[next], ok)
             \/ op = "Stop" /\ Stop(order[next], ok)
             \/ op = "Fini" /\ Fini(order[next], ok)
      PROVE  /\ ok \/ op = "Fini" => mstate'[order[next]] = Target(op)
             /\ \A m \in Modules \ {order[next]} :
                  mstate'[m] = mstate[m] /\ owed'[m] = owed[m]
  <2>1. order[next] \in Modules /\ order[next] \in Loaded
    BY <1>1, LoopModule
  <2>2. PICK m \in Modules : m = order[next]
    BY <2>1
  <2>3. mstate[m] # Absent /\ ModuleTypeOK
    BY <2>1, <2>2 DEF Loaded, ManagerInv, TypeOK
  <2>4. \/ op = "Init" /\ Init(m, ok)
        \/ op = "Start" /\ Start(m, ok)
        \/ op = "Stop" /\ Stop(m, ok)
        \/ op = "Fini" /\ Fini(m, ok)
    BY <1>1, <2>2 DEF Init, Start, Stop, Fini, Refused, FiniHooks
  <2>5. /\ ok \/ op = "Fini" => mstate'[m] = Target(op)
        /\ \A n \in Modules \ {m} : mstate'[n] = mstate[n] /\ owed'[n] = owed[n]
    BY <2>3, <2>4, ModuleOpResult, ModuleOpEffect DEF Target, ModuleOp
  <2>6. mstate'[order[next]] = mstate'[m]
    BY <2>2
  <2> QED
    BY <2>2, <2>5, <2>6
<1> USE DEF InLoop, Loops, Iterates, registryVars
<1>2. CASE InitNext BY <1>1, <1>2 DEF InitNext
<1>3. CASE StartNext BY <1>1, <1>3 DEF StartNext
<1>4. CASE StopNext BY <1>1, <1>4 DEF StopNext
<1>5. CASE FiniNext BY <1>1, <1>5 DEF FiniNext
<1> QED
  BY <1>2, <1>3, <1>4, <1>5

LEMMA IterationKeepsLoopInv ==
  ASSUME ManagerInv, LoopInv, NEW ok \in BOOLEAN, Iterates(ok)
  PROVE  LoopInv'
<1>1. /\ order \in Seq(Modules) /\ order' = order /\ IsInjective(order)
      /\ next \in 1 .. Len(order) /\ Len(order) \in Nat
  BY LenProperties
     DEF ManagerInv, TypeOK, RegistryMatchesModules, Iterates, InLoop
<1>2. ASSUME NEW j \in 1 .. Len(order), j # next
      PROVE  mstate'[order[j]] = mstate[order[j]]
  <2>1. order[j] \in Modules /\ order[j] # order[next]
    BY <1>1, <1>2, ElementOfSeq DEF IsInjective
  <2> QED
    BY <2>1 DEF Iterates
<1>3. CASE call \in {"Init", "Start"} /\ Forward(ok)
  <2>1. CASE ~ok
    BY <1>3, <2>1 DEF Forward, Return, LoopInv
  <2>2. CASE ok
    <3>1. next' = next + 1 /\ call' = call
      BY <1>3, <2>2 DEF Forward
    <3>2. mstate'[order[next]] = Target(call)
      BY <2>2 DEF Iterates
    <3>3. \A j \in 1 .. next' - 1 : mstate'[order[j]] = Target(call)
      BY <1>1, <1>2, <1>3, <3>1, <3>2 DEF LoopInv
    <3> QED
      BY <1>1, <1>3, <3>1, <3>3 DEF LoopInv, Target
  <2> QED
    BY <2>1, <2>2
<1>4. CASE call \in {"Stop", "Fini"} /\ Backward(ok)
  <2>1. next' = next - 1 /\ call' = call
    BY <1>4 DEF Backward
  <2>2. firstOk' => firstOk /\ ok
    BY <1>4 DEF Backward
  <2>3. ASSUME firstOk' \/ call = "Fini",
               NEW j \in next' + 1 .. Len(order)
        PROVE  mstate'[order[j]] = Target(call)
    <3>1. CASE j = next
      BY <2>2, <2>3, <3>1 DEF Iterates
    <3>2. CASE j # next
      <4>1. j \in next + 1 .. Len(order)
        BY <1>1, <2>1, <3>2
      <4>2. mstate[order[j]] = Target(call)
        BY <1>4, <2>2, <2>3, <4>1 DEF LoopInv
      <4> QED
        BY <1>1, <1>2, <3>2, <4>1, <4>2
    <3> QED
      BY <3>1, <3>2
  <2>4. next' \in 0 .. Len(order)
    BY <1>1, <2>1
  <2> QED
    BY <1>1, <1>4, <2>1, <2>3, <2>4 DEF LoopInv, Target
<1> QED
  BY <1>3, <1>4 DEF Iterates

LEMMA LoadModuleEffect ==
  ASSUME NEW m \in Modules, NEW path \in Libraries, LoadModule(m, path)
  PROVE  /\ order' = order \o <<m>>
         /\ mstate' = [n \in Modules |-> IF n = m THEN "Created" ELSE mstate[n]]
<1> DEFINE spec == [name |-> m, library_path |-> path, config |-> NoFields]
<1>1. /\ order' = order \o Names(<<spec>>)
      /\ mstate' = [n \in Modules |-> IF Of(<<spec>>, n) # {} THEN "Created"
                                                             ELSE mstate[n]]
  BY DEF LoadModule, Store
<1>2. Names(<<spec>>) = <<m>>
  BY DEF Names
<1>3. \A n : Of(<<spec>>, n) # {} <=> n = m
  BY DEF Of
<1> QED
  BY <1>1, <1>2, <1>3

LEMMA NextLoopInv ==
  ASSUME ManagerInv, LoopInv, [Next]_vars
  PROVE  LoopInv'
<1>1. order \in Seq(Modules) /\ Len(order) \in Nat
  BY LenProperties DEF ManagerInv, TypeOK
<1>2. CASE call' \notin Loops
  BY <1>2 DEF LoopInv, Loops
<1>3. ASSUME NEW m \in Modules, NEW path \in Libraries, LoadModule(m, path),
             call' \in Loops
      PROVE  LoopInv'
  <2>1. /\ order' = order \o <<m>>
        /\ mstate' = [n \in Modules |-> IF n = m THEN "Created" ELSE mstate[n]]
        /\ m \notin Loaded /\ call \in {"Init", "Start"}
        /\ UNCHANGED <<call, next, firstOk>>
    BY <1>3, LoadModuleEffect DEF LoadModule, callVars, Loops
  <2>2. /\ Len(order') = Len(order) + 1
        /\ \A j \in 1 .. Len(order) : order'[j] = order[j]
    BY <1>1, <2>1, ConcatProperties
  <2>3. ASSUME NEW j \in 1 .. Len(order)
        PROVE  mstate'[order'[j]] = mstate[order[j]]
    <3>1. order[j] \in Modules /\ order[j] \in ToSet(order)
      BY <1>1, ElementOfSeq, MemberIndex
    <3>2. order[j] # m
      BY <2>1, <3>1 DEF ManagerInv, RegistryMatchesModules
    <3> QED
      BY <2>1, <2>2, <3>1, <3>2
  <2>4. /\ next \in 1 .. Len(order) + 1
        /\ \A j \in 1 .. next - 1 : mstate[order[j]] = Target(call)
    BY <2>1 DEF LoopInv
  <2>5. ASSUME NEW j \in 1 .. next' - 1
        PROVE  mstate'[order'[j]] = Target(call')
    <3>1. Target(call') = Target(call)
      BY <2>1 DEF Target
    <3>2. j \in 1 .. next - 1 /\ j \in 1 .. Len(order)
      BY <1>1, <2>1, <2>4
    <3> QED
      BY <2>3, <2>4, <3>1, <3>2
  <2> QED
    BY <1>1, <2>1, <2>2, <2>4, <2>5 DEF LoopInv
<1>4. ASSUME NEW op \in Loops, Begin(op) PROVE LoopInv'
  <2>1. /\ call' = op /\ order' = order /\ mstate' = mstate
        /\ next' = IF op \in {"Init", "Start"} THEN 1 ELSE Len(order)
    BY <1>4 DEF Begin, registryVars, moduleVars
  <2> QED
    BY <1>1, <2>1 DEF LoopInv, Loops
<1>5. CASE InitNext \/ StartNext \/ StopNext \/ FiniNext
  BY <1>5, LoopStepIterates, IterationKeepsLoopInv
<1>6. CASE UNCHANGED vars
  BY <1>6
     DEF vars, moduleVars, registryVars, callVars, LoopInv, Target
<1>7. CASE call' \in Loops
  <2>1. ASSUME NEW i \in DOMAIN Files, BeginLoad(i) PROVE FALSE
    BY <1>7, <2>1 DEF BeginLoad, Loops
  <2>2. ~StageNext /\ ~StageFails /\ ~CommitBatch
    BY <1>7 DEF StageNext, StageFails, CommitBatch, Staging, EndLoad, Return, callVars,
                  Loops
  <2>3. ~LoopDone /\ ~FiniDone
    BY <1>7 DEF LoopDone, FiniDone, Return, Loops
  <2>4. ASSUME NEW m \in Modules, NEW ok \in BOOLEAN, Direct(m, ok)
        PROVE  FALSE
    BY <1>7, <2>4 DEF Direct, callVars, Loops
  <2> QED
    BY <1>3, <1>4, <1>5, <1>6, <1>7, <2>1, <2>2, <2>3, <2>4, ManagerStepCases
<1> QED
  BY <1>2, <1>7

-----------------------------------------------------------------------------
(* The theorems.                                                           *)

THEOREM ManagerCorrect == Spec => [](ManagerInv /\ LoopInv)
<1>1. ManagerInit => LoopInv
  BY DEF ManagerInit, LoopInv
<1> QED
  BY <1>1, InitManagerInv, NextManagerInv, NextLoopInv, PTL DEF Spec

(* Every variable of the manager keeps its type.                           *)
THEOREM ManagerTypeCorrect == Spec => []TypeOK
<1>1. ManagerInv => TypeOK
  BY DEF ManagerInv
<1> QED
  BY <1>1, ManagerCorrect, PTL

(* Whatever fails, a module owes OnStop exactly while it is Started and    *)
(* OnFini exactly from OnInit to OnFini, with a context all the while.     *)
THEOREM HooksFollowState == Spec => []HooksMatchState
<1>1. ManagerInv => HooksMatchState
  BY DEF ManagerInv
<1> QED
  BY <1>1, ManagerCorrect, PTL

(* The registry, the order and the configurations never name an instance   *)
(* that is not loaded, nor miss one that is.                               *)
THEOREM RegistryIsExact == Spec => []RegistryMatchesModules
<1>1. ManagerInv => RegistryMatchesModules
  BY DEF ManagerInv
<1> QED
  BY <1>1, ManagerCorrect, PTL

(* Each step does what the properties of the loops say.                    *)

LEMMA FiniDoneClean ==
  ASSUME ManagerInv, LoopInv, FiniDone, NEW m \in Loaded
  PROVE  owed[m] = {}
<1>1. ModuleTypeOK /\ order \in Seq(Modules) /\ Len(order) \in Nat
  BY LenProperties DEF ManagerInv, TypeOK
<1>2. next = 0
  BY <1>1 DEF FiniDone, LoopInv, InLoop
<1>3. m \in ToSet(order) /\ m \in Modules
  BY DEF ManagerInv, RegistryMatchesModules, Loaded
<1>4. PICK j \in 1 .. Len(order) : order[j] = m
  BY <1>1, <1>3, MemberIndex
<1>5. mstate[m] = "Fini"
  BY <1>1, <1>2, <1>4 DEF LoopInv, FiniDone, Target
<1> QED
  BY <1>1, <1>3, <1>5 DEF ManagerInv, HooksMatchState, ModuleTypeOK

(* Fini destroys the instances only when all of them owe nothing.          *)
THEOREM DestroysClean == Spec => DestroyedClean
<1> DEFINE Clean == \A m \in Modules :
             mstate[m] # Absent /\ mstate'[m] = Absent => owed[m] = {}
<1>1. ASSUME ManagerInv, LoopInv, [Next]_vars PROVE [Clean]_vars
  <2>0. ModuleTypeOK /\ TypeOK
    BY <1>1 DEF ManagerInv, TypeOK
  <2>1. ASSUME Loaded \subseteq Loaded' PROVE Clean
    BY <2>1 DEF Loaded
  <2>2. CASE FiniDone
    BY <1>1, <2>2, FiniDoneClean DEF Loaded
  <2>3. CASE UNCHANGED moduleVars
    BY <2>1, <2>3 DEF moduleVars, Loaded
  <2>4. CASE InitNext \/ StartNext \/ StopNext \/ FiniNext
    BY <1>1, <2>1, <2>4, LoopStepLoaded
  <2>5. ASSUME NEW m \in Modules, NEW ok \in BOOLEAN, Direct(m, ok)
        PROVE  Clean
    <3>1. mstate[m] # Absent /\ ModuleOp(m, ok)
      BY <2>5 DEF Direct, Loaded, ModuleOp
    <3> QED
      BY <2>0, <2>1, <3>1, ModuleOpEffect
  <2>6. CASE CommitBatch \/ \E m \in Modules, path \in Libraries : LoadModule(m, path)
    <3>1. PICK s : Store(s)
      BY <2>6 DEF CommitBatch, LoadModule
    <3> QED
      BY <2>1, <3>1, StateNames DEF Store, Loaded
  <2>7. \/ CommitBatch \/ \E m \in Modules, path \in Libraries : LoadModule(m, path)
        \/ InitNext \/ StartNext \/ StopNext \/ FiniNext \/ FiniDone
        \/ \E m \in Modules, ok \in BOOLEAN : Direct(m, ok)
        \/ UNCHANGED moduleVars
    BY <1>1, ManagerStepCases
       DEF BeginLoad, StageNext, StageFails, Begin, LoopDone, vars
  <2> QED
    BY <2>2, <2>3, <2>4, <2>5, <2>6, <2>7
<1> QED
  BY <1>1, ManagerCorrect, PTL DEF DestroyedClean, Spec

(* Fini reaches a module only when those loaded after it owe nothing.      *)
THEOREM FinishesInReverse == Spec => FiniInReverse
<1> DEFINE Mirror == \A i \in DOMAIN order :
             call = "Fini" /\ owed'[order[i]] # owed[order[i]]
             => \A j \in i + 1 .. Len(order) : owed[order[j]] = {}
<1>1. ASSUME ManagerInv, LoopInv, [Next]_vars PROVE [Mirror]_vars
  <2>1. ASSUME NEW i \in DOMAIN order, call = "Fini",
               owed'[order[i]] # owed[order[i]],
               NEW j \in i + 1 .. Len(order)
        PROVE  owed[order[j]] = {}
    <3>1. /\ order \in Seq(Modules) /\ Len(order) \in Nat /\ ModuleTypeOK
          /\ DOMAIN order = 1 .. Len(order)
      BY <1>1, LenProperties DEF ManagerInv, TypeOK
    <3>2. /\ i \in 1 .. Len(order) /\ j \in 1 .. Len(order)
          /\ order[i] \in Modules /\ order[j] \in Modules
      BY <2>1, <3>1, ElementOfSeq
    <3>3. order[i] \in Loaded /\ order[j] \in Loaded
      BY <1>1, <3>1, <3>2, MemberIndex DEF ManagerInv, RegistryMatchesModules
    <3>4. CASE FiniDone
      BY <1>1, <3>3, <3>4, FiniDoneClean
    <3>5. CASE FiniNext
      <4>1. PICK ok \in BOOLEAN : Iterates(ok)
        BY <1>1, <3>5, LoopStepIterates
      <4>2. order[i] = order[next] /\ next \in 1 .. Len(order)
        BY <2>1, <3>2, <4>1 DEF Iterates, InLoop
      <4>3. i = next
        BY <1>1, <3>1, <3>2, <4>2
           DEF ManagerInv, RegistryMatchesModules, IsInjective
      <4>4. mstate[order[j]] = "Fini"
        BY <1>1, <2>1, <4>3 DEF LoopInv, Target
      <4> QED
        BY <1>1, <3>1, <3>2, <4>4 DEF ManagerInv, HooksMatchState, ModuleTypeOK
    <3>6. FiniNext \/ FiniDone
      <4>1. owed' # owed
        BY <2>1
      <4> QED
        BY <1>1, <2>1, <4>1, ManagerStepCases
           DEF BeginLoad, StageNext, StageFails, CommitBatch, LoadModule, Begin,
               InitNext, StartNext, StopNext, InLoop, LoopDone, Direct, vars,
               moduleVars
    <3> QED
      BY <3>4, <3>5, <3>6
  <2> QED
    BY <2>1
<1> QED
  BY <1>1, ManagerCorrect, PTL DEF FiniInReverse, Spec

(* Start reaches a module only when those loaded before it are started.    *)
THEOREM StartsOneByOne == Spec => StartsInOrder
<1> DEFINE InOrder == \A i \in DOMAIN order :
             call = "Start" /\ mstate[order[i]] # "Started"
               /\ mstate'[order[i]] = "Started"
             => \A j \in 1 .. i - 1 : mstate[order[j]] = "Started"
<1>1. ASSUME ManagerInv, LoopInv, [Next]_vars PROVE [InOrder]_vars
  <2>1. ASSUME NEW i \in DOMAIN order, call = "Start",
               mstate[order[i]] # "Started", mstate'[order[i]] = "Started",
               NEW j \in 1 .. i - 1
        PROVE  mstate[order[j]] = "Started"
    <3>1. /\ order \in Seq(Modules) /\ Len(order) \in Nat
          /\ DOMAIN order = 1 .. Len(order)
      BY <1>1, LenProperties DEF ManagerInv, TypeOK
    <3>2. i \in 1 .. Len(order) /\ order[i] \in Modules
      BY <2>1, <3>1, ElementOfSeq
    <3>3. CASE StartNext
      <4>1. PICK ok \in BOOLEAN : Iterates(ok)
        BY <1>1, <3>3, LoopStepIterates
      <4>2. order[i] = order[next] /\ next \in 1 .. Len(order)
        BY <2>1, <3>2, <4>1 DEF Iterates, InLoop
      <4>3. i = next
        BY <1>1, <3>1, <3>2, <4>2
           DEF ManagerInv, RegistryMatchesModules, IsInjective
      <4> QED
        BY <1>1, <2>1, <4>3 DEF LoopInv, Target
    <3>4. CASE \E m \in Modules, path \in Libraries : LoadModule(m, path)
      <4>1. PICK m \in Modules :
              mstate' = [n \in Modules |-> IF n = m THEN "Created" ELSE mstate[n]]
        BY <3>4, LoadModuleEffect
      <4> QED
        BY <2>1, <3>2, <4>1
    <3>5. StartNext \/ \E m \in Modules, path \in Libraries : LoadModule(m, path)
      <4>1. mstate' # mstate
        BY <2>1
      <4> QED
        BY <1>1, <2>1, <4>1, ManagerStepCases
           DEF BeginLoad, StageNext, StageFails, CommitBatch, Begin,
               InitNext, FiniNext, FiniDone, StopNext, InLoop, LoopDone, Direct,
               vars, moduleVars
    <3> QED
      BY <3>3, <3>4, <3>5
  <2> QED
    BY <2>1
<1> QED
  BY <1>1, ManagerCorrect, PTL DEF StartsInOrder, Spec

(* A configuration is loaded as a whole or not at all.                     *)
THEOREM LoadsAllOrNothing == Spec => LoadAllOrNothing
<1> DEFINE Whole == order' # order =>
             \/ order' = <<>>
             \/ /\ call = "Load"
                /\ order' = order \o [i \in DOMAIN Entries |-> Entries[i].v["name"].v]
             \/ call # "Load" /\ \E m \in Modules : order' = Append(order, m)
<1>1. ASSUME ManagerInv, [Next]_vars PROVE [Whole]_vars
  <2>1. CASE CommitBatch
    <3>1. call = "Load" /\ order' = order \o Names(batch)
      BY <2>1 DEF CommitBatch, Store
    <3>2. Names(batch) = [i \in DOMAIN Entries |-> Entries[i].v["name"].v]
      <4>1. loading \in DOMAIN Files /\ batch \in Read[loading]
        BY <1>1, <3>1 DEF ManagerInv, LoadInv
      <4> QED
        BY <4>1, ReadFacts DEF Entries, Written
    <3> QED
      BY <3>1, <3>2
  <2>2. ASSUME NEW m \in Modules, NEW path \in Libraries, LoadModule(m, path)
        PROVE  Whole
    <3>1. order' = order \o <<m>> /\ call # "Load"
      BY <2>2, LoadModuleEffect DEF LoadModule
    <3>2. order \o <<m>> = Append(order, m)
      <4>1. order \in Seq(Modules)
        BY <1>1 DEF ManagerInv, TypeOK
      <4> QED
        BY <4>1, AppendIsConcat
    <3> QED
      BY <3>1, <3>2
  <2>3. CASE FiniDone
    BY <2>3 DEF FiniDone
  <2>4. \/ CommitBatch \/ FiniDone
        \/ \E m \in Modules, path \in Libraries : LoadModule(m, path)
        \/ UNCHANGED order
    BY <1>1, ManagerStepCases
       DEF BeginLoad, StageNext, StageFails, Begin, InitNext, StartNext,
           StopNext, FiniNext, LoopDone, Direct, vars, registryVars
  <2> QED
    BY <2>1, <2>2, <2>3, <2>4
<1> QED
  BY <1>1, ManagerCorrect, PTL DEF LoadAllOrNothing, Spec

(* A module that LoadModules adds is what one entry of the file says. The  *)
(* entries of the batch are those of the file, and all were validated      *)
(* before the batch is committed.                                          *)
THEOREM LoadsAsWritten == Spec => LoadedAsWritten
<1> DEFINE Says(m) ==
             \E i \in DOMAIN Entries :
               /\ Files[loading].root.v["schema_version"].v = 2
               /\ \A j \in DOMAIN Entries : Entries[j].v["name"].v = m <=> j = i
               /\ \E path \in library'[m] :
                    /\ NamesLibrary(Entries[i], Files[loading].directory, path)
                    /\ TypeOf[path] = Entries[i].v["type"].v
               /\ config'[m] = {OwnConfig(Entries[i])}
           AsSaid == \A m \in Loaded' \ Loaded : call = "Load" => Says(m)
<1>1. ASSUME ManagerInv, [Next]_vars PROVE [AsSaid]_vars
  <2>1. ASSUME CommitBatch, NEW m \in Loaded' \ Loaded PROVE Says(m)
    <3> DEFINE directory == Files[loading].directory
    <3>1. /\ loading \in DOMAIN Files /\ batch \in Read[loading]
          /\ \A i \in 1 .. Len(batch) : Validated(batch[i])
          /\ Store(batch)
      BY <1>1, <2>1 DEF CommitBatch, ManagerInv, LoadInv
    <3>2. /\ Files[loading].root.v["schema_version"].v = 2
          /\ batch \in ParseEntries(Entries, directory)
      BY <3>1, ReadIsParsed DEF Entries, Written
    <3>3. /\ IsInjective(Names(batch))
          /\ DOMAIN batch = DOMAIN Entries
          /\ \A k \in DOMAIN Entries :
               batch[k] \in ParseModuleConfigEntry(Entries[k], directory)
      BY <3>2, ParsedEntries
    <3>4. \A k \in DOMAIN Entries :
            /\ batch[k].name = Entries[k].v["name"].v
            /\ batch[k].type = Entries[k].v["type"].v
            /\ batch[k].library_path = AbsolutePath(directory, Entries[k].v["library_path"].v)
            /\ batch[k].config = OwnConfig(Entries[k])
      BY <3>3, ParsedEntry
    <3>5. m \in Modules /\ Of(batch, m) # {}
      BY <2>1, <3>1 DEF Loaded, Store
    <3>6. PICK i \in DOMAIN batch : batch[i].name = m
      BY <3>5 DEF Of
    <3>7. \A j \in DOMAIN batch : batch[j].name = m <=> j = i
      BY <3>3, <3>6 DEF Names, IsInjective
    <3>8. Of(batch, m) = {i}
      BY <3>7 DEF Of
    <3>9. /\ library'[m] = {batch[i].library_path}
          /\ config'[m] = {batch[i].config}
      BY <3>1, <3>5, <3>8 DEF Store
    <3>10. Validated(batch[i])
      <4>1. batch \in Seq(Specs)
        BY <3>1, ReadFacts
      <4>2. DOMAIN batch = 1 .. Len(batch)
        BY <4>1, LenProperties
      <4> QED
        BY <3>1, <3>6, <4>2
    <3>11. NamesLibrary(Entries[i], directory, batch[i].library_path)
      BY <3>3, <3>4, <3>6 DEF NamesLibrary, AbsolutePath, IsAbsolute, Join
    <3>12. TypeOf[batch[i].library_path] = Entries[i].v["type"].v
      BY <3>3, <3>4, <3>6, <3>10 DEF Validated
    <3>13. \E path \in library'[m] :
             /\ NamesLibrary(Entries[i], directory, path)
             /\ TypeOf[path] = Entries[i].v["type"].v
      BY <3>9, <3>11, <3>12
    <3>14. config'[m] = {OwnConfig(Entries[i])}
      BY <3>3, <3>4, <3>6, <3>9
    <3>15. \A j \in DOMAIN Entries : Entries[j].v["name"].v = m <=> j = i
      BY <3>3, <3>4, <3>7
    <3> QED
      BY <3>2, <3>3, <3>6, <3>13, <3>14, <3>15
  <2>2. CommitBatch \/ call # "Load" \/ UNCHANGED mstate
    BY <1>1, ManagerStepCases
       DEF BeginLoad, StageNext, StageFails, LoadModule, Begin, InitNext,
           StartNext, StopNext, FiniNext, InLoop, LoopDone, FiniDone, Direct,
           vars, moduleVars, Loops
  <2>3. CASE UNCHANGED mstate
    BY <2>3 DEF Loaded
  <2> QED
    BY <2>1, <2>2, <2>3
<1> QED
  BY <1>1, ManagerCorrect, PTL DEF LoadedAsWritten, Spec

(* A loop that reports success left every loaded module where it brings it.*)
THEOREM OkIsForAll == Spec => OkMeansAll
<1> DEFINE All == /\ ReportsOk("Init") => \A m \in Loaded : mstate[m] = "Inited"
                  /\ ReportsOk("Start") => \A m \in Loaded : mstate[m] = "Started"
                  /\ ReportsOk("Stop") => \A m \in Loaded : mstate[m] = "Stopped"
<1>1. ASSUME ManagerInv, LoopInv PROVE All
  <2>1. ASSUME NEW op \in {"Init", "Start", "Stop"}, ReportsOk(op), NEW m \in Loaded
        PROVE  mstate[m] = Target(op)
    <3>1. order \in Seq(Modules) /\ Len(order) \in Nat
      BY <1>1, LenProperties DEF ManagerInv, TypeOK
    <3>2. m \in ToSet(order)
      BY <1>1 DEF ManagerInv, RegistryMatchesModules
    <3>3. PICK j \in 1 .. Len(order) : order[j] = m
      BY <3>1, <3>2, MemberIndex
    <3>4. call = op /\ firstOk /\ next \notin 1 .. Len(order)
      BY <2>1 DEF ReportsOk, InLoop
    <3>5. CASE op \in {"Init", "Start"}
      <4>1. next = Len(order) + 1
        <5>1. call \in {"Init", "Start"}
          BY <3>4, <3>5
        <5>2. next \in 1 .. Len(order) + 1
          BY <1>1, <5>1 DEF LoopInv
        <5> QED
          BY <3>1, <3>4, <5>2
      <4> QED
        BY <1>1, <3>1, <3>3, <3>4, <3>5, <4>1 DEF LoopInv
    <3>6. CASE op = "Stop"
      <4>1. next = 0
        BY <1>1, <3>1, <3>4, <3>6 DEF LoopInv
      <4> QED
        BY <1>1, <3>1, <3>3, <3>4, <3>6, <4>1 DEF LoopInv
    <3> QED
      BY <3>5, <3>6
  <2> QED
    BY <2>1 DEF Target
<1> QED
  BY <1>1, ManagerCorrect, PTL DEF OkMeansAll
=============================================================================

----------------------------- MODULE ModuleBase -----------------------------
(***************************************************************************)
(* ModuleBase: the life cycle every plugin module inherits. Init, Start,   *)
(* Stop and Fini test the transition table, call the module's hook, and    *)
(* move the state when the hook succeeds; Fini runs the hooks that are     *)
(* still owed and always ends in Fini.                                     *)
(***************************************************************************)
EXTENDS Naturals

CONSTANTS Modules       (* names of module instances                       *)

VARIABLES
  mstate,               (* mstate[m]: state_, or Absent: no such instance   *)
  ctx,                  (* ctx[m]: ctx_ is set                              *)
  owed                  (* history: owed[m], the hooks that undo what the
                           hooks of m did so far                           *)

moduleVars == <<mstate, ctx, owed>>

Absent == "Absent"
ModuleState == {"Created", "Inited", "Started", "Stopped", "Fini"}

(* Mutant of ValidTransitions: no way back from Stopped.                    *)
NoRestart ==
  {<<"Created", "Inited">>, <<"Created", "Fini">>,
   <<"Inited", "Started">>, <<"Inited", "Fini">>,
   <<"Started", "Stopped">>, <<"Started", "Fini">>,
   <<"Stopped", "Fini">>, <<"Fini", "Inited">>}

(* kValidTransitions *)
ValidTransitions ==
  {<<"Created", "Inited">>, <<"Created", "Fini">>,
   <<"Inited", "Started">>, <<"Inited", "Fini">>,
   <<"Started", "Stopped">>, <<"Started", "Fini">>,
   <<"Stopped", "Started">>, <<"Stopped", "Fini">>,
   <<"Fini", "Inited">>}

IsValidTransition(from, to) == <<from, to>> \in ValidTransitions

ModuleTypeOK ==
  /\ mstate \in [Modules -> ModuleState \cup {Absent}]
  /\ ctx \in [Modules -> BOOLEAN]
  /\ owed \in [Modules -> SUBSET {"OnStop", "OnFini"}]

ModuleInit ==
  /\ mstate = [m \in Modules |-> Absent]
  /\ ctx = [m \in Modules |-> FALSE]
  /\ owed = [m \in Modules |-> {}]

(* The operations, each with its result ok: an operation the table forbids *)
(* fails and changes nothing.                                              *)
Refused(m, to, ok) ==
  /\ ~IsValidTransition(mstate[m], to)
  /\ ~ok
  /\ UNCHANGED moduleVars

Init(m, ok) ==
  \/ Refused(m, "Inited", ok)
  \/ /\ IsValidTransition(mstate[m], "Inited")
     /\ ctx' = [ctx EXCEPT ![m] = ok]
     /\ mstate' = IF ok THEN [mstate EXCEPT ![m] = "Inited"] ELSE mstate
     /\ owed' = IF ok THEN [owed EXCEPT ![m] = @ \cup {"OnFini"}] ELSE owed

Start(m, ok) ==
  \/ Refused(m, "Started", ok)
  \/ /\ IsValidTransition(mstate[m], "Started")
     /\ mstate' = IF ok THEN [mstate EXCEPT ![m] = "Started"] ELSE mstate
     /\ owed' = IF ok THEN [owed EXCEPT ![m] = @ \cup {"OnStop"}] ELSE owed
     /\ UNCHANGED ctx

(* A failing OnStop leaves the module started.                             *)
Stop(m, ok) ==
  \/ Refused(m, "Stopped", ok)
  \/ /\ IsValidTransition(mstate[m], "Stopped")
     /\ mstate' = IF ok THEN [mstate EXCEPT ![m] = "Stopped"] ELSE mstate
     /\ owed' = IF ok THEN [owed EXCEPT ![m] = @ \ {"OnStop"}] ELSE owed
     /\ UNCHANGED ctx

(* The hooks Fini calls: OnStop where the module could still be stopped,   *)
(* then OnFini where, stopped, it could be started.                        *)
FiniHooks(from) ==
  LET stops == IsValidTransition(from, "Stopped")
      cleanup == IF stops THEN "Stopped" ELSE from
  IN {h \in {"OnStop", "OnFini"} :
        \/ h = "OnStop" /\ stops
        \/ h = "OnFini" /\ IsValidTransition(cleanup, "Started")}

(* Failing hooks are reported, never retried.                              *)
Fini(m, ok) ==
  \/ Refused(m, "Fini", ok)
  \/ /\ IsValidTransition(mstate[m], "Fini")
     /\ ok \/ FiniHooks(mstate[m]) # {}
     /\ mstate' = [mstate EXCEPT ![m] = "Fini"]
     /\ ctx' = [ctx EXCEPT ![m] = FALSE]
     /\ owed' = [owed EXCEPT ![m] = @ \ FiniHooks(mstate[m])]

(* What a live module still owes, by its state: the life cycle's promise   *)
(* that every OnInit has its OnFini and every OnStart its OnStop, and that *)
(* the hooks run with a context.                                           *)
HooksMatchState ==
  \A m \in Modules :
    /\ "OnStop" \in owed[m] <=> mstate[m] = "Started"
    /\ "OnFini" \in owed[m] <=> mstate[m] \in {"Inited", "Started", "Stopped"}
    /\ ctx[m] <=> mstate[m] \in {"Inited", "Started", "Stopped"}
=============================================================================

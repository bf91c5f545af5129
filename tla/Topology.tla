------------------------------ MODULE Topology ------------------------------
(***************************************************************************)
(* What the connection driver keeps of the topology and declares again     *)
(* after every connect. The driver's copy of the configuration starts with *)
(* what the file says; a declaration that the broker confirms at run time  *)
(* is upserted into it; a (re)connect declares exchanges, queues and       *)
(* bindings and starts the consumers, one request after the other, and a   *)
(* refusal ends the connection.                                            *)
(*                                                                         *)
(* ConnectionDriver has the thread in detail and only counts the replies   *)
(* of the rebuild. Here the broker remembers what it was told, and loses   *)
(* some of it while the connection is down.                                *)
(***************************************************************************)
EXTENDS Naturals, Sequences, SequencesExt

CONSTANTS
  Exchanges, Queues,    (* names                                            *)
  Foreign,              (* queues that only other clients create            *)
  Arguments,            (* arguments of a binding                           *)
  FileExchanges, FileQueues, FileBindings, FileConsumers,
                        (* the configuration file: sequences of declarations
                           and of the names of consumed queues              *)
  MaxCalls,             (* bound: declarations of the application           *)
  MaxLosses             (* bound: lost connections                          *)

VARIABLES
  exchanges, queues, bindings,  (* of the driver's config_                  *)
  phase,                (* no connection, rebuilding, or ready_             *)
  step,                 (* how far the rebuild is                           *)
  requests,             (* requests on their way to the broker              *)
  replies,              (* replies on their way to the driver               *)
  broker,               (* what exists at the broker                        *)
  confirmed,            (* history: declarations the application got Ok for *)
  calls, losses

configVars == <<exchanges, queues, bindings>>
linkVars == <<phase, step, requests, replies>>
vars == <<configVars, linkVars, broker, confirmed, calls, losses>>

-----------------------------------------------------------------------------
(* An exchange or queue survives the broker's restart, or it may vanish    *)
(* while the connection is down (not durable, auto_delete). A binding is   *)
(* told from another by its arguments, as headers exchanges need.          *)
Flavours == {"durable", "volatile"}

ExchangeEntity == [kind : {"exchange"}, name : Exchanges, flavour : Flavours]
QueueEntity == [kind : {"queue"}, name : Queues, flavour : Flavours]
BindingEntity ==
  [kind : {"binding"}, exchange : Exchanges, queue : Queues, args : Arguments]

ExchangeSpec == [what : ExchangeEntity, passive : BOOLEAN]
QueueSpec == [what : QueueEntity, passive : BOOLEAN]
BindingSpec == [what : BindingEntity, passive : {FALSE}]
Declaration == ExchangeSpec \cup QueueSpec \cup BindingSpec

(* The start of a consumer on a queue. *)
Consume(q) == [kind |-> "consume", queue |-> q]
Request == Declaration \cup [what : {Consume(q) : q \in Queues}, passive : {FALSE}]

ASSUME TopologyAssumption ==
  /\ Foreign \subseteq Queues
  /\ FileExchanges \in Seq(ExchangeSpec)
  /\ FileQueues \in Seq(QueueSpec)
  /\ FileBindings \in Seq(BindingSpec)
  /\ FileConsumers \in Seq(Queues)
  /\ MaxCalls \in Nat
  /\ MaxLosses \in Nat

(* What the driver takes for the same exchange, queue or binding.          *)
IsSame(a, b) ==
  /\ a.kind = b.kind
  /\ a.kind # "binding" => a.name = b.name
  /\ a.kind = "binding" => a.exchange = b.exchange /\ a.queue = b.queue

Distinct(specs) ==
  \A i, j \in DOMAIN specs : IsSame(specs[i].what, specs[j].what) => i = j

(* What OnInit lets pass, as BusConfig has it: names are not given twice,  *)
(* and bindings and consumers refer to what the same file declares.        *)
ASSUME FileAssumption ==
  /\ Distinct(FileExchanges) /\ Distinct(FileQueues)
  /\ \A b \in ToSet(FileBindings) :
       /\ \E s \in ToSet(FileExchanges) : s.what.name = b.what.exchange
       /\ \E s \in ToSet(FileQueues) : s.what.name = b.what.queue
  /\ \A q \in ToSet(FileConsumers) :
       \E s \in ToSet(FileQueues) : s.what.name = q

(* UpsertExchangeSpec, UpsertQueueSpec, UpsertBindingSpec. *)
Upsert(spec, specs) ==
  IF \E i \in DOMAIN specs : IsSame(specs[i].what, spec.what)
  THEN [i \in DOMAIN specs |-> IF IsSame(specs[i].what, spec.what)
                               THEN spec ELSE specs[i]]
  ELSE Append(specs, spec)

ConsumerRequests ==
  [i \in DOMAIN FileConsumers |->
     [what |-> Consume(FileConsumers[i]), passive |-> FALSE]]

(* Mutant of Plan: the bindings are declared before the queues.             *)
PlanBindingsFirst == exchanges \o bindings \o queues \o ConsumerRequests

(* The requests of a rebuild, in their order. *)
Plan == exchanges \o queues \o bindings \o ConsumerRequests

TypeOK ==
  /\ exchanges \in Seq(ExchangeSpec)
  /\ queues \in Seq(QueueSpec)
  /\ bindings \in Seq(BindingSpec)
  /\ phase \in {"down", "rebuild", "ready"}
  /\ step \in 0 .. Len(Plan)
  /\ requests \in Seq(Request)
  /\ replies \in Seq([request : Request, ok : BOOLEAN])
  /\ broker \subseteq ExchangeEntity \cup QueueEntity \cup BindingEntity
  /\ confirmed \subseteq Declaration
  /\ calls \in Nat
  /\ losses \in Nat

Init ==
  /\ exchanges = FileExchanges /\ queues = FileQueues
  /\ bindings = FileBindings
  /\ phase = "down" /\ step = 0
  /\ requests = <<>> /\ replies = <<>>
  /\ broker = {}
  /\ confirmed = {}
  /\ calls = 0 /\ losses = 0

-----------------------------------------------------------------------------
(* The driver.                                                             *)

(* Mutant of RebuildTo: the last step counts twice.                         *)
RebuildPastEnd(i, sent) ==
  IF i = Len(Plan)
  THEN phase' = "ready" /\ step' = i + 1 /\ requests' = sent
  ELSE /\ phase' = "rebuild" /\ step' = i
       /\ requests' = Append(sent, Plan[i + 1])

(* i requests of the rebuild are answered; the next one is sent.           *)
RebuildTo(i, sent) ==
  IF i = Len(Plan)
  THEN phase' = "ready" /\ step' = i /\ requests' = sent
  ELSE /\ phase' = "rebuild" /\ step' = i
       /\ requests' = Append(sent, Plan[i + 1])

Connect ==
  /\ phase = "down"
  /\ RebuildTo(0, <<>>)
  /\ UNCHANGED <<configVars, replies, broker, confirmed, calls, losses>>

(* HandleDisconnect. *)
Drop ==
  /\ phase' = "down"
  /\ step' = 0
  /\ requests' = <<>> /\ replies' = <<>>

(* Mutant of Keep: what was declared at run time is not remembered.         *)
KeepNothing(spec) ==
  UNCHANGED configVars

(* onSuccess of a declaration of the application. *)
Keep(spec) ==
  \/ /\ spec.what.kind = "exchange"
     /\ exchanges' = Upsert(spec, exchanges)
     /\ UNCHANGED <<queues, bindings>>
  \/ /\ spec.what.kind = "queue"
     /\ queues' = Upsert(spec, queues)
     /\ UNCHANGED <<exchanges, bindings>>
  \/ /\ spec.what.kind = "binding"
     /\ bindings' = Upsert(spec, bindings)
     /\ UNCHANGED <<exchanges, queues>>

(* The reply to a request of the rebuild. *)
RebuildReply ==
  /\ phase = "rebuild"
  /\ replies # <<>> /\ Head(replies).ok
  /\ replies' = Tail(replies)
  /\ RebuildTo(step + 1, requests)
  /\ UNCHANGED <<configVars, broker, confirmed, calls, losses>>

(* The reply to a declaration of the application. *)
DeclareConfirmed ==
  /\ phase = "ready"
  /\ replies # <<>> /\ Head(replies).ok
  /\ replies' = Tail(replies)
  /\ Keep(Head(replies).request)
  /\ confirmed' = confirmed \cup {Head(replies).request}
  /\ UNCHANGED <<phase, step, requests, broker, calls, losses>>

(* A refusal, in the rebuild or later, ends the connection. *)
Refused ==
  /\ replies # <<>> /\ ~Head(replies).ok
  /\ Drop
  /\ UNCHANGED <<configVars, broker, confirmed, calls, losses>>

LoseLink ==
  /\ phase # "down"
  /\ losses < MaxLosses
  /\ losses' = losses + 1
  /\ Drop
  /\ UNCHANGED <<configVars, broker, confirmed, calls>>

-----------------------------------------------------------------------------
(* The application declares, on a connection that is ready. Queues of      *)
(* other clients it can only check; it binds to what the file, a confirmed *)
(* declaration or another client gives it.                                 *)
Known(kind, n) ==
  \E s \in ToSet(exchanges) \cup ToSet(queues) :
    s.what.kind = kind /\ s.what.name = n

MayDeclare(spec) ==
  /\ spec.what.kind = "binding" =>
       /\ Known("exchange", spec.what.exchange)
       /\ spec.what.queue \in Foreign \/ Known("queue", spec.what.queue)
  /\ spec.what.kind = "queue" /\ spec.what.name \in Foreign => spec.passive

Declare(spec) ==
  /\ phase = "ready"
  /\ calls < MaxCalls
  /\ MayDeclare(spec)
  /\ calls' = calls + 1
  /\ requests' = Append(requests, spec)
  /\ UNCHANGED <<configVars, phase, step, replies, broker, confirmed, losses>>

-----------------------------------------------------------------------------
(* The broker.                                                             *)

Exists(kind, n) == \E e \in broker : e.kind = kind /\ e.name = n

(* A passive declaration asks whether there is such a thing, an active one *)
(* must agree with what there is; a binding needs its ends, a consumer its *)
(* queue.                                                                  *)
Accepts(r) ==
  \/ /\ r.what.kind \in {"exchange", "queue"} /\ r.passive
     /\ Exists(r.what.kind, r.what.name)
  \/ /\ r.what.kind \in {"exchange", "queue"} /\ ~r.passive
     /\ \A e \in broker : IsSame(e, r.what) => e = r.what
  \/ /\ r.what.kind = "binding"
     /\ Exists("exchange", r.what.exchange) /\ Exists("queue", r.what.queue)
  \/ /\ r.what.kind = "consume"
     /\ Exists("queue", r.what.queue)

(* It answers in order; a refusal closes the channel for what follows.     *)
BrokerReplies ==
  /\ requests # <<>>
  /\ LET r == Head(requests)
         creates == Accepts(r) /\ ~r.passive /\ r.what.kind # "consume"
     IN /\ replies' = Append(replies, [request |-> r, ok |-> Accepts(r)])
        /\ requests' = IF Accepts(r) THEN Tail(requests) ELSE <<>>
        /\ broker' = IF creates THEN broker \cup {r.what} ELSE broker
  /\ UNCHANGED <<configVars, phase, step, confirmed, calls, losses>>

(* Another client creates a queue of its own.                              *)
OthersDeclare(q) ==
  /\ ~Exists("queue", q)
  /\ broker' = broker \cup
       {[kind |-> "queue", name |-> q, flavour |-> "volatile"]}
  /\ UNCHANGED <<configVars, linkVars, confirmed, calls, losses>>

(* While the client is away, volatile things vanish, and bindings with     *)
(* their ends; a queue of another client vanishes when that client ends.   *)
Volatile == {e \in broker : e.kind # "binding" /\ e.flavour = "volatile"}
OfOthers == {e \in broker : e.kind = "queue" /\ e.name \in Foreign}

BrokerLoses(S) ==
  /\ phase = "down" \/ S \subseteq OfOthers
  /\ S # {}
  /\ broker' =
       {e \in broker \ S :
          e.kind = "binding" =>
            ~\E d \in S : \/ d.kind = "exchange" /\ d.name = e.exchange
                          \/ d.kind = "queue" /\ d.name = e.queue}
  /\ UNCHANGED <<configVars, linkVars, confirmed, calls, losses>>

-----------------------------------------------------------------------------
DriverStep == Connect \/ RebuildReply \/ DeclareConfirmed \/ Refused

Next ==
  \/ DriverStep \/ LoseLink
  \/ \E spec \in Declaration : Declare(spec)
  \/ BrokerReplies
  \/ \E S \in SUBSET Volatile : BrokerLoses(S)
  \/ \E q \in Foreign : OthersDeclare(q)

Spec == Init /\ [][Next]_vars

(* The driver tries again after each disconnect, and the broker replies.   *)
FairSpec == Spec /\ WF_vars(DriverStep) /\ WF_vars(BrokerReplies)
-----------------------------------------------------------------------------
(* What a declaration asks for is there. *)
Present(spec) ==
  IF spec.passive THEN Exists(spec.what.kind, spec.what.name)
                  ELSE spec.what \in broker

NamesForeign(spec) ==
  \/ spec.what.kind = "queue" /\ spec.what.name \in Foreign
  \/ spec.what.kind \in {"binding", "consume"} /\ spec.what.queue \in Foreign

(* Types.h:40 documents Connected as "able to send and receive". On a      *)
(* ready connection everything is there that the application got Ok for,   *)
(* also before earlier connections were lost, but for the queues that      *)
(* other clients delete.                                                   *)
ConfirmedIsPresent ==
  phase = "ready" =>
    \A spec \in confirmed : NamesForeign(spec) \/ Present(spec)

(* What the rebuild asks of the broker though the driver does not create   *)
(* it: a passive declaration, which it keeps instead of an earlier active  *)
(* one, and a binding to or a consumer of a queue of another client.       *)
DependsOnOthers == {r \in ToSet(Plan) : r.passive \/ NamesForeign(r)}

(* The rebuild asks for nothing the broker refuses, whatever was declared, *)
(* confirmed or lost before, or else the client could never come back:     *)
(* only what it depends on others for can be missing.                      *)
RebuildNeverRefused ==
  phase = "rebuild" =>
    \A i \in DOMAIN replies :
      replies[i].ok \/ replies[i].request \in DependsOnOthers

(* After the last loss and the last call the client is ready for good,     *)
(* unless something it depends on others for is missing again and again.   *)
ComesBack ==
  \/ <>[](phase = "ready")
  \/ []<>(\E s \in DependsOnOthers : ~Accepts(s))
=============================================================================

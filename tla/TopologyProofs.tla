--------------------------- MODULE TopologyProofs ---------------------------
(***************************************************************************)
(* Theorems about Topology, for every configuration file that OnInit       *)
(* accepts, every set of names and every bound.                            *)
(***************************************************************************)
EXTENDS Topology, SequenceLemmas

LEMMA StepCases ==
  ASSUME [Next]_vars
  PROVE  \/ Connect \/ RebuildReply \/ DeclareConfirmed \/ Refused \/ LoseLink
         \/ \E spec \in Declaration : Declare(spec)
         \/ BrokerReplies
         \/ \E S \in SUBSET Volatile : BrokerLoses(S)
         \/ \E q \in Foreign : OthersDeclare(q)
         \/ UNCHANGED vars
BY DEF Next, DriverStep

-----------------------------------------------------------------------------
(* Requests and their kinds.                                               *)

LEMMA RequestKinds ==
  /\ Declaration \subseteq Request
  /\ \A r \in Request :
       /\ r.passive \in BOOLEAN
       /\ r.what.kind \in {"exchange", "queue", "binding", "consume"}
       /\ r.what.kind = "exchange" <=> r \in ExchangeSpec
       /\ r.what.kind = "queue" <=> r \in QueueSpec
       /\ r.what.kind = "binding" <=> r \in BindingSpec
       /\ r.what.kind # "consume" <=> r \in Declaration
<1>1. Declaration \subseteq Request
  BY DEF Request
<1>2. \A s \in ExchangeSpec : s.what.kind = "exchange" /\ s.passive \in BOOLEAN
  BY DEF ExchangeSpec, ExchangeEntity
<1>3. \A s \in QueueSpec : s.what.kind = "queue" /\ s.passive \in BOOLEAN
  BY DEF QueueSpec, QueueEntity
<1>4. \A s \in BindingSpec : s.what.kind = "binding" /\ s.passive \in BOOLEAN
  BY DEF BindingSpec, BindingEntity
<1>5. \A s \in [what : {Consume(q) : q \in Queues}, passive : {FALSE}] :
        s.what.kind = "consume" /\ s.passive \in BOOLEAN
  <2>1. \A w \in {Consume(q) : q \in Queues} : w.kind = "consume"
    BY DEF Consume
  <2> QED
    BY <2>1
<1> SUFFICES ASSUME NEW r \in Request
             PROVE  /\ r.passive \in BOOLEAN
                    /\ r.what.kind \in {"exchange", "queue", "binding", "consume"}
                    /\ r.what.kind = "exchange" <=> r \in ExchangeSpec
                    /\ r.what.kind = "queue" <=> r \in QueueSpec
                    /\ r.what.kind = "binding" <=> r \in BindingSpec
                    /\ r.what.kind # "consume" <=> r \in Declaration
  BY <1>1
<1>6. \/ r \in ExchangeSpec \/ r \in QueueSpec \/ r \in BindingSpec
      \/ r \in [what : {Consume(q) : q \in Queues}, passive : {FALSE}]
  BY DEF Request, Declaration
<1>7. r \in Declaration <=> r \in ExchangeSpec \/ r \in QueueSpec \/ r \in BindingSpec
  BY DEF Declaration
<1>8. r.passive \in BOOLEAN /\ r.what.kind \in {"exchange", "queue", "binding", "consume"}
  BY <1>2, <1>3, <1>4, <1>5, <1>6
<1>9. /\ r.what.kind = "exchange" <=> r \in ExchangeSpec
      /\ r.what.kind = "queue" <=> r \in QueueSpec
      /\ r.what.kind = "binding" <=> r \in BindingSpec
      /\ r.what.kind = "consume"
           <=> r \in [what : {Consume(q) : q \in Queues}, passive : {FALSE}]
  <2>1. CASE r \in ExchangeSpec BY <1>2, <1>3, <1>4, <1>5, <2>1
  <2>2. CASE r \in QueueSpec BY <1>2, <1>3, <1>4, <1>5, <2>2
  <2>3. CASE r \in BindingSpec BY <1>2, <1>3, <1>4, <1>5, <2>3
  <2>4. CASE r \in [what : {Consume(q) : q \in Queues}, passive : {FALSE}]
    BY <1>2, <1>3, <1>4, <1>5, <2>4
  <2> QED
    BY <1>6, <2>1, <2>2, <2>3, <2>4
<1> QED
  BY <1>6, <1>7, <1>8, <1>9

LEMMA SpecFields ==
  /\ \A s \in ExchangeSpec : s.what \in ExchangeEntity /\ s.what.name \in Exchanges
  /\ \A s \in QueueSpec : s.what \in QueueEntity /\ s.what.name \in Queues
  /\ \A s \in BindingSpec : /\ s.what \in BindingEntity /\ s.passive = FALSE
                            /\ s.what.exchange \in Exchanges /\ s.what.queue \in Queues
BY DEF ExchangeSpec, QueueSpec, BindingSpec, ExchangeEntity, QueueEntity, BindingEntity

-----------------------------------------------------------------------------
(* What an upsert makes of the driver's copy.                              *)

LEMMA UpsertSeq ==
  ASSUME NEW S, NEW specs \in Seq(S), NEW spec \in S
  PROVE  /\ Upsert(spec, specs) \in Seq(S)
         /\ Len(Upsert(spec, specs)) \in Nat
         /\ Len(Upsert(spec, specs)) >= Len(specs)
<1>1. /\ Len(specs) \in Nat /\ DOMAIN specs = 1 .. Len(specs)
      /\ \A i \in DOMAIN specs : specs[i] \in S
  BY LenProperties, ElementOfSeq
<1>2. CASE \E i \in DOMAIN specs : IsSame(specs[i].what, spec.what)
  <2> DEFINE u == [i \in DOMAIN specs |-> IF IsSame(specs[i].what, spec.what)
                                          THEN spec ELSE specs[i]]
  <2>1. u \in [1 .. Len(specs) -> S]
    BY <1>1
  <2>2. u \in Seq(S) /\ DOMAIN u = 1 .. Len(specs)
    BY <1>1, <2>1, IsASeq
  <2>3. Len(u) = Len(specs)
    BY <1>1, <2>2, LenProperties
  <2> QED
    BY <1>1, <1>2, <2>2, <2>3 DEF Upsert
<1>3. CASE ~\E i \in DOMAIN specs : IsSame(specs[i].what, spec.what)
  BY <1>1, <1>3, AppendProperties DEF Upsert
<1> QED
  BY <1>2, <1>3

(* The new specification replaces those that are the same to the driver.   *)
LEMMA UpsertToSet ==
  ASSUME NEW S, NEW specs \in Seq(S), NEW spec \in S
  PROVE  ToSet(Upsert(spec, specs))
           = {t \in ToSet(specs) : ~IsSame(t.what, spec.what)} \cup {spec}
<1>1. /\ DOMAIN specs = 1 .. Len(specs)
      /\ \A i \in DOMAIN specs : specs[i] \in S
  BY LenProperties, ElementOfSeq
<1>2. CASE \E i \in DOMAIN specs : IsSame(specs[i].what, spec.what)
  <2> DEFINE u == [i \in DOMAIN specs |-> IF IsSame(specs[i].what, spec.what)
                                          THEN spec ELSE specs[i]]
  <2>1. {u[i] : i \in DOMAIN specs}
          = {t \in {specs[i] : i \in DOMAIN specs} : ~IsSame(t.what, spec.what)}
            \cup {spec}
    BY <1>2
  <2>2. DOMAIN u = DOMAIN specs /\ Upsert(spec, specs) = u
    BY <1>2 DEF Upsert
  <2> HIDE DEF u
  <2> QED
    BY <2>1, <2>2 DEF ToSet
<1>3. CASE ~\E i \in DOMAIN specs : IsSame(specs[i].what, spec.what)
  <2>1. ToSet(Append(specs, spec)) = ToSet(specs) \cup {spec}
    BY AppendToSet
  <2>2. \A t \in ToSet(specs) : ~IsSame(t.what, spec.what)
    BY <1>3 DEF ToSet
  <2> QED
    BY <1>3, <2>1, <2>2 DEF Upsert
<1> QED
  BY <1>2, <1>3

LEMMA SameAsItself ==
  /\ \A a : IsSame(a, a)
  /\ \A a, b : IsSame(a, b) => IsSame(b, a)
  /\ \A a, b, c : IsSame(a, b) /\ IsSame(b, c) => IsSame(a, c)
BY DEF IsSame

-----------------------------------------------------------------------------
(* The requests of a rebuild.                                              *)

ConfigTyped ==
  /\ exchanges \in Seq(ExchangeSpec)
  /\ queues \in Seq(QueueSpec)
  /\ bindings \in Seq(BindingSpec)

Kept == ToSet(exchanges) \cup ToSet(queues) \cup ToSet(bindings)

LEMMA ConsumersTyped ==
  /\ ConsumerRequests \in Seq(Request)
  /\ \A i \in DOMAIN ConsumerRequests : ConsumerRequests[i].what.kind = "consume"
  /\ \A r \in ToSet(ConsumerRequests) :
       /\ r.what.kind = "consume"
       /\ r.what.queue \in ToSet(FileConsumers)
<1>1. /\ FileConsumers \in Seq(Queues) /\ Len(FileConsumers) \in Nat
      /\ DOMAIN FileConsumers = 1 .. Len(FileConsumers)
      /\ \A i \in DOMAIN FileConsumers : FileConsumers[i] \in Queues
  BY TopologyAssumption, LenProperties, ElementOfSeq
<1>2. \A q \in Queues : [what |-> Consume(q), passive |-> FALSE] \in Request
  BY DEF Request
<1>3. ConsumerRequests \in [1 .. Len(FileConsumers) -> Request]
  BY <1>1, <1>2 DEF ConsumerRequests
<1>4. ConsumerRequests \in Seq(Request)
  BY <1>1, <1>3, IsASeq
<1>5. \A i \in DOMAIN ConsumerRequests :
        /\ ConsumerRequests[i].what.kind = "consume"
        /\ ConsumerRequests[i].what.queue \in ToSet(FileConsumers)
  BY DEF ConsumerRequests, Consume, ToSet
<1> QED
  BY <1>4, <1>5 DEF ToSet

LEMMA PlanTyped ==
  ASSUME ConfigTyped
  PROVE  /\ Plan \in Seq(Request)
         /\ Len(Plan) \in Nat
         /\ DOMAIN Plan = 1 .. Len(Plan)
         /\ \A i \in 1 .. Len(Plan) : Plan[i] \in Request
         /\ Len(Plan) = Len(exchanges) + Len(queues) + Len(bindings)
                        + Len(ConsumerRequests)
         /\ ToSet(Plan) = Kept \cup ToSet(ConsumerRequests)
<1>1. /\ ExchangeSpec \subseteq Request /\ QueueSpec \subseteq Request
      /\ BindingSpec \subseteq Request
  BY DEF Request, Declaration
<1>2. /\ exchanges \in Seq(Request) /\ queues \in Seq(Request)
      /\ bindings \in Seq(Request) /\ ConsumerRequests \in Seq(Request)
  BY <1>1, ConsumersTyped, SeqMonotonic DEF ConfigTyped
<1> DEFINE eq == exchanges \o queues
           eqb == eq \o bindings
<1>3. /\ eq \in Seq(Request) /\ ToSet(eq) = ToSet(exchanges) \cup ToSet(queues)
      /\ Len(eq) = Len(exchanges) + Len(queues)
  <2>1. eq \in Seq(Request) /\ Len(eq) = Len(exchanges) + Len(queues)
    BY <1>2, ConcatProperties
  <2>2. ToSet(eq) = ToSet(exchanges) \cup ToSet(queues)
    BY <1>2, ConcatToSet
  <2> QED
    BY <2>1, <2>2
<1> HIDE DEF eq
<1>4. /\ eqb \in Seq(Request) /\ ToSet(eqb) = ToSet(eq) \cup ToSet(bindings)
      /\ Len(eqb) = Len(eq) + Len(bindings)
  <2>1. eqb \in Seq(Request) /\ Len(eqb) = Len(eq) + Len(bindings)
    BY <1>2, <1>3, ConcatProperties
  <2>2. ToSet(eqb) = ToSet(eq) \cup ToSet(bindings)
    BY <1>2, <1>3, ConcatToSet
  <2> QED
    BY <2>1, <2>2
<1> HIDE DEF eqb
<1>5. /\ eqb \o ConsumerRequests \in Seq(Request)
      /\ ToSet(eqb \o ConsumerRequests) = ToSet(eqb) \cup ToSet(ConsumerRequests)
      /\ Len(eqb \o ConsumerRequests) = Len(eqb) + Len(ConsumerRequests)
  <2>1. /\ eqb \o ConsumerRequests \in Seq(Request)
        /\ Len(eqb \o ConsumerRequests) = Len(eqb) + Len(ConsumerRequests)
    BY <1>2, <1>4, ConcatProperties
  <2>2. ToSet(eqb \o ConsumerRequests) = ToSet(eqb) \cup ToSet(ConsumerRequests)
    BY <1>2, <1>4, ConcatToSet
  <2> QED
    BY <2>1, <2>2
<1>6. Plan = eqb \o ConsumerRequests
  BY DEF Plan, eqb, eq
<1>7. /\ Plan \in Seq(Request) /\ Len(Plan) \in Nat
      /\ DOMAIN Plan = 1 .. Len(Plan)
      /\ \A i \in 1 .. Len(Plan) : Plan[i] \in Request
  BY <1>5, <1>6, LenProperties, ElementOfSeq
<1> QED
  BY <1>3, <1>4, <1>5, <1>6, <1>7 DEF Kept
Specs == ToSet(exchanges) \cup ToSet(queues)

(* Exchanges and queues come before what refers to them.                   *)
LEMMA PlanOrder ==
  ASSUME ConfigTyped, NEW i \in 1 .. Len(Plan),
         Plan[i].what.kind \in {"binding", "consume"}, NEW s \in Specs
  PROVE  \E j \in 1 .. i - 1 : Plan[j] = s
<1> DEFINE eq == exchanges \o queues
           rest == bindings \o ConsumerRequests
           n == Len(exchanges) + Len(queues)
<1>1. /\ ExchangeSpec \subseteq Request /\ QueueSpec \subseteq Request
      /\ BindingSpec \subseteq Request
  BY DEF Request, Declaration
<1>2. /\ exchanges \in Seq(Request) /\ queues \in Seq(Request)
      /\ bindings \in Seq(Request) /\ ConsumerRequests \in Seq(Request)
  BY <1>1, ConsumersTyped, SeqMonotonic DEF ConfigTyped
<1>3. /\ eq \in Seq(Request) /\ Len(eq) = n /\ n \in Nat
      /\ \A j \in 1 .. n : eq[j] = IF j <= Len(exchanges) THEN exchanges[j]
                                   ELSE queues[j - Len(exchanges)]
      /\ Len(exchanges) \in Nat /\ Len(queues) \in Nat
  BY <1>2, ConcatProperties, LenProperties
<1>4. ToSet(eq) = Specs
  BY <1>2, ConcatToSet DEF Specs
<1>5. rest \in Seq(Request) /\ Plan = eq \o rest
  <2>1. rest \in Seq(Request)
    BY <1>2, ConcatProperties
  <2>2. (eq \o bindings) \o ConsumerRequests = eq \o rest
    <3>1. \A a, b, c \in Seq(Request) : (a \o b) \o c = a \o (b \o c)
      BY ConcatAssociative
    <3>2. eq \in Seq(Request)
      BY <1>3
    <3> QED
      BY <1>2, <3>1, <3>2
  <2> QED
    BY <2>1, <2>2 DEF Plan
<1> HIDE DEF eq, rest
<1>6. \A j \in 1 .. n : Plan[j] = eq[j] /\ n <= Len(Plan)
  <2>1. /\ Len(eq \o rest) = Len(eq) + Len(rest)
        /\ \A j \in 1 .. Len(eq) + Len(rest) :
             (eq \o rest)[j] = IF j <= Len(eq) THEN eq[j] ELSE rest[j - Len(eq)]
    <3>1. eq \in Seq(Request) /\ rest \in Seq(Request)
      BY <1>3, <1>5
    <3> QED
      BY <3>1, ConcatProperties
  <2>2. Len(rest) \in Nat
    BY <1>5, LenProperties
  <2> QED
    BY <1>3, <1>5, <2>1, <2>2
<1>7. \A j \in 1 .. n : eq[j].what.kind \in {"exchange", "queue"}
  <2> SUFFICES ASSUME NEW j \in 1 .. n PROVE eq[j].what.kind \in {"exchange", "queue"}
    OBVIOUS
  <2>1. CASE j <= Len(exchanges)
    <3>1. j \in 1 .. Len(exchanges) /\ eq[j] = exchanges[j]
      BY <1>3, <2>1
    <3>2. exchanges[j] \in ExchangeSpec
      BY <3>1, ElementOfSeq DEF ConfigTyped
    <3> QED
      BY <1>1, <3>1, <3>2, RequestKinds
  <2>2. CASE ~(j <= Len(exchanges))
    <3>1. /\ j - Len(exchanges) \in 1 .. Len(queues)
          /\ eq[j] = queues[j - Len(exchanges)]
      BY <1>3, <2>2
    <3>2. queues[j - Len(exchanges)] \in QueueSpec
      BY <3>1, ElementOfSeq DEF ConfigTyped
    <3> QED
      BY <1>1, <3>1, <3>2, RequestKinds
  <2> QED
    BY <2>1, <2>2
<1>8. i \notin 1 .. n
  BY <1>6, <1>7
<1>9. PICK j \in 1 .. n : eq[j] = s
  BY <1>3, <1>4, MemberIndex
<1>10. j \in 1 .. i - 1
  BY <1>3, <1>8, <1>9
<1> QED
  BY <1>6, <1>9, <1>10

-----------------------------------------------------------------------------
(* Type correctness, and what is on its way in each phase.                 *)

Reply == [request : Request, ok : BOOLEAN]

(* The rebuild waits for the reply to one request; on a ready connection   *)
(* all requests are the application's.                                     *)
RoundInv ==
  /\ phase = "down" => step = 0 /\ requests = <<>> /\ replies = <<>>
  /\ phase = "rebuild" =>
       /\ step + 1 \in 1 .. Len(Plan)
       /\ \/ requests = <<Plan[step + 1]>> /\ replies = <<>>
          \/ /\ requests = <<>>
             /\ \E ok \in BOOLEAN : replies = <<[request |-> Plan[step + 1], ok |-> ok]>>
  /\ phase = "ready" =>
       /\ requests \in Seq(Declaration)
       /\ replies \in Seq([request : Declaration, ok : BOOLEAN])

LEMMA InitTypeOK == Init => TypeOK /\ RoundInv
<1> SUFFICES ASSUME Init PROVE TypeOK /\ RoundInv
  OBVIOUS
<1>1. ConfigTyped
  BY TopologyAssumption DEF Init, ConfigTyped
<1>2. Len(Plan) \in Nat
  BY <1>1, PlanTyped
<1>3. <<>> \in Seq(Request) /\ <<>> \in Seq(Reply)
  BY EmptySeq
<1> QED
  BY <1>1, <1>2, <1>3 DEF Init, TypeOK, RoundInv, ConfigTyped, Reply

(* The first reply is one to a request; for a ready connection, to a       *)
(* declaration.                                                            *)
LEMMA FirstReply ==
  ASSUME TypeOK, RoundInv, replies # <<>>
  PROVE  /\ Head(replies) \in Reply
         /\ Head(replies) \in ToSet(replies)
         /\ Tail(replies) \in Seq(Reply)
         /\ ToSet(Tail(replies)) \subseteq ToSet(replies)
         /\ phase = "ready" =>
              /\ Head(replies).request \in Declaration
              /\ Tail(replies) \in Seq([request : Declaration, ok : BOOLEAN])
         /\ phase = "rebuild" =>
              /\ Head(replies).request = Plan[step + 1]
              /\ Tail(replies) = <<>> /\ requests = <<>>
<1>1. replies \in Seq(Reply)
  BY DEF TypeOK, Reply
<1>2. Head(replies) \in Reply /\ Tail(replies) \in Seq(Reply)
  BY <1>1, HeadTailProperties
<1>3. /\ Head(replies) \in ToSet(replies)
      /\ ToSet(Tail(replies)) \subseteq ToSet(replies)
  <2>1. \A X : Occurs(replies, X) <=> Occurs(Tail(replies), X) \/ Head(replies) \in X
    BY <1>1, TailOccurs
  <2>2. \A x : x \in ToSet(replies) <=> Occurs(replies, {x})
    BY DEF ToSet, Occurs
  <2>3. \A x : x \in ToSet(Tail(replies)) <=> Occurs(Tail(replies), {x})
    BY DEF ToSet, Occurs
  <2> QED
    BY <2>1, <2>2, <2>3
<1>4. ASSUME phase = "ready"
      PROVE  /\ Head(replies).request \in Declaration
             /\ Tail(replies) \in Seq([request : Declaration, ok : BOOLEAN])
  <2>1. replies \in Seq([request : Declaration, ok : BOOLEAN])
    BY <1>4 DEF RoundInv
  <2>2. /\ Head(replies) \in [request : Declaration, ok : BOOLEAN]
        /\ Tail(replies) \in Seq([request : Declaration, ok : BOOLEAN])
    BY <2>1, HeadTailProperties
  <2> QED
    BY <2>2
<1>5. ASSUME phase = "rebuild"
      PROVE  /\ Head(replies).request = Plan[step + 1]
             /\ Tail(replies) = <<>> /\ requests = <<>>
  <2>1. PICK ok \in BOOLEAN : replies = <<[request |-> Plan[step + 1], ok |-> ok]>>
    BY <1>5 DEF RoundInv
  <2>2. /\ Head(replies) = [request |-> Plan[step + 1], ok |-> ok]
        /\ Tail(replies) = <<>>
    BY <2>1
  <2> QED
    BY <1>5, <2>2 DEF RoundInv
<1> QED
  BY <1>2, <1>3, <1>4, <1>5

(* What onSuccess of a declaration makes of the driver's copy.             *)
LEMMA KeepTyped ==
  ASSUME ConfigTyped, NEW spec \in Declaration, Keep(spec)
  PROVE  /\ ConfigTyped'
         /\ Kept' \subseteq Kept \cup {spec}
         /\ spec \in Kept'
         /\ \A t \in Kept : t \in Kept' \/ IsSame(t.what, spec.what)
         /\ Len(Plan)' \in Nat /\ Len(Plan)' >= Len(Plan)
<1>1. /\ spec.what.kind = "exchange" => spec \in ExchangeSpec
      /\ spec.what.kind = "queue" => spec \in QueueSpec
      /\ spec.what.kind = "binding" => spec \in BindingSpec
  BY RequestKinds
<1>2. Len(Plan) = Len(exchanges) + Len(queues) + Len(bindings) + Len(ConsumerRequests)
  BY PlanTyped
<1>3. /\ Len(exchanges) \in Nat /\ Len(queues) \in Nat /\ Len(bindings) \in Nat
      /\ Len(ConsumerRequests) \in Nat
  BY ConsumersTyped, LenProperties DEF ConfigTyped
<1>4. ASSUME ConfigTyped'
      PROVE  Len(Plan)' = Len(exchanges') + Len(queues') + Len(bindings')
                          + Len(ConsumerRequests)
  <2>1. ConsumerRequests' = ConsumerRequests
    BY DEF ConsumerRequests
  <2>2. (Len(Plan) = Len(exchanges) + Len(queues) + Len(bindings) + Len(ConsumerRequests))'
    BY <1>4, PlanTyped, PTL
  <2> QED
    BY <2>1, <2>2
<1>5. CASE spec.what.kind = "exchange"
  <2>1. exchanges' = Upsert(spec, exchanges) /\ queues' = queues /\ bindings' = bindings
    BY <1>5 DEF Keep
  <2>2. /\ exchanges' \in Seq(ExchangeSpec) /\ Len(exchanges') \in Nat
        /\ Len(exchanges') >= Len(exchanges)
    BY <1>1, <1>5, <2>1, UpsertSeq DEF ConfigTyped
  <2>3. ToSet(exchanges') = {t \in ToSet(exchanges) : ~IsSame(t.what, spec.what)} \cup {spec}
    BY <1>1, <1>5, <2>1, UpsertToSet DEF ConfigTyped
  <2>4. ConfigTyped'
    BY <2>1, <2>2 DEF ConfigTyped
  <2>5. Len(Plan)' \in Nat /\ Len(Plan)' >= Len(Plan)
    BY <1>2, <1>3, <1>4, <2>1, <2>2, <2>4
  <2> QED
    BY <2>1, <2>3, <2>4, <2>5 DEF Kept
<1>6. CASE spec.what.kind = "queue"
  <2>1. queues' = Upsert(spec, queues) /\ exchanges' = exchanges /\ bindings' = bindings
    BY <1>6 DEF Keep
  <2>2. /\ queues' \in Seq(QueueSpec) /\ Len(queues') \in Nat
        /\ Len(queues') >= Len(queues)
    BY <1>1, <1>6, <2>1, UpsertSeq DEF ConfigTyped
  <2>3. ToSet(queues') = {t \in ToSet(queues) : ~IsSame(t.what, spec.what)} \cup {spec}
    BY <1>1, <1>6, <2>1, UpsertToSet DEF ConfigTyped
  <2>4. ConfigTyped'
    BY <2>1, <2>2 DEF ConfigTyped
  <2>5. Len(Plan)' \in Nat /\ Len(Plan)' >= Len(Plan)
    BY <1>2, <1>3, <1>4, <2>1, <2>2, <2>4
  <2> QED
    BY <2>1, <2>3, <2>4, <2>5 DEF Kept
<1>7. CASE spec.what.kind = "binding"
  <2>1. bindings' = Upsert(spec, bindings) /\ exchanges' = exchanges /\ queues' = queues
    BY <1>7 DEF Keep
  <2>2. /\ bindings' \in Seq(BindingSpec) /\ Len(bindings') \in Nat
        /\ Len(bindings') >= Len(bindings)
    BY <1>1, <1>7, <2>1, UpsertSeq DEF ConfigTyped
  <2>3. ToSet(bindings') = {t \in ToSet(bindings) : ~IsSame(t.what, spec.what)} \cup {spec}
    BY <1>1, <1>7, <2>1, UpsertToSet DEF ConfigTyped
  <2>4. ConfigTyped'
    BY <2>1, <2>2 DEF ConfigTyped
  <2>5. Len(Plan)' \in Nat /\ Len(Plan)' >= Len(Plan)
    BY <1>2, <1>3, <1>4, <2>1, <2>2, <2>4
  <2> QED
    BY <2>1, <2>3, <2>4, <2>5 DEF Kept
<1> QED
  BY <1>5, <1>6, <1>7 DEF Keep
LEMMA ConfigStays ==
  ASSUME UNCHANGED configVars
  PROVE  /\ Plan' = Plan /\ Kept' = Kept /\ Specs' = Specs
         /\ ConfigTyped' = ConfigTyped
         /\ DependsOnOthers' = DependsOnOthers
BY DEF configVars, Plan, Kept, Specs, ConfigTyped, ConsumerRequests,
       DependsOnOthers, NamesForeign

LEMMA RebuildRound ==
  ASSUME TypeOK, UNCHANGED configVars, NEW i \in 0 .. Len(Plan),
         RebuildTo(i, <<>>), replies' = <<>>
  PROVE  /\ phase' \in {"rebuild", "ready"}
         /\ step' \in 0 .. Len(Plan)'
         /\ requests' \in Seq(Request) /\ replies' \in Seq(Reply)
         /\ RoundInv'
<1>1. ConfigTyped
  BY DEF TypeOK, ConfigTyped
<1>2. Plan' = Plan /\ Len(Plan) \in Nat
  BY <1>1, ConfigStays, PlanTyped
<1>3. <<>> \in Seq(Request) /\ <<>> \in Seq(Reply) /\ <<>> \in Seq(Declaration)
      /\ <<>> \in Seq([request : Declaration, ok : BOOLEAN])
  BY EmptySeq
<1>4. CASE i = Len(Plan)
  BY <1>2, <1>3, <1>4 DEF RebuildTo, RoundInv
<1>5. CASE i # Len(Plan)
  <2>1. i + 1 \in 1 .. Len(Plan)
    BY <1>2, <1>5
  <2>2. Plan[i + 1] \in Request
    BY <1>1, <2>1, PlanTyped
  <2>3. /\ phase' = "rebuild" /\ step' = i
        /\ requests' = Append(<<>>, Plan[i + 1])
    BY <1>5 DEF RebuildTo
  <2>4. requests' = <<Plan[i + 1]>>
    BY <2>3
  <2>5. requests' \in Seq(Request)
    BY <2>2, <2>4, SingletonToSet
  <2> QED
    BY <1>2, <1>3, <2>1, <2>3, <2>4, <2>5 DEF RoundInv
<1> QED
  BY <1>4, <1>5

LEMMA FirstRequest ==
  ASSUME TypeOK, RoundInv, requests # <<>>
  PROVE  /\ Head(requests) \in Request
         /\ Head(requests) \in ToSet(requests)
         /\ Tail(requests) \in Seq(Request)
         /\ ToSet(Tail(requests)) \subseteq ToSet(requests)
         /\ phase \in {"rebuild", "ready"}
         /\ phase = "ready" =>
              /\ Head(requests) \in Declaration
              /\ Tail(requests) \in Seq(Declaration)
         /\ phase = "rebuild" =>
              /\ Head(requests) = Plan[step + 1]
              /\ Tail(requests) = <<>> /\ replies = <<>>
<1>1. requests \in Seq(Request)
  BY DEF TypeOK
<1>2. Head(requests) \in Request /\ Tail(requests) \in Seq(Request)
  BY <1>1, HeadTailProperties
<1>3. /\ Head(requests) \in ToSet(requests)
      /\ ToSet(Tail(requests)) \subseteq ToSet(requests)
  <2>1. \A X : Occurs(requests, X) <=> Occurs(Tail(requests), X) \/ Head(requests) \in X
    BY <1>1, TailOccurs
  <2>2. \A x : x \in ToSet(requests) <=> Occurs(requests, {x})
    BY DEF ToSet, Occurs
  <2>3. \A x : x \in ToSet(Tail(requests)) <=> Occurs(Tail(requests), {x})
    BY DEF ToSet, Occurs
  <2> QED
    BY <2>1, <2>2, <2>3
<1>4. ASSUME phase = "ready"
      PROVE  Head(requests) \in Declaration /\ Tail(requests) \in Seq(Declaration)
  <2>1. requests \in Seq(Declaration)
    BY <1>4 DEF RoundInv
  <2> QED
    BY <2>1, HeadTailProperties
<1>5. ASSUME phase = "rebuild"
      PROVE  /\ Head(requests) = Plan[step + 1]
             /\ Tail(requests) = <<>> /\ replies = <<>>
  <2>1. requests = <<Plan[step + 1]>> /\ replies = <<>>
    BY <1>5 DEF RoundInv
  <2> QED
    BY <2>1
<1> QED
  BY <1>2, <1>3, <1>4, <1>5 DEF RoundInv, TypeOK

LEMMA NextTypeOK ==
  ASSUME TypeOK, RoundInv, [Next]_vars
  PROVE  TypeOK' /\ RoundInv'
<1> USE DEF configVars, linkVars
<1>0. ConfigTyped /\ Len(Plan) \in Nat
  <2>1. ConfigTyped
    BY DEF TypeOK, ConfigTyped
  <2> QED
    BY <2>1, PlanTyped
<1>a. UNCHANGED configVars
        => /\ exchanges' \in Seq(ExchangeSpec) /\ queues' \in Seq(QueueSpec)
           /\ bindings' \in Seq(BindingSpec)
           /\ Plan' = Plan
  BY ConfigStays DEF TypeOK
<1>1. CASE Connect
  <2>1. UNCHANGED configVars /\ RebuildTo(0, <<>>) /\ replies' = <<>>
    BY <1>1 DEF Connect, RoundInv
  <2>2. 0 \in 0 .. Len(Plan)
    BY <1>0
  <2> QED
    BY <1>1, <1>a, <2>1, <2>2, RebuildRound DEF Connect, TypeOK, Reply
<1>2. CASE RebuildReply
  <2>1. /\ UNCHANGED configVars /\ RebuildTo(step + 1, <<>>) /\ replies' = <<>>
        /\ step + 1 \in 0 .. Len(Plan)
    BY <1>0, <1>2, FirstReply DEF RebuildReply, RoundInv
  <2> QED
    BY <1>2, <1>a, <2>1, RebuildRound DEF RebuildReply, TypeOK, Reply
<1>3. CASE DeclareConfirmed
  <2> DEFINE spec == Head(replies).request
  <2>1. /\ spec \in Declaration /\ Keep(spec) /\ replies' = Tail(replies)
        /\ Tail(replies) \in Seq(Reply)
        /\ Tail(replies) \in Seq([request : Declaration, ok : BOOLEAN])
        /\ phase = "ready"
        /\ UNCHANGED <<phase, step, requests, broker, calls, losses>>
        /\ confirmed' = confirmed \cup {spec}
    BY <1>3, FirstReply DEF DeclareConfirmed
  <2>2. ConfigTyped' /\ Len(Plan)' \in Nat /\ Len(Plan)' >= Len(Plan)
    BY <1>0, <2>1, KeepTyped
  <2>3. step' \in 0 .. Len(Plan)'
    BY <1>0, <2>1, <2>2 DEF TypeOK
  <2>4. TypeOK'
    BY <2>1, <2>2, <2>3 DEF TypeOK, ConfigTyped, Reply
  <2> QED
    BY <2>1, <2>4 DEF RoundInv
<1>4. CASE Drop /\ UNCHANGED <<configVars, broker, confirmed, calls>> /\ losses' \in Nat
  BY <1>0, <1>4, <1>a, EmptySeq DEF Drop, TypeOK, RoundInv
<1>5. ASSUME NEW spec \in Declaration, Declare(spec)
      PROVE  TypeOK' /\ RoundInv'
  <2>1. /\ requests' = Append(requests, spec) /\ phase = "ready" /\ phase' = phase
        /\ calls' = calls + 1 /\ calls' \in Nat
        /\ UNCHANGED <<configVars, step, replies, broker, confirmed, losses>>
    BY <1>5 DEF Declare, TypeOK
  <2>2. requests' \in Seq(Request)
    BY <2>1, RequestKinds, AppendProperties DEF TypeOK
  <2>3. requests' \in Seq(Declaration)
    <3>1. requests \in Seq(Declaration)
      BY <2>1 DEF RoundInv
    <3> QED
      BY <2>1, <3>1, AppendProperties
  <2> QED
    BY <1>a, <2>1, <2>2, <2>3 DEF TypeOK, RoundInv
<1>6. CASE BrokerReplies
  <2> DEFINE r == Head(requests)
             a == [request |-> r, ok |-> Accepts(r)]
  <2>1. requests # <<>> /\ replies' = Append(replies, a)
        /\ (requests' = Tail(requests) \/ requests' = <<>>)
        /\ UNCHANGED <<configVars, phase, step, confirmed, calls, losses>>
    BY <1>6 DEF BrokerReplies
  <2>2. Accepts(r) \in BOOLEAN
    BY DEF Accepts
  <2>3. /\ r \in Request /\ Tail(requests) \in Seq(Request)
        /\ phase \in {"rebuild", "ready"}
    BY <2>1, FirstRequest
  <2>4. broker' \subseteq ExchangeEntity \cup QueueEntity \cup BindingEntity
    <3>1. r.what.kind # "consume" =>
            r.what \in ExchangeEntity \cup QueueEntity \cup BindingEntity
      BY <2>3, RequestKinds, SpecFields DEF Declaration
    <3> QED
      BY <1>6, <3>1 DEF BrokerReplies, TypeOK
  <2>5. requests' \in Seq(Request) /\ replies' \in Seq(Reply)
    <3>1. a \in Reply /\ replies \in Seq(Reply)
      BY <2>2, <2>3 DEF Reply, TypeOK
    <3> QED
      BY <2>1, <2>3, <3>1, EmptySeq, AppendProperties
  <2>6. TypeOK'
    BY <1>a, <2>1, <2>4, <2>5 DEF TypeOK, Reply
  <2>7. CASE phase = "rebuild"
    <3>1. r = Plan[step + 1] /\ Tail(requests) = <<>> /\ replies = <<>>
      BY <2>1, <2>7, FirstRequest
    <3>2. requests' = <<>> /\ replies' = <<a>>
      BY <2>1, <3>1
    <3> QED
      BY <1>a, <2>1, <2>2, <2>6, <2>7, <3>1, <3>2 DEF RoundInv
  <2>8. CASE phase = "ready"
    <3>1. requests' \in Seq(Declaration)
      BY <2>1, <2>8, FirstRequest, EmptySeq
    <3>2. replies' \in Seq([request : Declaration, ok : BOOLEAN])
      <4>1. a \in [request : Declaration, ok : BOOLEAN]
        BY <2>1, <2>2, <2>8, FirstRequest
      <4>2. replies \in Seq([request : Declaration, ok : BOOLEAN])
        BY <2>8 DEF RoundInv
      <4> HIDE DEF a
      <4> QED
        BY <2>1, <4>1, <4>2, AppendProperties
    <3> QED
      BY <2>1, <2>6, <2>8, <3>1, <3>2 DEF RoundInv
  <2> QED
    BY <2>3, <2>7, <2>8
<1>7. CASE /\ UNCHANGED <<configVars, linkVars, confirmed, calls, losses>>
           /\ broker' \subseteq ExchangeEntity \cup QueueEntity \cup BindingEntity
  BY <1>7, <1>a DEF TypeOK, RoundInv
<1>8. ASSUME NEW S, BrokerLoses(S) PROVE TypeOK' /\ RoundInv'
  BY <1>7, <1>8 DEF BrokerLoses, TypeOK
<1>9. ASSUME NEW q \in Foreign, OthersDeclare(q) PROVE TypeOK' /\ RoundInv'
  <2>1. [kind |-> "queue", name |-> q, flavour |-> "volatile"] \in QueueEntity
    BY TopologyAssumption DEF QueueEntity, Flavours
  <2> QED
    BY <1>7, <1>9, <2>1 DEF OthersDeclare, TypeOK
<1>10. CASE Refused \/ LoseLink
  <2>1. losses' \in Nat
    BY <1>10 DEF Refused, LoseLink, TypeOK
  <2> QED
    BY <1>4, <1>10, <2>1 DEF Refused, LoseLink
<1>11. CASE UNCHANGED vars
  BY <1>7, <1>11 DEF vars, TypeOK
<1> QED
  BY <1>1, <1>2, <1>3, <1>5, <1>6, <1>8, <1>9, <1>10, <1>11, StepCases

(* The driver's copy of the configuration, the requests of a rebuild and   *)
(* the replies keep their types; a rebuild never counts beyond its plan.   *)
THEOREM TopologyTypeCorrect == Spec => []TypeOK
BY InitTypeOK, NextTypeOK, PTL DEF Spec
-----------------------------------------------------------------------------
(* Why the broker has nothing to refuse. What the driver keeps refers to   *)
(* what it keeps, agrees with what the broker has, and stands for all that *)
(* was confirmed.                                                          *)

HasQueue(q) == q \in Foreign \/ Known("queue", q)
HasEnds(r) == /\ r.what.kind = "binding" =>
                   Known("exchange", r.what.exchange) /\ HasQueue(r.what.queue)
              /\ r.what.kind = "consume" => HasQueue(r.what.queue)

EndsInv ==
  /\ \A r \in ToSet(Plan) : HasEnds(r)
  /\ \A r \in ToSet(requests) : HasEnds(r)
  /\ \A a \in ToSet(replies) : HasEnds(a.request)

(* Of the client's own exchanges and queues, those declared actively.      *)
IsActive(s) == /\ s.what.kind \in {"exchange", "queue"}
               /\ ~s.passive /\ ~NamesForeign(s)
Remembered == Kept \cup confirmed

(* There are never two of a name, neither of those that exist nor of those *)
(* that were declared.                                                     *)
AgreeInv ==
  /\ \A e, f \in broker : e.kind # "binding" /\ IsSame(e, f) => e = f
  /\ \A s, t \in Remembered :
       IsActive(s) /\ IsActive(t) /\ IsSame(s.what, t.what) => s.what = t.what
  /\ \A s \in Remembered, e \in broker :
       IsActive(s) /\ IsSame(e, s.what) => e = s.what

RememberInv ==
  \A s \in confirmed : \E t \in Kept : IsSame(t.what, s.what)

(* Done with a request: what it asked for is there, as far as that is in   *)
(* the client's hand.                                                      *)
Done(r) == r.what.kind = "consume" \/ NamesForeign(r) \/ Present(r)

DoneInv ==
  /\ phase = "rebuild" => \A i \in 1 .. step : Done(Plan[i])
  /\ phase = "ready" => \A r \in Kept : Done(r)
  /\ \A a \in ToSet(replies) : a.ok => Done(a.request)

TopologyInv ==
  /\ TypeOK /\ RoundInv
  /\ EndsInv /\ AgreeInv /\ RememberInv /\ DoneInv /\ RebuildNeverRefused

LEMMA TypedParts ==
  ASSUME TypeOK
  PROVE  /\ ConfigTyped
         /\ Kept \subseteq Declaration /\ Specs \subseteq Kept
         /\ Remembered \subseteq Declaration
         /\ ToSet(Plan) = Kept \cup ToSet(ConsumerRequests)
         /\ ToSet(Plan) \subseteq Request
         /\ \A r \in ToSet(requests) : r \in Request
         /\ \A a \in ToSet(replies) : a \in Reply /\ a.request \in Request
<1>1. ConfigTyped
  BY DEF TypeOK, ConfigTyped
<1>2. /\ \A s \in ToSet(exchanges) : s \in ExchangeSpec
      /\ \A s \in ToSet(queues) : s \in QueueSpec
      /\ \A s \in ToSet(bindings) : s \in BindingSpec
  BY <1>1, MemberIndex, ElementOfSeq DEF ConfigTyped
<1>3. Plan \in Seq(Request) /\ ToSet(Plan) = Kept \cup ToSet(ConsumerRequests)
  BY <1>1, PlanTyped
<1>4. \A r \in ToSet(Plan) : r \in Request
  BY <1>3, MemberIndex, ElementOfSeq
<1>5. \A r \in ToSet(requests) : r \in Request
  BY MemberIndex, ElementOfSeq DEF TypeOK
<1>6. \A a \in ToSet(replies) : a \in Reply
  <2>1. replies \in Seq(Reply)
    BY DEF TypeOK, Reply
  <2> QED
    BY <2>1, MemberIndex, ElementOfSeq
<1>7. \A a \in Reply : a.request \in Request
  BY DEF Reply
<1> QED
  BY <1>1, <1>2, <1>3, <1>4, <1>5, <1>6, <1>7
     DEF Kept, Specs, Remembered, Declaration, TypeOK

NamesKept ==
  \A n : \A kind \in {"exchange", "queue"} :
    Known(kind, n) <=> \E s \in Kept : s.what.kind = kind /\ s.what.name = n

LEMMA KnownIsKept == ConfigTyped => NamesKept
<1> SUFFICES ASSUME ConfigTyped, NEW kind \in {"exchange", "queue"}, NEW n
             PROVE  Known(kind, n)
                      <=> \E s \in Kept : s.what.kind = kind /\ s.what.name = n
  BY DEF NamesKept
<1>1. \A s \in ToSet(bindings) : s \in BindingSpec
  BY MemberIndex, ElementOfSeq DEF ConfigTyped
<1>2. \A s \in BindingSpec : s.what.kind = "binding"
  BY DEF BindingSpec, BindingEntity
<1> QED
  BY <1>1, <1>2 DEF Known, Kept

(* A declaration of the application forgets no name.                       *)
LEMMA KeepsEnds ==
  ASSUME ConfigTyped, NEW spec \in Declaration, Keep(spec), NEW r, HasEnds(r)
  PROVE  HasEnds(r)'
<1>1. /\ ConfigTyped' /\ spec \in Kept'
      /\ \A t \in Kept : t \in Kept' \/ IsSame(t.what, spec.what)
  BY KeepTyped
<1>2. ASSUME NEW kind \in {"exchange", "queue"}, NEW n, Known(kind, n)
      PROVE  Known(kind, n)'
  <2>1. PICK t \in Kept : t.what.kind = kind /\ t.what.name = n
    BY <1>2, KnownIsKept DEF NamesKept
  <2>2. \E u \in Kept' : u.what.kind = kind /\ u.what.name = n
    <3>1. CASE t \in Kept'
      BY <2>1, <3>1
    <3>2. CASE IsSame(t.what, spec.what)
      <4>1. spec.what.kind = kind /\ spec.what.name = n
        BY <2>1, <3>2 DEF IsSame
      <4> QED
        BY <1>1, <4>1
    <3> QED
      BY <1>1, <3>1, <3>2
  <2>3. NamesKept'
    BY <1>1, KnownIsKept, PTL
  <2> QED
    BY <2>2, <2>3 DEF NamesKept, Known
<1> QED
  BY <1>2 DEF HasEnds, HasQueue

LEMMA NextEndsInv ==
  ASSUME TypeOK, RoundInv, EndsInv, [Next]_vars
  PROVE  EndsInv'
<1> USE DEF linkVars
<1>1. ConfigTyped /\ ToSet(Plan) = Kept \cup ToSet(ConsumerRequests)
  BY TypedParts
<1>2. UNCHANGED configVars => Plan' = Plan /\ (\A r : HasEnds(r)' <=> HasEnds(r))
  BY ConfigStays DEF HasEnds, HasQueue, Known, configVars
<1>3. ASSUME UNCHANGED configVars,
             \A r \in ToSet(requests') : r \in ToSet(requests) \/ HasEnds(r),
             \A a \in ToSet(replies') : a \in ToSet(replies) \/ HasEnds(a.request)
      PROVE  EndsInv'
  BY <1>2, <1>3 DEF EndsInv
<1>4. ToSet(<<>>) = {}
  BY EmptyToSet
<1>5. ASSUME NEW i \in 0 .. Len(Plan), RebuildTo(i, <<>>)
      PROVE  \A r \in ToSet(requests') : HasEnds(r)
  <2>1. CASE i = Len(Plan)
    BY <1>4, <1>5, <2>1 DEF RebuildTo
  <2>2. CASE i # Len(Plan)
    <3>1. i + 1 \in 1 .. Len(Plan) /\ Plan \in Seq(Request)
      <4>1. Len(Plan) \in Nat /\ Plan \in Seq(Request)
        BY <1>1, PlanTyped
      <4> QED
        BY <2>2, <4>1
    <3>2. Plan[i + 1] \in ToSet(Plan) /\ Plan[i + 1] \in Request
      BY <3>1, MemberIndex, ElementOfSeq
    <3>3. requests' = <<Plan[i + 1]>>
      BY <1>5, <2>2 DEF RebuildTo
    <3>4. ToSet(requests') = {Plan[i + 1]}
      BY <3>2, <3>3, SingletonToSet
    <3> QED
      BY <3>2, <3>4 DEF EndsInv
  <2> QED
    BY <2>1, <2>2
<1>6. CASE Connect
  <2>1. 0 \in 0 .. Len(Plan)
    BY <1>1, PlanTyped
  <2> QED
    BY <1>3, <1>5, <1>6, <2>1 DEF Connect
<1>7. CASE RebuildReply
  <2>1. /\ UNCHANGED configVars /\ RebuildTo(step + 1, <<>>) /\ replies' = <<>>
        /\ step + 1 \in 0 .. Len(Plan)
    BY <1>1, <1>7, PlanTyped, FirstReply DEF RebuildReply, RoundInv
  <2> QED
    BY <1>3, <1>4, <1>5, <2>1
<1>8. CASE DeclareConfirmed
  <2> DEFINE spec == Head(replies).request
  <2>1. /\ spec \in Declaration /\ Keep(spec) /\ replies' = Tail(replies)
        /\ ToSet(Tail(replies)) \subseteq ToSet(replies)
        /\ Head(replies) \in ToSet(replies)
        /\ requests' = requests
    BY <1>8, FirstReply DEF DeclareConfirmed
  <2>2. HasEnds(spec) /\ ConfigTyped' /\ Kept' \subseteq Kept \cup {spec}
    BY <1>1, <2>1, KeepTyped DEF EndsInv
  <2>3. ToSet(Plan)' = Kept' \cup ToSet(ConsumerRequests)
    <3>1. (ToSet(Plan) = Kept \cup ToSet(ConsumerRequests))'
      BY <2>2, PlanTyped, PTL
    <3> QED
      BY <3>1 DEF ConsumerRequests
  <2>4. \A r : HasEnds(r) => HasEnds(r)'
    BY <1>1, <2>1, KeepsEnds
  <2>5. \A r \in ToSet(Plan)' : HasEnds(r)
    BY <1>1, <2>2, <2>3 DEF EndsInv
  <2> QED
    BY <2>1, <2>4, <2>5 DEF EndsInv
<1>9. CASE Drop /\ UNCHANGED configVars
  BY <1>3, <1>4, <1>9 DEF Drop
<1>10. ASSUME NEW spec \in Declaration, Declare(spec)
       PROVE  EndsInv'
  <2>1. HasEnds(spec)
    BY <1>10, RequestKinds DEF Declare, MayDeclare, HasEnds, HasQueue
  <2>2. ToSet(requests') = ToSet(requests) \cup {spec}
    BY <1>10, RequestKinds, AppendToSet DEF Declare, TypeOK
  <2> QED
    BY <1>3, <1>10, <2>1, <2>2 DEF Declare
<1>11. CASE BrokerReplies
  <2> DEFINE a == [request |-> Head(requests), ok |-> Accepts(Head(requests))]
  <2>1. /\ requests # <<>> /\ replies' = Append(replies, a) /\ UNCHANGED configVars
        /\ requests' = Tail(requests) \/ requests' = <<>>
    BY <1>11 DEF BrokerReplies
  <2>2. /\ Head(requests) \in Request /\ HasEnds(Head(requests))
        /\ ToSet(Tail(requests)) \subseteq ToSet(requests)
    BY <2>1, FirstRequest DEF EndsInv
  <2>3. ToSet(replies') = ToSet(replies) \cup {a}
    <3>1. a \in Reply /\ replies \in Seq(Reply)
      BY <2>2 DEF Reply, Accepts, TypeOK
    <3> HIDE DEF a
    <3> QED
      BY <2>1, <3>1, AppendToSet
  <2>4. a.request = Head(requests)
    OBVIOUS
  <2>5. \A r \in ToSet(requests') : r \in ToSet(requests)
    BY <1>4, <2>1, <2>2
  <2> HIDE DEF a
  <2> QED
    BY <1>3, <2>1, <2>2, <2>3, <2>4, <2>5
<1>12. CASE UNCHANGED <<configVars, linkVars>>
  BY <1>3, <1>12
<1> QED
  BY <1>6, <1>7, <1>8, <1>9, <1>10, <1>11, <1>12, StepCases
     DEF Refused, LoseLink, BrokerLoses, OthersDeclare, vars
-----------------------------------------------------------------------------
(* What is there stays, as long as the connection does.                    *)

LEMMA PresentStays ==
  ASSUME broker \subseteq broker', NEW r, Done(r)
  PROVE  Done(r)'
BY DEF Done, Present, Exists, NamesForeign

LEMMA PresentOutlivesOthers ==
  ASSUME NEW S, BrokerLoses(S), phase # "down", NEW r \in Request, Done(r)
  PROVE  Done(r)'
<1>1. S \subseteq OfOthers
  BY DEF BrokerLoses
<1> SUFFICES ASSUME r.what.kind # "consume", ~NamesForeign(r), Present(r)
             PROVE  Present(r)'
  BY DEF Done, NamesForeign
<1>2. \A e \in broker : e.kind = "exchange" => e \in broker'
  BY <1>1 DEF BrokerLoses, OfOthers
<1>3. \A e \in broker : e.kind = "queue" /\ e.name \notin Foreign => e \in broker'
  BY <1>1 DEF BrokerLoses, OfOthers
<1>4. \A e \in broker : e.kind = "binding" /\ e.queue \notin Foreign => e \in broker'
  BY <1>1 DEF BrokerLoses, OfOthers
<1>5. CASE r.passive
  <2>1. PICK e \in broker : e.kind = r.what.kind /\ e.name = r.what.name
    BY <1>5 DEF Present, Exists
  <2>2. r.what.kind \in {"exchange", "queue"}
    BY <1>5, RequestKinds, SpecFields
  <2>3. e \in broker'
    BY <1>2, <1>3, <2>1, <2>2 DEF NamesForeign
  <2> QED
    BY <1>5, <2>1, <2>3 DEF Present, Exists
<1>6. CASE ~r.passive
  <2>1. r.what \in broker
    BY <1>6 DEF Present
  <2>2. r.what \in broker'
    BY <1>2, <1>3, <1>4, <2>1, RequestKinds DEF NamesForeign
  <2> QED
    BY <1>6, <2>2 DEF Present
<1> QED
  BY <1>5, <1>6

(* What the broker accepts is there from then on.                          *)
LEMMA AcceptedIsDone ==
  ASSUME NEW r \in Request, Accepts(r),
         ~r.passive /\ r.what.kind # "consume" => r.what \in broker',
         broker \subseteq broker'
  PROVE  Done(r)'
<1> SUFFICES ASSUME r.what.kind # "consume" PROVE Present(r)'
  BY DEF Done
<1>1. CASE r.passive
  <2>1. r.what.kind \in {"exchange", "queue"}
    BY <1>1, RequestKinds, SpecFields
  <2>2. Exists(r.what.kind, r.what.name)
    BY <1>1, <2>1 DEF Accepts
  <2> QED
    BY <1>1, <2>2 DEF Present, Exists
<1> QED
  BY <1>1 DEF Present

(* While the connection is ready, all that was confirmed of the client's   *)
(* own exchanges and queues is there.                                      *)
LEMMA ConfirmedThere ==
  ASSUME TypeOK, AgreeInv, RememberInv, DoneInv, phase = "ready",
         NEW s \in confirmed, s.what.kind \in {"exchange", "queue"}, ~NamesForeign(s)
  PROVE  Present(s)
<1>1. PICK t \in Kept : IsSame(t.what, s.what)
  BY DEF RememberInv
<1>2. /\ t.what.kind = s.what.kind /\ t.what.name = s.what.name
      /\ ~NamesForeign(t)
  BY <1>1 DEF IsSame, NamesForeign
<1>3. Present(t)
  BY <1>1, <1>2 DEF DoneInv, Done
<1>4. \E e \in broker : e.kind = s.what.kind /\ e.name = s.what.name
  <2>1. CASE t.passive BY <1>2, <1>3, <2>1 DEF Present, Exists
  <2>2. CASE ~t.passive BY <1>2, <1>3, <2>2 DEF Present
  <2> QED
    BY <2>1, <2>2
<1>5. CASE s.passive
  BY <1>4, <1>5 DEF Present, Exists
<1>6. CASE ~s.passive
  <2>1. PICK e \in broker : e.kind = s.what.kind /\ e.name = s.what.name
    BY <1>4
  <2>2. IsSame(e, s.what) /\ IsActive(s) /\ s \in Remembered
    BY <1>6, <2>1 DEF IsSame, IsActive, Remembered
  <2> QED
    BY <1>6, <2>1, <2>2 DEF AgreeInv, Present
<1> QED
  BY <1>5, <1>6

LEMMA NextAgreeInv ==
  ASSUME TypeOK, RoundInv, AgreeInv, RememberInv, DoneInv, [Next]_vars
  PROVE  AgreeInv'
<1> USE DEF linkVars
<1>1. ASSUME broker' \subseteq broker, Remembered' = Remembered
      PROVE  AgreeInv'
  BY <1>1 DEF AgreeInv, IsActive, NamesForeign
<1>2. UNCHANGED <<configVars, confirmed>> => Remembered' = Remembered
  BY ConfigStays DEF Remembered
<1>3. CASE DeclareConfirmed
  <2> DEFINE spec == Head(replies).request
  <2>1. /\ spec \in Declaration /\ Keep(spec) /\ broker' = broker
        /\ Head(replies) \in ToSet(replies) /\ Head(replies).ok
        /\ confirmed' = confirmed \cup {spec}
    BY <1>3, FirstReply DEF DeclareConfirmed
  <2>2. Done(spec)
    BY <2>1 DEF DoneInv
  <2> HIDE DEF spec
  <2>3. Remembered' \subseteq Remembered \cup {spec}
    BY <2>1, TypedParts, KeepTyped DEF Remembered
  <2>4. IsActive(spec) => spec.what \in broker
    BY <2>2 DEF IsActive, Done, Present
  <2>5. \A s : IsActive(s)' <=> IsActive(s)
    BY DEF IsActive, NamesForeign
  <2>6. ASSUME NEW s \in Remembered \cup {spec}, NEW e \in broker,
               IsActive(s), IsSame(e, s.what)
        PROVE  e = s.what
    <3>1. CASE s \in Remembered
      BY <2>6, <3>1 DEF AgreeInv
    <3>2. CASE s = spec
      <4>1. e.kind # "binding"
        BY <2>6 DEF IsSame, IsActive
      <4> QED
        BY <2>4, <2>6, <3>2, <4>1 DEF AgreeInv
    <3> QED
      BY <3>1, <3>2
  <2>7. ASSUME NEW s \in Remembered \cup {spec}, NEW t \in Remembered \cup {spec},
               IsActive(s), IsActive(t), IsSame(s.what, t.what)
        PROVE  s.what = t.what
    <3>1. CASE s \in Remembered /\ t \in Remembered
      BY <2>7, <3>1 DEF AgreeInv
    <3>2. CASE s = spec
      BY <2>4, <2>6, <2>7, <3>2
    <3>3. CASE t = spec
      <4>1. IsSame(t.what, s.what)
        BY <2>7, SameAsItself
      <4> QED
        BY <2>4, <2>6, <2>7, <3>3, <4>1
    <3> QED
      BY <3>1, <3>2, <3>3
  <2> QED
    BY <2>1, <2>3, <2>5, <2>6, <2>7 DEF AgreeInv
<1>4. CASE BrokerReplies /\ broker' # broker
  <2> DEFINE r == Head(requests)
  <2>1. /\ r \in Request /\ requests # <<>>
        /\ phase \in {"rebuild", "ready"}
        /\ phase = "rebuild" => r = Plan[step + 1]
    BY <1>4, FirstRequest DEF BrokerReplies
  <2>2. /\ Accepts(r) /\ ~r.passive /\ r.what.kind # "consume"
        /\ broker' = broker \cup {r.what}
        /\ Remembered' = Remembered
    BY <1>2, <1>4 DEF BrokerReplies
  <2> HIDE DEF r
  <2>3. r.what.kind \in {"exchange", "queue"} =>
          \A e \in broker : IsSame(e, r.what) => e = r.what
    BY <2>2 DEF Accepts
  <2>4. r.what.kind \in {"exchange", "queue", "binding"}
    BY <2>1, <2>2, RequestKinds
  <2>5. ASSUME NEW s \in Remembered, IsActive(s), IsSame(r.what, s.what)
        PROVE  r.what = s.what
    <3>1. IsActive(r) /\ r.what.kind \in {"exchange", "queue"}
      BY <2>2, <2>5 DEF IsActive, IsSame, NamesForeign
    <3>2. CASE phase = "rebuild"
      <4>1. step + 1 \in 1 .. Len(Plan) /\ Plan \in Seq(Request)
        BY <3>2, TypedParts, PlanTyped DEF RoundInv
      <4>2. r \in ToSet(Plan)
        BY <2>1, <3>2, <4>1, MemberIndex
      <4>3. r \in Kept
        BY <2>2, <4>2, TypedParts, ConsumersTyped
      <4> QED
        BY <2>5, <3>1, <4>3 DEF AgreeInv, Remembered
    <3>3. CASE phase = "ready"
      <4>1. Present(s)
        <5>1. CASE s \in Kept
          BY <2>5, <3>3, <5>1 DEF DoneInv, Done, IsActive
        <5>2. CASE s \in confirmed
          BY <2>5, <3>3, <5>2, ConfirmedThere DEF IsActive
        <5> QED
          BY <5>1, <5>2 DEF Remembered
      <4>2. s.what \in broker
        BY <2>5, <4>1 DEF Present, IsActive
      <4> QED
        BY <2>3, <2>5, <3>1, <4>2, SameAsItself
    <3> QED
      BY <2>1, <3>2, <3>3
  <2>6. \A s : IsActive(s)' <=> IsActive(s)
    BY DEF IsActive, NamesForeign
  <2>7. ASSUME NEW e \in broker', NEW f \in broker', e.kind # "binding", IsSame(e, f)
        PROVE  e = f
    <3>1. f.kind = e.kind /\ IsSame(f, e)
      BY <2>7, SameAsItself DEF IsSame
    <3> QED
      BY <2>2, <2>3, <2>4, <2>7, <3>1 DEF AgreeInv
  <2>8. ASSUME NEW s \in Remembered, NEW e \in broker', IsActive(s), IsSame(e, s.what)
        PROVE  e = s.what
    BY <2>2, <2>5, <2>8 DEF AgreeInv
  <2> QED
    BY <2>2, <2>6, <2>7, <2>8 DEF AgreeInv
<1>5. ASSUME NEW q \in Foreign, OthersDeclare(q)
      PROVE  AgreeInv'
  <2> DEFINE new == [kind |-> "queue", name |-> q, flavour |-> "volatile"]
  <2>1. /\ broker' = broker \cup {new} /\ Remembered' = Remembered
        /\ ~Exists("queue", q)
    BY <1>2, <1>5 DEF OthersDeclare
  <2>2. new.kind = "queue" /\ new.name = q
    OBVIOUS
  <2> HIDE DEF new
  <2>3. \A e \in broker : ~IsSame(e, new) /\ ~IsSame(new, e)
    BY <2>1, <2>2 DEF IsSame, Exists
  <2>4. \A s : IsActive(s) => ~IsSame(new, s.what)
    BY <2>2 DEF IsActive, NamesForeign, IsSame
  <2>5. \A s : IsActive(s)' <=> IsActive(s)
    BY DEF IsActive, NamesForeign
  <2> QED
    BY <2>1, <2>3, <2>4, <2>5 DEF AgreeInv
<1>6. ASSUME NEW S, BrokerLoses(S) PROVE AgreeInv'
  BY <1>1, <1>2, <1>6 DEF BrokerLoses
<1> QED
  BY <1>1, <1>2, <1>3, <1>4, <1>5, <1>6, StepCases
     DEF Connect, RebuildReply, Refused, LoseLink, Declare, BrokerReplies, vars

LEMMA NextRememberInv ==
  ASSUME TypeOK, RoundInv, RememberInv, [Next]_vars
  PROVE  RememberInv'
<1> USE DEF linkVars
<1>1. CASE UNCHANGED <<configVars, confirmed>>
  BY <1>1, ConfigStays DEF RememberInv
<1>2. CASE DeclareConfirmed
  <2> DEFINE spec == Head(replies).request
  <2>1. /\ spec \in Declaration /\ Keep(spec) /\ confirmed' = confirmed \cup {spec}
    BY <1>2, FirstReply DEF DeclareConfirmed
  <2> HIDE DEF spec
  <2>2. spec \in Kept' /\ \A t \in Kept : t \in Kept' \/ IsSame(t.what, spec.what)
    BY <2>1, TypedParts, KeepTyped
  <2>3. ASSUME NEW s \in confirmed PROVE \E t \in Kept' : IsSame(t.what, s.what)
    <3>1. PICK t \in Kept : IsSame(t.what, s.what)
      BY DEF RememberInv
    <3>2. CASE t \in Kept'
      BY <3>1, <3>2
    <3>3. CASE IsSame(t.what, spec.what)
      BY <2>2, <3>1, <3>3, SameAsItself
    <3> QED
      BY <2>2, <3>2, <3>3
  <2> QED
    BY <2>1, <2>2, <2>3, SameAsItself DEF RememberInv
<1> QED
  BY <1>1, <1>2, StepCases
     DEF Connect, RebuildReply, Refused, LoseLink, Declare, BrokerReplies,
         BrokerLoses, OthersDeclare, vars
LEMMA NextDoneInv ==
  ASSUME TypeOK, RoundInv, DoneInv, [Next]_vars
  PROVE  DoneInv'
<1> USE DEF linkVars
<1>1. ConfigTyped /\ ToSet(Plan) = Kept \cup ToSet(ConsumerRequests)
  BY TypedParts
<1>2. ToSet(<<>>) = {}
  BY EmptyToSet
<1>3. ASSUME UNCHANGED configVars, broker' = broker, replies' = <<>>,
             NEW i \in 0 .. Len(Plan), RebuildTo(i, <<>>),
             \A j \in 1 .. i : Done(Plan[j])
      PROVE  DoneInv'
  <2>1. Plan' = Plan /\ Kept' = Kept /\ \A r : Done(r)' <=> Done(r)
    BY <1>3, ConfigStays DEF Done, NamesForeign, Present, Exists
  <2>2. CASE i = Len(Plan)
    <3>1. \A r \in Kept : \E j \in 1 .. Len(Plan) : Plan[j] = r
      BY <1>1, PlanTyped, MemberIndex
    <3>2. phase' = "ready"
      BY <1>3, <2>2 DEF RebuildTo
    <3> QED
      BY <1>2, <1>3, <2>1, <2>2, <3>1, <3>2 DEF DoneInv
  <2>3. CASE i # Len(Plan)
    <3>1. phase' = "rebuild" /\ step' = i
      BY <1>3, <2>3 DEF RebuildTo
    <3> QED
      BY <1>2, <1>3, <2>1, <3>1 DEF DoneInv
  <2> QED
    BY <2>2, <2>3
<1>4. CASE Connect
  <2>1. /\ UNCHANGED configVars /\ broker' = broker /\ replies' = <<>>
        /\ RebuildTo(0, <<>>)
    BY <1>4 DEF Connect, RoundInv
  <2>2. 0 \in 0 .. Len(Plan) /\ \A j \in 1 .. 0 : Done(Plan[j])
    BY <1>1, PlanTyped
  <2> QED
    BY <1>3, <2>1, <2>2
<1>5. CASE RebuildReply
  <2>1. /\ UNCHANGED configVars /\ broker' = broker /\ replies' = <<>>
        /\ RebuildTo(step + 1, <<>>) /\ phase = "rebuild"
        /\ Head(replies).ok /\ Head(replies) \in ToSet(replies)
        /\ Head(replies).request = Plan[step + 1]
    BY <1>5, FirstReply DEF RebuildReply
  <2>2. step + 1 \in 0 .. Len(Plan) /\ step \in Nat
    BY <1>1, <2>1, PlanTyped DEF RoundInv, TypeOK
  <2>3. \A j \in 1 .. step + 1 : j \in 1 .. step \/ j = step + 1
    BY <2>2
  <2>4. \A j \in 1 .. step + 1 : Done(Plan[j])
    BY <2>1, <2>3 DEF DoneInv
  <2> QED
    BY <1>3, <2>1, <2>2, <2>4
<1>6. CASE DeclareConfirmed
  <2> DEFINE spec == Head(replies).request
  <2>1. /\ spec \in Declaration /\ Keep(spec) /\ broker' = broker
        /\ Head(replies) \in ToSet(replies) /\ Head(replies).ok
        /\ replies' = Tail(replies) /\ ToSet(Tail(replies)) \subseteq ToSet(replies)
        /\ phase = "ready" /\ phase' = "ready"
    BY <1>6, FirstReply DEF DeclareConfirmed
  <2>2. Done(spec)
    BY <2>1 DEF DoneInv
  <2>3. Kept' \subseteq Kept \cup {spec}
    BY <1>1, <2>1, KeepTyped
  <2>4. \A r : Done(r)' <=> Done(r)
    BY <2>1 DEF Done, NamesForeign, Present, Exists
  <2> HIDE DEF spec
  <2> QED
    BY <2>1, <2>2, <2>3, <2>4 DEF DoneInv
<1>7. CASE Drop
  BY <1>2, <1>7 DEF Drop, DoneInv
<1>8. ASSUME UNCHANGED <<configVars, phase, step>>, phase # "down",
             \A r \in Request : Done(r) => Done(r)',
             \A a \in ToSet(replies') : a \in ToSet(replies) \/ (a.ok => Done(a.request)')
      PROVE  DoneInv'
  <2>1. Plan' = Plan /\ Kept' = Kept /\ Kept \subseteq Request
    BY <1>8, ConfigStays, TypedParts, RequestKinds
  <2>2. ASSUME phase = "rebuild", NEW i \in 1 .. step
        PROVE  Done(Plan[i])'
    <3>1. i \in 1 .. Len(Plan)
      <4>1. step \in 0 .. Len(Plan) /\ Len(Plan) \in Nat
        BY <1>1, PlanTyped DEF TypeOK
      <4> QED
        BY <4>1
    <3>2. PICK r \in Request : r = Plan[i]
      BY <1>1, <3>1, PlanTyped
    <3>3. Done(r)
      BY <2>2, <3>2 DEF DoneInv
    <3>4. Done(r)'
      BY <1>8, <3>3
    <3>5. Plan'[i] = r
      BY <2>1, <3>2
    <3> QED
      BY <3>4, <3>5 DEF Done, NamesForeign, Present, Exists
  <2>3. phase = "ready" => \A r \in Kept : Done(r)'
    BY <1>8, <2>1 DEF DoneInv
  <2>4. \A a \in ToSet(replies') : a.ok => Done(a.request)'
    BY <1>8, TypedParts DEF DoneInv
  <2> QED
    BY <1>8, <2>1, <2>2, <2>3, <2>4 DEF DoneInv
<1>9. ASSUME NEW spec \in Declaration, Declare(spec)
      PROVE  DoneInv'
  <2>1. \A r \in Request : Done(r) => Done(r)'
    BY <1>9, PresentStays DEF Declare
  <2> QED
    BY <1>8, <1>9, <2>1 DEF Declare
<1>10. CASE BrokerReplies
  <2>1. PICK r \in Request : r = Head(requests)
    BY <1>10, FirstRequest DEF BrokerReplies
  <2>2. PICK a \in Reply : a.request = r /\ (a.ok <=> Accepts(r))
                         /\ replies' = Append(replies, a)
    <3> DEFINE x == [request |-> Head(requests), ok |-> Accepts(Head(requests))]
    <3>1. replies' = Append(replies, x)
      BY <1>10 DEF BrokerReplies
    <3>2. x \in Reply
      BY <2>1 DEF Reply, Accepts
    <3>3. x.request = r /\ x.ok = Accepts(r)
      BY <2>1
    <3> HIDE DEF x
    <3> QED
      BY <3>1, <3>2, <3>3
  <2>3. /\ UNCHANGED <<configVars, phase, step>> /\ phase # "down"
        /\ broker \subseteq broker'
        /\ Accepts(r) /\ ~r.passive /\ r.what.kind # "consume" => r.what \in broker'
    BY <1>10, <2>1, FirstRequest DEF BrokerReplies
  <2>4. a.ok => Done(r)'
    BY <2>2, <2>3, AcceptedIsDone
  <2>5. a.ok => Done(a.request)'
    BY <2>2, <2>4
  <2>6. ToSet(replies') = ToSet(replies) \cup {a}
    <3>1. replies \in Seq(Reply)
      BY DEF TypeOK, Reply
    <3> QED
      BY <2>2, <3>1, AppendToSet
  <2>7. \A x \in Request : Done(x) => Done(x)'
    BY <2>3, PresentStays
  <2>8. \A x \in ToSet(replies') : x \in ToSet(replies) \/ (x.ok => Done(x.request)')
    BY <2>5, <2>6
  <2> QED
    BY <1>8, <2>3, <2>7, <2>8
<1>11. ASSUME UNCHANGED <<configVars, linkVars>>, broker \subseteq broker'
       PROVE  DoneInv'
  <2>1. \A r : Done(r) => Done(r)'
    BY <1>11, PresentStays
  <2> QED
    BY <1>8, <1>11, <2>1, <1>2 DEF DoneInv, RoundInv
<1>12. ASSUME NEW S, BrokerLoses(S) PROVE DoneInv'
  <2>1. CASE phase = "down"
    BY <1>2, <1>12, <2>1 DEF BrokerLoses, RoundInv, DoneInv
  <2>2. CASE phase # "down"
    BY <1>8, <1>12, <2>2, PresentOutlivesOthers DEF BrokerLoses
  <2> QED
    BY <2>1, <2>2
<1>13. \A q \in Foreign :
         OthersDeclare(q) => UNCHANGED <<configVars, linkVars>> /\ broker \subseteq broker'
  BY DEF OthersDeclare
<1> QED
  BY <1>4, <1>5, <1>6, <1>7, <1>9, <1>10, <1>11, <1>12, <1>13, StepCases
     DEF Refused, LoseLink, vars

-----------------------------------------------------------------------------
(* What the rebuild asks for next finds what it refers to.                 *)

LEMMA EndIsThere ==
  ASSUME TypeOK, RoundInv, DoneInv, phase = "rebuild",
         Plan[step + 1].what.kind \in {"binding", "consume"},
         NEW kind \in {"exchange", "queue"}, NEW n, Known(kind, n),
         kind = "queue" => n \notin Foreign
  PROVE  Exists(kind, n)
<1>1. PICK s \in Specs : s.what.kind = kind /\ s.what.name = n
  BY DEF Known, Specs
<1>2. ConfigTyped /\ step + 1 \in 1 .. Len(Plan) /\ step \in Nat
  BY TypedParts DEF RoundInv, TypeOK
<1>3. PICK j \in 1 .. step : Plan[j] = s
  <2>1. \E j \in 1 .. (step + 1) - 1 : Plan[j] = s
    BY <1>2, PlanOrder
  <2>2. (step + 1) - 1 = step
    BY <1>2
  <2> QED
    BY <2>1, <2>2
<1>4. Done(s)
  BY <1>3 DEF DoneInv
<1>5. Present(s)
  BY <1>1, <1>4 DEF Done, NamesForeign
<1> QED
  BY <1>1, <1>5 DEF Present, Exists

LEMMA RebuildAccepted ==
  ASSUME TypeOK, RoundInv, EndsInv, AgreeInv, DoneInv, phase = "rebuild",
         ~Accepts(Plan[step + 1])
  PROVE  Plan[step + 1] \in DependsOnOthers
<1> DEFINE r == Plan[step + 1]
<1>1. r \in ToSet(Plan) /\ r \in Request /\ HasEnds(r)
  <2>1. step + 1 \in 1 .. Len(Plan) /\ Plan \in Seq(Request)
    BY TypedParts, PlanTyped DEF RoundInv
  <2>2. r \in ToSet(Plan)
    BY <2>1, MemberIndex
  <2> QED
    BY <2>2, TypedParts DEF EndsInv
<1> SUFFICES ASSUME ~r.passive, ~NamesForeign(r) PROVE FALSE
  BY <1>1 DEF DependsOnOthers
<1>2. r.what.kind \in {"exchange", "queue", "binding", "consume"}
  BY <1>1, RequestKinds
<1>3. CASE r.what.kind \in {"exchange", "queue"}
  <2>1. r \in Kept /\ IsActive(r)
    BY <1>1, <1>3, TypedParts, ConsumersTyped DEF IsActive
  <2>2. \A e \in broker : IsSame(e, r.what) => e = r.what
    BY <2>1 DEF AgreeInv, Remembered
  <2> QED
    BY <1>3, <2>2 DEF Accepts
<1>4. CASE r.what.kind = "binding"
  <2>1. /\ Known("exchange", r.what.exchange) /\ Known("queue", r.what.queue)
        /\ r.what.queue \notin Foreign
    BY <1>1, <1>4 DEF HasEnds, HasQueue, NamesForeign
  <2>2. Exists("exchange", r.what.exchange) /\ Exists("queue", r.what.queue)
    BY <1>4, <2>1, EndIsThere
  <2> QED
    BY <1>4, <2>2 DEF Accepts
<1>5. CASE r.what.kind = "consume"
  <2>1. Known("queue", r.what.queue) /\ r.what.queue \notin Foreign
    BY <1>1, <1>5 DEF HasEnds, HasQueue, NamesForeign
  <2>2. Exists("queue", r.what.queue)
    BY <1>5, <2>1, EndIsThere
  <2> QED
    BY <1>5, <2>2 DEF Accepts
<1> QED
  BY <1>2, <1>3, <1>4, <1>5

LEMMA NextNeverRefused ==
  ASSUME TypeOK, RoundInv, EndsInv, AgreeInv, DoneInv, RebuildNeverRefused, [Next]_vars
  PROVE  RebuildNeverRefused'
<1> USE DEF linkVars
<1>1. CASE UNCHANGED <<configVars, phase, replies>>
  BY <1>1, ConfigStays DEF RebuildNeverRefused
<1>2. CASE phase' # "rebuild"
  BY <1>2 DEF RebuildNeverRefused
<1>3. CASE replies' = <<>>
  BY <1>3 DEF RebuildNeverRefused
<1>4. CASE BrokerReplies /\ phase = "rebuild"
  <2> DEFINE r == Head(requests)
  <2>1. /\ r = Plan[step + 1] /\ UNCHANGED configVars
        /\ replies' = <<[request |-> r, ok |-> Accepts(r)]>>
    BY <1>4, FirstRequest DEF BrokerReplies
  <2>2. ~Accepts(r) => r \in DependsOnOthers'
    BY <1>4, <2>1, RebuildAccepted, ConfigStays
  <2> HIDE DEF r
  <2> QED
    BY <2>1, <2>2 DEF RebuildNeverRefused
<1>5. RebuildReply => replies' = <<>>
  BY FirstReply DEF RebuildReply
<1>6. Connect => replies' = <<>>
  BY DEF Connect, RoundInv
<1> QED
  BY <1>1, <1>2, <1>3, <1>4, <1>5, <1>6, StepCases
     DEF DeclareConfirmed, Refused, LoseLink, Drop, Declare, BrokerReplies,
         BrokerLoses, OthersDeclare, vars

LEMMA InitTopologyInv == Init => TopologyInv
<1> SUFFICES ASSUME Init PROVE TopologyInv
  OBVIOUS
<1>1. TypeOK /\ RoundInv
  BY InitTypeOK
<1>2. /\ ConfigTyped /\ ToSet(Plan) = Kept \cup ToSet(ConsumerRequests)
      /\ ToSet(requests) = {} /\ ToSet(replies) = {}
  BY <1>1, TypedParts, EmptyToSet DEF Init
<1>3. /\ \A s \in ToSet(FileExchanges) : s \in ExchangeSpec
      /\ \A s \in ToSet(FileQueues) : s \in QueueSpec
      /\ \A s \in ToSet(FileBindings) : s \in BindingSpec
  BY TopologyAssumption, MemberIndex, ElementOfSeq
<1>4. /\ \A s \in ExchangeSpec : s \in Request /\ s.what.kind = "exchange"
      /\ \A s \in QueueSpec : s \in Request /\ s.what.kind = "queue"
      /\ \A s \in BindingSpec : s \in Request /\ s.what.kind = "binding"
  BY RequestKinds DEF Request, Declaration
<1>5. EndsInv
  <2>1. ASSUME NEW r \in Kept PROVE HasEnds(r)
    <3>1. r.what.kind # "binding" => HasEnds(r)
      BY <1>3, <1>4 DEF Init, Kept, HasEnds
    <3>2. ASSUME r \in ToSet(FileBindings) PROVE HasEnds(r)
      <4>1. r.what.kind = "binding"
        BY <1>3, <1>4, <3>2
      <4>2. /\ \E s \in ToSet(FileExchanges) : s.what.name = r.what.exchange
            /\ \E s \in ToSet(FileQueues) : s.what.name = r.what.queue
        BY <3>2, FileAssumption
      <4> QED
        BY <1>3, <1>4, <4>1, <4>2 DEF Init, HasEnds, HasQueue, Known
    <3> QED
      BY <1>3, <1>4, <3>1, <3>2 DEF Init, Kept
  <2>2. ASSUME NEW r \in ToSet(ConsumerRequests) PROVE HasEnds(r)
    <3>1. r.what.kind = "consume" /\ r.what.queue \in ToSet(FileConsumers)
      BY ConsumersTyped
    <3>2. \E s \in ToSet(FileQueues) : s.what.name = r.what.queue
      BY <3>1, FileAssumption
    <3> QED
      BY <1>3, <1>4, <3>1, <3>2 DEF Init, HasEnds, HasQueue, Known
  <2> QED
    BY <1>2, <2>1, <2>2 DEF EndsInv
<1>6. AgreeInv
  <2>1. broker = {} /\ Remembered = Kept
    BY DEF Init, Remembered
  <2> SUFFICES ASSUME NEW s \in Kept, NEW t \in Kept, IsActive(s), IsActive(t),
                      IsSame(s.what, t.what)
               PROVE  s = t
    BY <2>1 DEF AgreeInv
  <2>2. s.what.kind = t.what.kind
    BY DEF IsSame
  <2>3. CASE s \in ToSet(FileExchanges) /\ t \in ToSet(FileExchanges)
    BY <2>3, FileAssumption DEF Distinct, ToSet
  <2>4. CASE s \in ToSet(FileQueues) /\ t \in ToSet(FileQueues)
    BY <2>4, FileAssumption DEF Distinct, ToSet
  <2>5. \/ s \in ToSet(FileExchanges) /\ t \in ToSet(FileExchanges)
        \/ s \in ToSet(FileQueues) /\ t \in ToSet(FileQueues)
    BY <1>3, <1>4, <2>2 DEF Init, Kept, IsActive
  <2> QED
    BY <2>3, <2>4, <2>5
<1>7. RememberInv /\ DoneInv /\ RebuildNeverRefused
  BY <1>2 DEF Init, RememberInv, DoneInv, RebuildNeverRefused
<1> QED
  BY <1>1, <1>5, <1>6, <1>7 DEF TopologyInv

LEMMA NextTopologyInv == TopologyInv /\ [Next]_vars => TopologyInv'
BY NextTypeOK, NextEndsInv, NextAgreeInv, NextRememberInv, NextDoneInv,
   NextNeverRefused
   DEF TopologyInv

(* Whatever the application declared, whatever was confirmed, lost with a  *)
(* connection or forgotten by the broker: a reconnect's rebuild is refused *)
(* only over what the client depends on others for.                        *)
THEOREM RebuildIsNeverRefused == Spec => []RebuildNeverRefused
<1>1. TopologyInv => RebuildNeverRefused
  BY DEF TopologyInv
<1> QED
  BY <1>1, InitTopologyInv, NextTopologyInv, PTL DEF Spec

(* On a ready connection everything the application got Ok for is there,   *)
(* where bindings have no arguments to tell them apart; with arguments the *)
(* run topology_headers shows a binding that is lost.                      *)
THEOREM ConfirmedStaysPresent ==
  ASSUME \A a, b \in Arguments : a = b
  PROVE  Spec => []ConfirmedIsPresent
<1>1. TopologyInv => ConfirmedIsPresent
  <2> SUFFICES ASSUME TopologyInv, phase = "ready", NEW s \in confirmed,
                      ~NamesForeign(s)
               PROVE  Present(s)
    BY DEF ConfirmedIsPresent
  <2>1. s \in Request /\ s \in Declaration
    BY RequestKinds DEF TopologyInv, TypeOK
  <2>2. CASE s.what.kind \in {"exchange", "queue"}
    BY <2>2, ConfirmedThere DEF TopologyInv
  <2>3. CASE s.what.kind = "binding"
    <3>1. PICK t \in Kept : IsSame(t.what, s.what)
      BY DEF TopologyInv, RememberInv
    <3>2. t \in Request /\ t.what.kind = "binding"
      BY <2>3, <3>1, TypedParts, RequestKinds DEF TopologyInv, IsSame
    <3>3. t \in BindingSpec /\ s \in BindingSpec
      BY <2>1, <2>3, <3>2, RequestKinds
    <3>4. t.what = s.what
      <4>1. /\ t.what \in BindingEntity /\ s.what \in BindingEntity
            /\ t.what.exchange = s.what.exchange /\ t.what.queue = s.what.queue
        BY <2>3, <3>1, <3>2, <3>3, SpecFields DEF IsSame
      <4> QED
        BY <4>1 DEF BindingEntity
    <3>5. Done(t) /\ ~NamesForeign(t)
      BY <3>1, <3>4 DEF TopologyInv, DoneInv, NamesForeign
    <3>6. s.what \in broker /\ ~s.passive
      BY <3>2, <3>3, <3>4, <3>5, SpecFields DEF Done, Present
    <3> QED
      BY <3>6 DEF Present
  <2> QED
    BY <2>1, <2>2, <2>3, RequestKinds
<1> QED
  BY <1>1, InitTopologyInv, NextTopologyInv, PTL DEF Spec
=============================================================================

-------------------------- MODULE BusConfigProofs --------------------------
(***************************************************************************)
(* ParseBusConfig accepts what the reference WellFormed allows, for every  *)
(* JSON value. The argument follows the parser from its fields to its      *)
(* sections: each reader's result is not empty where the reference's       *)
(* condition on that part holds, and then says what the part says.         *)
(***************************************************************************)
EXTENDS BusConfig, SequenceTheorems, TLAPS

(* The fields a reader finds: a string that must be there, and a field     *)
(* that may be.                                                            *)
Mandatory(x, key) ==
  key \in DOMAIN x.v /\ x.v[key].t = "string" /\ x.v[key].v # Empty
Typed(x, key, type) == key \in DOMAIN x.v => x.v[key].t = type

(* A result: one value, or none for an error.                              *)
AtMostOne(result) == \A s, r \in result : s = r

LEMMA RequiredIs ==
  ASSUME NEW x, IsObject(x), NEW key
  PROVE  RequiredString(x, key) = IF Mandatory(x, key) THEN {x.v[key].v} ELSE {}
BY DEF RequiredString, Required, HasField, Mandatory

LEMMA OptionalIs ==
  ASSUME NEW x, IsObject(x), NEW key, NEW type, NEW fallback
  PROVE  Optional(x, key, type, fallback)
           = IF Typed(x, key, type) THEN {Value(x, key, fallback)} ELSE {}
BY DEF Optional, Required, HasField, Typed, Value

LEMMA FieldsAre ==
  ASSUME NEW x, IsObject(x), NEW key, NEW fallback
  PROVE  /\ Text(x, key, fallback)
              = IF Typed(x, key, "string") THEN {Value(x, key, Word(fallback))} ELSE {}
         /\ Flag(x, key, fallback)
              = IF Typed(x, key, "bool") THEN {Value(x, key, fallback)} ELSE {}
         /\ Number(x, key, fallback)
              = IF Typed(x, key, "int") THEN {Value(x, key, fallback)} ELSE {}
         /\ Arguments(x, key)
              = IF Typed(x, key, "object") THEN {Value(x, key, NoFields)} ELSE {}
         /\ List(x, key)
              = IF Typed(x, key, "array") THEN {Value(x, key, <<>>)} ELSE {}
BY OptionalIs DEF Text, Flag, Number, Arguments, List

LEMMA FieldsAreOne ==
  ASSUME NEW x, IsObject(x), NEW key
  PROVE  /\ AtMostOne(RequiredString(x, key))
         /\ \A fallback : /\ AtMostOne(Text(x, key, fallback))
                          /\ AtMostOne(Flag(x, key, fallback))
                          /\ AtMostOne(Number(x, key, fallback))
         /\ AtMostOne(Arguments(x, key))
<1>1. \A y : AtMostOne({y}) /\ AtMostOne({})
  BY DEF AtMostOne
<1>2. AtMostOne(RequiredString(x, key))
  BY <1>1, RequiredIs
<1>3. \A type, fallback : AtMostOne(Optional(x, key, type, fallback))
  BY <1>1, OptionalIs
<1> QED
  BY <1>2, <1>3 DEF Text, Flag, Number, Arguments

LEMMA PartIsOne ==
  ASSUME NEW A, AtMostOne(A), NEW B
  PROVE  AtMostOne(A \cap B)
BY DEF AtMostOne

(* What the reader of an exchange accepts.                               *)
ExchangeOk(x) ==
  /\ Conforms(x, [name |-> "string"],
              [type |-> "string", durable |-> "bool", auto_delete |-> "bool",
               passive |-> "bool", internal |-> "bool",
               arguments |-> "object"])
  /\ Value(x, "type", Word("direct")) \in ExchangeTypes

LEMMA ExchangeForm ==
  ASSUME NEW x, IsObject(x)
  PROVE  ExchangeOk(x) <=>
           /\ Mandatory(x, "name")
           /\ Typed(x, "type", "string")
           /\ Typed(x, "durable", "bool")
           /\ Typed(x, "auto_delete", "bool")
           /\ Typed(x, "passive", "bool")
           /\ Typed(x, "internal", "bool")
           /\ Typed(x, "arguments", "object")
           /\ Value(x, "type", Word("direct")) \in ExchangeTypes
BY DEF ExchangeOk, Conforms, Mandatory, Typed

LEMMA ReadsExchange ==
  ASSUME NEW x, IsObject(x)
  PROVE  /\ ParseExchangeSpec(x) # {} <=> ExchangeOk(x)
         /\ \A s \in ParseExchangeSpec(x) :
              /\ s.name = x.v["name"].v
         /\ AtMostOne(ParseExchangeSpec(x))
<1> DEFINE N == RequiredString(x, "name")
           T == Text(x, "type", "direct") \cap ExchangeTypes
           D == Flag(x, "durable", TRUE)
           A == Flag(x, "auto_delete", FALSE)
           P == Flag(x, "passive", FALSE)
           I == Flag(x, "internal", FALSE)
           G == Arguments(x, "arguments")
<1>1. ParseExchangeSpec(x) =
        {[name |-> n, type |-> t, durable |-> d, auto_delete |-> a,
          passive |-> p, internal |-> i, arguments |-> g] :
            n \in N, t \in T, d \in D, a \in A, p \in P, i \in I, g \in G}
  BY DEF ParseExchangeSpec
<1>2. /\ N = IF Mandatory(x, "name") THEN {x.v["name"].v} ELSE {}
      /\ T = IF Typed(x, "type", "string")
             THEN {Value(x, "type", Word("direct"))} \cap ExchangeTypes ELSE {}
      /\ D # {} <=> Typed(x, "durable", "bool")
      /\ A # {} <=> Typed(x, "auto_delete", "bool")
      /\ P # {} <=> Typed(x, "passive", "bool")
      /\ I # {} <=> Typed(x, "internal", "bool")
      /\ G # {} <=> Typed(x, "arguments", "object")
  BY RequiredIs, FieldsAre
<1>5. /\ AtMostOne(N) /\ AtMostOne(T) /\ AtMostOne(D) /\ AtMostOne(A)
      /\ AtMostOne(P) /\ AtMostOne(I) /\ AtMostOne(G)
  BY FieldsAreOne, PartIsOne
<1> HIDE DEF N, T, D, A, P, I, G
<1>3. ASSUME NEW s \in ParseExchangeSpec(x)
      PROVE  /\ s.name \in N
             /\ T # {} /\ D # {} /\ A # {} /\ P # {} /\ I # {} /\ G # {}
  BY <1>1
<1>4. ASSUME NEW n \in N, NEW t \in T, NEW d \in D, NEW a \in A, NEW p \in P,
             NEW i \in I, NEW g \in G
      PROVE  ParseExchangeSpec(x) # {}
  <2>1. [name |-> n, type |-> t, durable |-> d, auto_delete |-> a,
          passive |-> p, internal |-> i, arguments |-> g]
          \in ParseExchangeSpec(x)
    BY <1>1
  <2> QED
    BY <2>1
<1>6. AtMostOne(ParseExchangeSpec(x))
  BY <1>1, <1>5 DEF AtMostOne
<1> QED
  BY <1>2, <1>3, <1>4, <1>6, ExchangeForm

(* What the reader of a queue accepts.                                   *)
QueueOk(x) ==
  /\ Conforms(x, [name |-> "string"],
              [durable |-> "bool", auto_delete |-> "bool",
               passive |-> "bool", exclusive |-> "bool",
               arguments |-> "object"])

LEMMA QueueForm ==
  ASSUME NEW x, IsObject(x)
  PROVE  QueueOk(x) <=>
           /\ Mandatory(x, "name")
           /\ Typed(x, "durable", "bool")
           /\ Typed(x, "auto_delete", "bool")
           /\ Typed(x, "passive", "bool")
           /\ Typed(x, "exclusive", "bool")
           /\ Typed(x, "arguments", "object")
BY DEF QueueOk, Conforms, Mandatory, Typed

LEMMA ReadsQueue ==
  ASSUME NEW x, IsObject(x)
  PROVE  /\ ParseQueueSpec(x) # {} <=> QueueOk(x)
         /\ \A s \in ParseQueueSpec(x) :
              /\ s.name = x.v["name"].v
         /\ AtMostOne(ParseQueueSpec(x))
<1> DEFINE N == RequiredString(x, "name")
           D == Flag(x, "durable", TRUE)
           A == Flag(x, "auto_delete", FALSE)
           P == Flag(x, "passive", FALSE)
           U == Flag(x, "exclusive", FALSE)
           G == Arguments(x, "arguments")
<1>1. ParseQueueSpec(x) =
        {[name |-> n, durable |-> d, auto_delete |-> a, passive |-> p,
          exclusive |-> u, arguments |-> g] :
            n \in N, d \in D, a \in A, p \in P, u \in U, g \in G}
  BY DEF ParseQueueSpec
<1>2. /\ N = IF Mandatory(x, "name") THEN {x.v["name"].v} ELSE {}
      /\ D # {} <=> Typed(x, "durable", "bool")
      /\ A # {} <=> Typed(x, "auto_delete", "bool")
      /\ P # {} <=> Typed(x, "passive", "bool")
      /\ U # {} <=> Typed(x, "exclusive", "bool")
      /\ G # {} <=> Typed(x, "arguments", "object")
  BY RequiredIs, FieldsAre
<1>5. /\ AtMostOne(N) /\ AtMostOne(D) /\ AtMostOne(A) /\ AtMostOne(P)
      /\ AtMostOne(U) /\ AtMostOne(G)
  BY FieldsAreOne
<1> HIDE DEF N, D, A, P, U, G
<1>3. ASSUME NEW s \in ParseQueueSpec(x)
      PROVE  /\ s.name \in N
             /\ D # {} /\ A # {} /\ P # {} /\ U # {} /\ G # {}
  BY <1>1
<1>4. ASSUME NEW n \in N, NEW d \in D, NEW a \in A, NEW p \in P, NEW u \in U,
             NEW g \in G
      PROVE  ParseQueueSpec(x) # {}
  <2>1. [name |-> n, durable |-> d, auto_delete |-> a, passive |-> p,
          exclusive |-> u, arguments |-> g]
          \in ParseQueueSpec(x)
    BY <1>1
  <2> QED
    BY <2>1
<1>6. AtMostOne(ParseQueueSpec(x))
  BY <1>1, <1>5 DEF AtMostOne
<1> QED
  BY <1>2, <1>3, <1>4, <1>6, QueueForm

(* What the reader of a binding accepts.                                 *)
BindingOk(x) ==
  /\ Conforms(x, [exchange |-> "string", queue |-> "string"],
              [routing_key |-> "string", arguments |-> "object"])

LEMMA BindingForm ==
  ASSUME NEW x, IsObject(x)
  PROVE  BindingOk(x) <=>
           /\ Mandatory(x, "exchange")
           /\ Mandatory(x, "queue")
           /\ Typed(x, "routing_key", "string")
           /\ Typed(x, "arguments", "object")
BY DEF BindingOk, Conforms, Mandatory, Typed

LEMMA ReadsBinding ==
  ASSUME NEW x, IsObject(x)
  PROVE  /\ ParseBindingSpec(x) # {} <=> BindingOk(x)
         /\ \A s \in ParseBindingSpec(x) :
              /\ s.exchange = x.v["exchange"].v
              /\ s.queue = x.v["queue"].v
              /\ s.routing_key = Value(x, "routing_key", Empty)
         /\ AtMostOne(ParseBindingSpec(x))
<1> DEFINE E == RequiredString(x, "exchange")
           Q == RequiredString(x, "queue")
           R == Text(x, "routing_key", "")
           G == Arguments(x, "arguments")
<1>1. ParseBindingSpec(x) =
        {[exchange |-> e, queue |-> q, routing_key |-> r, arguments |-> g] :
            e \in E, q \in Q, r \in R, g \in G}
  BY DEF ParseBindingSpec
<1>2. /\ E = IF Mandatory(x, "exchange") THEN {x.v["exchange"].v} ELSE {}
      /\ Q = IF Mandatory(x, "queue") THEN {x.v["queue"].v} ELSE {}
      /\ R = IF Typed(x, "routing_key", "string") THEN {Value(x, "routing_key", Empty)} ELSE {}
      /\ G # {} <=> Typed(x, "arguments", "object")
  BY RequiredIs, FieldsAre DEF Empty
<1>5. /\ AtMostOne(E) /\ AtMostOne(Q) /\ AtMostOne(R) /\ AtMostOne(G)
  BY FieldsAreOne
<1> HIDE DEF E, Q, R, G
<1>3. ASSUME NEW s \in ParseBindingSpec(x)
      PROVE  /\ s.exchange \in E
             /\ s.queue \in Q
             /\ s.routing_key \in R
             /\ G # {}
  BY <1>1
<1>4. ASSUME NEW e \in E, NEW q \in Q, NEW r \in R, NEW g \in G
      PROVE  ParseBindingSpec(x) # {}
  <2>1. [exchange |-> e, queue |-> q, routing_key |-> r, arguments |-> g]
          \in ParseBindingSpec(x)
    BY <1>1
  <2> QED
    BY <2>1
<1>6. AtMostOne(ParseBindingSpec(x))
  BY <1>1, <1>5 DEF AtMostOne
<1> QED
  BY <1>2, <1>3, <1>4, <1>6, BindingForm

(* What the reader of a publisher accepts.                               *)
PublisherOk(x) ==
  /\ Conforms(x, [name |-> "string", exchange |-> "string"],
              [routing_key |-> "string", content_type |-> "string",
               persistent |-> "bool", headers |-> "object"])

LEMMA PublisherForm ==
  ASSUME NEW x, IsObject(x)
  PROVE  PublisherOk(x) <=>
           /\ Mandatory(x, "name")
           /\ Mandatory(x, "exchange")
           /\ Typed(x, "routing_key", "string")
           /\ Typed(x, "content_type", "string")
           /\ Typed(x, "persistent", "bool")
           /\ Typed(x, "headers", "object")
BY DEF PublisherOk, Conforms, Mandatory, Typed

LEMMA ReadsPublisher ==
  ASSUME NEW x, IsObject(x)
  PROVE  /\ ParsePublisherSpec(x) # {} <=> PublisherOk(x)
         /\ \A s \in ParsePublisherSpec(x) :
              /\ s.name = x.v["name"].v
              /\ s.exchange = x.v["exchange"].v
         /\ AtMostOne(ParsePublisherSpec(x))
<1> DEFINE N == RequiredString(x, "name")
           E == RequiredString(x, "exchange")
           R == Text(x, "routing_key", "")
           C == Text(x, "content_type", "")
           P == Flag(x, "persistent", TRUE)
           H == Arguments(x, "headers")
<1>1. ParsePublisherSpec(x) =
        {[name |-> n, exchange |-> e, routing_key |-> r, content_type |-> c,
          persistent |-> p, headers |-> h] :
            n \in N, e \in E, r \in R, c \in C, p \in P, h \in H}
  BY DEF ParsePublisherSpec
<1>2. /\ N = IF Mandatory(x, "name") THEN {x.v["name"].v} ELSE {}
      /\ E = IF Mandatory(x, "exchange") THEN {x.v["exchange"].v} ELSE {}
      /\ R # {} <=> Typed(x, "routing_key", "string")
      /\ C # {} <=> Typed(x, "content_type", "string")
      /\ P # {} <=> Typed(x, "persistent", "bool")
      /\ H # {} <=> Typed(x, "headers", "object")
  BY RequiredIs, FieldsAre
<1>5. /\ AtMostOne(N) /\ AtMostOne(E) /\ AtMostOne(R) /\ AtMostOne(C)
      /\ AtMostOne(P) /\ AtMostOne(H)
  BY FieldsAreOne
<1> HIDE DEF N, E, R, C, P, H
<1>3. ASSUME NEW s \in ParsePublisherSpec(x)
      PROVE  /\ s.name \in N
             /\ s.exchange \in E
             /\ R # {} /\ C # {} /\ P # {} /\ H # {}
  BY <1>1
<1>4. ASSUME NEW n \in N, NEW e \in E, NEW r \in R, NEW c \in C, NEW p \in P,
             NEW h \in H
      PROVE  ParsePublisherSpec(x) # {}
  <2>1. [name |-> n, exchange |-> e, routing_key |-> r, content_type |-> c,
          persistent |-> p, headers |-> h]
          \in ParsePublisherSpec(x)
    BY <1>1
  <2> QED
    BY <2>1
<1>6. AtMostOne(ParsePublisherSpec(x))
  BY <1>1, <1>5 DEF AtMostOne
<1> QED
  BY <1>2, <1>3, <1>4, <1>6, PublisherForm

(* What the reader of a consumer accepts.                                *)
ConsumerOk(x) ==
  /\ Conforms(x, [name |-> "string", queue |-> "string"],
              [consumer_tag |-> "string", auto_ack |-> "bool",
               exclusive |-> "bool", no_local |-> "bool",
               prefetch_count |-> "int", arguments |-> "object"])
  /\ Value(x, "prefetch_count", 1) \in 0 .. UInt16Max

LEMMA ConsumerForm ==
  ASSUME NEW x, IsObject(x)
  PROVE  ConsumerOk(x) <=>
           /\ Mandatory(x, "name")
           /\ Mandatory(x, "queue")
           /\ Typed(x, "consumer_tag", "string")
           /\ Typed(x, "auto_ack", "bool")
           /\ Typed(x, "exclusive", "bool")
           /\ Typed(x, "no_local", "bool")
           /\ Typed(x, "prefetch_count", "int")
           /\ Typed(x, "arguments", "object")
           /\ Value(x, "prefetch_count", 1) \in 0 .. UInt16Max
BY DEF ConsumerOk, Conforms, Mandatory, Typed

LEMMA ReadsConsumer ==
  ASSUME NEW x, IsObject(x)
  PROVE  /\ ParseConsumerSpec(x) # {} <=> ConsumerOk(x)
         /\ \A s \in ParseConsumerSpec(x) :
              /\ s.name = x.v["name"].v
              /\ s.queue = x.v["queue"].v
         /\ AtMostOne(ParseConsumerSpec(x))
<1> DEFINE N == RequiredString(x, "name")
           Q == RequiredString(x, "queue")
           C == Text(x, "consumer_tag", "")
           A == Flag(x, "auto_ack", FALSE)
           U == Flag(x, "exclusive", FALSE)
           L == Flag(x, "no_local", FALSE)
           F == Number(x, "prefetch_count", 1) \cap 0 .. UInt16Max
           G == Arguments(x, "arguments")
<1>1. ParseConsumerSpec(x) =
        {[name |-> n, queue |-> q, consumer_tag |-> c, auto_ack |-> a,
          exclusive |-> u, no_local |-> l, prefetch_count |-> f,
          arguments |-> g] :
            n \in N, q \in Q, c \in C, a \in A, u \in U, l \in L, f \in F,
            g \in G}
  BY DEF ParseConsumerSpec
<1>2. /\ N = IF Mandatory(x, "name") THEN {x.v["name"].v} ELSE {}
      /\ Q = IF Mandatory(x, "queue") THEN {x.v["queue"].v} ELSE {}
      /\ C # {} <=> Typed(x, "consumer_tag", "string")
      /\ A # {} <=> Typed(x, "auto_ack", "bool")
      /\ U # {} <=> Typed(x, "exclusive", "bool")
      /\ L # {} <=> Typed(x, "no_local", "bool")
      /\ F = IF Typed(x, "prefetch_count", "int")
             THEN {Value(x, "prefetch_count", 1)} \cap 0 .. UInt16Max ELSE {}
      /\ G # {} <=> Typed(x, "arguments", "object")
  BY RequiredIs, FieldsAre
<1>5. /\ AtMostOne(N) /\ AtMostOne(Q) /\ AtMostOne(C) /\ AtMostOne(A)
      /\ AtMostOne(U) /\ AtMostOne(L) /\ AtMostOne(F) /\ AtMostOne(G)
  BY FieldsAreOne, PartIsOne
<1> HIDE DEF N, Q, C, A, U, L, F, G
<1>3. ASSUME NEW s \in ParseConsumerSpec(x)
      PROVE  /\ s.name \in N
             /\ s.queue \in Q
             /\ C # {} /\ A # {} /\ U # {} /\ L # {} /\ F # {} /\ G # {}
  BY <1>1
<1>4. ASSUME NEW n \in N, NEW q \in Q, NEW c \in C, NEW a \in A, NEW u \in U,
             NEW l \in L, NEW f \in F, NEW g \in G
      PROVE  ParseConsumerSpec(x) # {}
  <2>1. [name |-> n, queue |-> q, consumer_tag |-> c, auto_ack |-> a,
          exclusive |-> u, no_local |-> l, prefetch_count |-> f,
          arguments |-> g]
          \in ParseConsumerSpec(x)
    BY <1>1
  <2> QED
    BY <2>1
<1>6. AtMostOne(ParseConsumerSpec(x))
  BY <1>1, <1>5 DEF AtMostOne
<1> QED
  BY <1>2, <1>3, <1>4, <1>6, ConsumerForm

-----------------------------------------------------------------------------
(* Arrays of entries. *)

(* Entries that are told apart by their name.                              *)
Distinct(l, key) ==
  \A i, j \in DOMAIN l : l[i].v[key].v = l[j].v[key].v => i = j

LEMMA NamedArray ==
  ASSUME NEW l, NEW parsed, NEW specs, NEW keys,
         DOMAIN parsed = DOMAIN l, DOMAIN specs = DOMAIN l, DOMAIN keys = DOMAIN l,
         \A i \in DOMAIN l : \A s \in parsed[i] : s.name = l[i].v["name"].v,
         \A i \in DOMAIN l : parsed[i] # {} => specs[i] \in parsed[i],
         \A i \in DOMAIN l : keys[i] = specs[i].name
  PROVE  /\ UniqueArray(parsed, specs, keys) # {} <=>
              (\A i \in DOMAIN l : parsed[i] # {}) /\ Distinct(l, "name")
         /\ \A r \in UniqueArray(parsed, specs, keys) :
              /\ Names(r) = Named(l)
              /\ DOMAIN r = DOMAIN l
              /\ \A i \in DOMAIN l : r[i] \in parsed[i]
<1>1. UniqueArray(parsed, specs, keys)
        = IF (\A i \in DOMAIN l : parsed[i] # {}) /\ IsInjective(keys)
          THEN {specs} ELSE {}
  BY DEF UniqueArray
<1>2. ASSUME \A i \in DOMAIN l : parsed[i] # {}
      PROVE  /\ IsInjective(keys) <=> Distinct(l, "name")
             /\ Names(specs) = Named(l)
  BY <1>2 DEF IsInjective, Distinct, Names, Named
<1> QED
  BY <1>1, <1>2

LEMMA ReadsExchanges ==
  ASSUME NEW l
  PROVE  /\ Exchanges(l) # {} <=> (\A i \in DOMAIN l : ExchangeOk(l[i])) /\ Distinct(l, "name")
         /\ \A r \in Exchanges(l) :
              /\ Names(r) = Named(l)
              /\ DOMAIN r = DOMAIN l
<1> DEFINE parsed == [i \in DOMAIN l |->
                        IF IsObject(l[i]) THEN ParseExchangeSpec(l[i]) ELSE {}]
           specs == [i \in DOMAIN l |-> CHOOSE s \in parsed[i] : TRUE]
           keys == [i \in DOMAIN specs |-> NameOf(specs[i])]
<1>1. Exchanges(l) = UniqueArray(parsed, specs, keys)
  BY DEF Exchanges, ParseUniqueArray
<1>2. \A i \in DOMAIN l : parsed[i] # {} <=> ExchangeOk(l[i])
  BY ReadsExchange DEF ExchangeOk, Conforms
<1>3. \A i \in DOMAIN l : \A s \in parsed[i] : s.name = l[i].v["name"].v
  BY ReadsExchange
<1>4. /\ DOMAIN parsed = DOMAIN l
      /\ DOMAIN specs = DOMAIN l /\ DOMAIN keys = DOMAIN l
      /\ \A i \in DOMAIN l : parsed[i] # {} => specs[i] \in parsed[i]
      /\ \A i \in DOMAIN l : keys[i] = specs[i].name
  BY DEF NameOf
<1> HIDE DEF parsed, specs, keys
<1>6. /\ UniqueArray(parsed, specs, keys) # {} <=>
           (\A i \in DOMAIN l : parsed[i] # {}) /\ Distinct(l, "name")
      /\ \A r \in UniqueArray(parsed, specs, keys) :
           /\ Names(r) = Named(l)
           /\ DOMAIN r = DOMAIN l
           /\ \A i \in DOMAIN l : r[i] \in parsed[i]
  BY <1>3, <1>4, NamedArray
<1> QED
  BY <1>1, <1>2, <1>6

LEMMA ReadsQueues ==
  ASSUME NEW l
  PROVE  /\ Queues(l) # {} <=> (\A i \in DOMAIN l : QueueOk(l[i])) /\ Distinct(l, "name")
         /\ \A r \in Queues(l) :
              /\ Names(r) = Named(l)
              /\ DOMAIN r = DOMAIN l
<1> DEFINE parsed == [i \in DOMAIN l |->
                        IF IsObject(l[i]) THEN ParseQueueSpec(l[i]) ELSE {}]
           specs == [i \in DOMAIN l |-> CHOOSE s \in parsed[i] : TRUE]
           keys == [i \in DOMAIN specs |-> NameOf(specs[i])]
<1>1. Queues(l) = UniqueArray(parsed, specs, keys)
  BY DEF Queues, ParseUniqueArray
<1>2. \A i \in DOMAIN l : parsed[i] # {} <=> QueueOk(l[i])
  BY ReadsQueue DEF QueueOk, Conforms
<1>3. \A i \in DOMAIN l : \A s \in parsed[i] : s.name = l[i].v["name"].v
  BY ReadsQueue
<1>4. /\ DOMAIN parsed = DOMAIN l
      /\ DOMAIN specs = DOMAIN l /\ DOMAIN keys = DOMAIN l
      /\ \A i \in DOMAIN l : parsed[i] # {} => specs[i] \in parsed[i]
      /\ \A i \in DOMAIN l : keys[i] = specs[i].name
  BY DEF NameOf
<1> HIDE DEF parsed, specs, keys
<1>6. /\ UniqueArray(parsed, specs, keys) # {} <=>
           (\A i \in DOMAIN l : parsed[i] # {}) /\ Distinct(l, "name")
      /\ \A r \in UniqueArray(parsed, specs, keys) :
           /\ Names(r) = Named(l)
           /\ DOMAIN r = DOMAIN l
           /\ \A i \in DOMAIN l : r[i] \in parsed[i]
  BY <1>3, <1>4, NamedArray
<1> QED
  BY <1>1, <1>2, <1>6

LEMMA ReadsPublishers ==
  ASSUME NEW l
  PROVE  /\ Publishers(l) # {} <=> (\A i \in DOMAIN l : PublisherOk(l[i])) /\ Distinct(l, "name")
         /\ \A r \in Publishers(l) :
              /\ Names(r) = Named(l)
              /\ DOMAIN r = DOMAIN l
              /\ \A i \in DOMAIN l : r[i].exchange = l[i].v["exchange"].v
<1> DEFINE parsed == [i \in DOMAIN l |->
                        IF IsObject(l[i]) THEN ParsePublisherSpec(l[i]) ELSE {}]
           specs == [i \in DOMAIN l |-> CHOOSE s \in parsed[i] : TRUE]
           keys == [i \in DOMAIN specs |-> NameOf(specs[i])]
<1>1. Publishers(l) = UniqueArray(parsed, specs, keys)
  BY DEF Publishers, ParseUniqueArray
<1>2. \A i \in DOMAIN l : parsed[i] # {} <=> PublisherOk(l[i])
  BY ReadsPublisher DEF PublisherOk, Conforms
<1>3. \A i \in DOMAIN l : \A s \in parsed[i] : s.name = l[i].v["name"].v
  BY ReadsPublisher
<1>4. /\ DOMAIN parsed = DOMAIN l
      /\ DOMAIN specs = DOMAIN l /\ DOMAIN keys = DOMAIN l
      /\ \A i \in DOMAIN l : parsed[i] # {} => specs[i] \in parsed[i]
      /\ \A i \in DOMAIN l : keys[i] = specs[i].name
  BY DEF NameOf
<1>5. \A i \in DOMAIN l : \A s \in parsed[i] : s.exchange = l[i].v["exchange"].v
  BY ReadsPublisher
<1> HIDE DEF parsed, specs, keys
<1>6. /\ UniqueArray(parsed, specs, keys) # {} <=>
           (\A i \in DOMAIN l : parsed[i] # {}) /\ Distinct(l, "name")
      /\ \A r \in UniqueArray(parsed, specs, keys) :
           /\ Names(r) = Named(l)
           /\ DOMAIN r = DOMAIN l
           /\ \A i \in DOMAIN l : r[i] \in parsed[i]
  BY <1>3, <1>4, NamedArray
<1> QED
  BY <1>1, <1>2, <1>5, <1>6

LEMMA ReadsConsumers ==
  ASSUME NEW l
  PROVE  /\ Consumers(l) # {} <=> (\A i \in DOMAIN l : ConsumerOk(l[i])) /\ Distinct(l, "name")
         /\ \A r \in Consumers(l) :
              /\ Names(r) = Named(l)
              /\ DOMAIN r = DOMAIN l
              /\ \A i \in DOMAIN l : r[i].queue = l[i].v["queue"].v
<1> DEFINE parsed == [i \in DOMAIN l |->
                        IF IsObject(l[i]) THEN ParseConsumerSpec(l[i]) ELSE {}]
           specs == [i \in DOMAIN l |-> CHOOSE s \in parsed[i] : TRUE]
           keys == [i \in DOMAIN specs |-> NameOf(specs[i])]
<1>1. Consumers(l) = UniqueArray(parsed, specs, keys)
  BY DEF Consumers, ParseUniqueArray
<1>2. \A i \in DOMAIN l : parsed[i] # {} <=> ConsumerOk(l[i])
  BY ReadsConsumer DEF ConsumerOk, Conforms
<1>3. \A i \in DOMAIN l : \A s \in parsed[i] : s.name = l[i].v["name"].v
  BY ReadsConsumer
<1>4. /\ DOMAIN parsed = DOMAIN l
      /\ DOMAIN specs = DOMAIN l /\ DOMAIN keys = DOMAIN l
      /\ \A i \in DOMAIN l : parsed[i] # {} => specs[i] \in parsed[i]
      /\ \A i \in DOMAIN l : keys[i] = specs[i].name
  BY DEF NameOf
<1>5. \A i \in DOMAIN l : \A s \in parsed[i] : s.queue = l[i].v["queue"].v
  BY ReadsConsumer
<1> HIDE DEF parsed, specs, keys
<1>6. /\ UniqueArray(parsed, specs, keys) # {} <=>
           (\A i \in DOMAIN l : parsed[i] # {}) /\ Distinct(l, "name")
      /\ \A r \in UniqueArray(parsed, specs, keys) :
           /\ Names(r) = Named(l)
           /\ DOMAIN r = DOMAIN l
           /\ \A i \in DOMAIN l : r[i] \in parsed[i]
  BY <1>3, <1>4, NamedArray
<1> QED
  BY <1>1, <1>2, <1>5, <1>6

(* Texts of one part: what joins three of them tells which they were.      *)
OnePart(s) == s = <<s[1]>>

LEMMA KeyParts ==
  ASSUME NEW s, OnePart(s.exchange), OnePart(s.queue), OnePart(s.routing_key)
  PROVE  /\ BindingKey(s)[1] = s.exchange[1]
         /\ BindingKey(s)[2] = s.queue[1]
         /\ BindingKey(s)[3] = s.routing_key[1]
<1>1. PICK a, b, c : a = s.exchange /\ b = s.queue /\ c = s.routing_key
  OBVIOUS
<1> DEFINE S == {a[1], b[1], c[1]}
<1>2. /\ a \in Seq(S) /\ b \in Seq(S) /\ c \in Seq(S)
      /\ Len(a) = 1 /\ Len(b) = 1 /\ Len(c) = 1
  <2>1. a = <<a[1]>> /\ b = <<b[1]>> /\ c = <<c[1]>>
    BY <1>1, Zenon DEF OnePart
  <2>2. \A u \in S : <<u>> \in Seq(S) /\ Len(<<u>>) = 1
    OBVIOUS
  <2> QED
    BY <2>1, <2>2, Zenon
<1> HIDE DEF S
<1>3. PICK p : p = a \o b
  OBVIOUS
<1>4. /\ p \in Seq(S) /\ Len(p) = 2
      /\ \A i \in 1 .. 2 : p[i] = IF i <= 1 THEN a[i] ELSE b[i - 1]
  <2>1. /\ p \in Seq(S) /\ Len(p) = Len(a) + Len(b)
        /\ \A i \in 1 .. Len(a) + Len(b) :
             p[i] = IF i <= Len(a) THEN a[i] ELSE b[i - Len(a)]
    BY <1>2, <1>3, ConcatProperties
  <2> QED
    BY <1>2, <2>1
<1>5. PICK q : q = p \o c
  OBVIOUS
<1>6. \A i \in 1 .. 3 : q[i] = IF i <= 2 THEN p[i] ELSE c[i - 2]
  <2>1. \A i \in 1 .. Len(p) + Len(c) :
          q[i] = IF i <= Len(p) THEN p[i] ELSE c[i - Len(p)]
    BY <1>2, <1>4, <1>5, ConcatProperties
  <2> QED
    BY <1>2, <1>4, <2>1
<1>7. BindingKey(s) = q
  BY <1>1, <1>3, <1>5, Zenon DEF BindingKey
<1>8. q[1] = a[1] /\ q[2] = b[1] /\ q[3] = c[1]
  BY <1>4, <1>6
<1> QED
  BY <1>1, <1>7, <1>8, Zenon

LEMMA SameOnePart ==
  ASSUME NEW a, NEW b, OnePart(a), OnePart(b), a[1] = b[1]
  PROVE  a = b
BY Zenon DEF OnePart

LEMMA KeyTells ==
  ASSUME NEW s, OnePart(s.exchange), OnePart(s.queue), OnePart(s.routing_key),
         NEW r, OnePart(r.exchange), OnePart(r.queue), OnePart(r.routing_key),
         BindingKey(s) = BindingKey(r)
  PROVE  s.exchange = r.exchange /\ s.queue = r.queue /\ s.routing_key = r.routing_key
BY KeyParts, SameOnePart

BindingKeys == {"exchange", "queue", "routing_key"}

(* Two bindings with the same exchange, queue and routing key are one.     *)
SameBinding(x, y) ==
  \A k \in BindingKeys : Value(x, k, Empty) = Value(y, k, Empty)

LEMMA ReadsBindings ==
  ASSUME NEW l
  PROVE  /\ Bindings(l) # {} =>
              /\ \A i \in DOMAIN l : BindingOk(l[i])
              /\ \A i, j \in DOMAIN l : SameBinding(l[i], l[j]) => i = j
         /\ /\ \A i \in DOMAIN l : BindingOk(l[i])
            /\ \A i, j \in DOMAIN l : SameBinding(l[i], l[j]) => i = j
            /\ \A i \in DOMAIN l : \A k \in BindingKeys :
                 OnePart(Value(l[i], k, Empty))
            => Bindings(l) # {}
         /\ \A r \in Bindings(l) :
              /\ DOMAIN r = DOMAIN l
              /\ \A i \in DOMAIN l : /\ r[i].exchange = l[i].v["exchange"].v
                                     /\ r[i].queue = l[i].v["queue"].v
<1> DEFINE parsed == [i \in DOMAIN l |->
                        IF IsObject(l[i]) THEN ParseBindingSpec(l[i]) ELSE {}]
           specs == [i \in DOMAIN l |-> CHOOSE s \in parsed[i] : TRUE]
           keys == [i \in DOMAIN specs |-> BindingKey(specs[i])]
           Read == \A i \in DOMAIN l : parsed[i] # {}
<1>1. Bindings(l) = IF Read /\ IsInjective(keys) THEN {specs} ELSE {}
  BY DEF Bindings, ParseUniqueArray, UniqueArray
<1>2. \A i \in DOMAIN l : parsed[i] # {} <=> BindingOk(l[i])
  BY ReadsBinding DEF BindingOk, Conforms
<1>3. \A i \in DOMAIN l : \A s \in parsed[i] :
        /\ s.exchange = l[i].v["exchange"].v
        /\ s.queue = l[i].v["queue"].v
        /\ s.routing_key = Value(l[i], "routing_key", Empty)
  BY ReadsBinding
<1>4. /\ DOMAIN specs = DOMAIN l /\ DOMAIN keys = DOMAIN l
      /\ \A i \in DOMAIN l : parsed[i] # {} => specs[i] \in parsed[i]
      /\ \A i \in DOMAIN l : keys[i] = BindingKey(specs[i])
  OBVIOUS
<1>5. \A i \in DOMAIN l : BindingOk(l[i]) =>
        /\ Value(l[i], "exchange", Empty) = l[i].v["exchange"].v
        /\ Value(l[i], "queue", Empty) = l[i].v["queue"].v
  BY DEF BindingOk, Conforms, Value
<1> HIDE DEF parsed, specs, keys
<1>6. ASSUME Read
      PROVE  \A i \in DOMAIN l :
               /\ specs[i].exchange = Value(l[i], "exchange", Empty)
               /\ specs[i].queue = Value(l[i], "queue", Empty)
               /\ specs[i].routing_key = Value(l[i], "routing_key", Empty)
  BY <1>2, <1>3, <1>4, <1>5, <1>6
<1>7. ASSUME Read, IsInjective(keys)
      PROVE  \A i, j \in DOMAIN l : SameBinding(l[i], l[j]) => i = j
  <2> SUFFICES ASSUME NEW i \in DOMAIN l, NEW j \in DOMAIN l, SameBinding(l[i], l[j])
               PROVE  i = j
    OBVIOUS
  <2>1. keys[i] = keys[j]
    <3>1. /\ specs[i].exchange = specs[j].exchange
          /\ specs[i].queue = specs[j].queue
          /\ specs[i].routing_key = specs[j].routing_key
      BY <1>6, <1>7 DEF SameBinding, BindingKeys
    <3> QED
      BY <1>4, <3>1, Zenon DEF BindingKey
  <2> QED
    BY <1>4, <1>7, <2>1 DEF IsInjective
<1>8. ASSUME Read,
             \A i, j \in DOMAIN l : SameBinding(l[i], l[j]) => i = j,
             \A i \in DOMAIN l : \A k \in BindingKeys : OnePart(Value(l[i], k, Empty))
      PROVE  IsInjective(keys)
  <2> SUFFICES ASSUME NEW i \in DOMAIN l, NEW j \in DOMAIN l, keys[i] = keys[j]
               PROVE  i = j
    BY <1>4 DEF IsInjective
  <2>1. /\ OnePart(specs[i].exchange) /\ OnePart(specs[j].exchange)
        /\ OnePart(specs[i].queue) /\ OnePart(specs[j].queue)
        /\ OnePart(specs[i].routing_key) /\ OnePart(specs[j].routing_key)
    BY <1>6, <1>8 DEF BindingKeys
  <2>2. BindingKey(specs[i]) = BindingKey(specs[j])
    BY <1>4
  <2>3. /\ specs[i].exchange = specs[j].exchange
        /\ specs[i].queue = specs[j].queue
        /\ specs[i].routing_key = specs[j].routing_key
    BY <2>1, <2>2, KeyTells
  <2>4. SameBinding(l[i], l[j])
    BY <1>6, <1>8, <2>3 DEF SameBinding, BindingKeys
  <2> QED
    BY <1>8, <2>4
<1> QED
  BY <1>1, <1>2, <1>3, <1>4, <1>7, <1>8

LEMMA ArraysAreOne ==
  ASSUME NEW l
  PROVE  /\ AtMostOne(Exchanges(l)) /\ AtMostOne(Queues(l)) /\ AtMostOne(Bindings(l))
         /\ AtMostOne(Publishers(l)) /\ AtMostOne(Consumers(l))
<1>1. \A parsed, specs, keys : AtMostOne(UniqueArray(parsed, specs, keys))
  BY DEF UniqueArray, AtMostOne
<1> QED
  BY <1>1 DEF Exchanges, Queues, Bindings, Publishers, Consumers, ParseUniqueArray

-----------------------------------------------------------------------------
(* The sections of the configuration.                                      *)

(* Readers look at the fields of an object only.                           *)
LEMMA SameFields ==
  ASSUME NEW x, NEW y, x.v = y.v, NEW key, NEW type, NEW fallback
  PROVE  /\ Typed(x, key, type) <=> Typed(y, key, type)
         /\ Mandatory(x, key) <=> Mandatory(y, key)
         /\ Value(x, key, fallback) = Value(y, key, fallback)
         /\ key \in DOMAIN x.v <=> key \in DOMAIN y.v
BY DEF Typed, Mandatory, Value

(* An optional section, as its reader is given it.                         *)
Given(x, key) == Object(Value(x, key, NoFields))

LEMMA SectionIs ==
  ASSUME NEW x, IsObject(x), NEW key
  PROVE  Section(x, key) = IF Typed(x, key, "object") THEN {Given(x, key)} ELSE {}
<1>1. Arguments(x, key) = IF Typed(x, key, "object")
                          THEN {Value(x, key, NoFields)} ELSE {}
  BY FieldsAre
<1> QED
  BY <1>1 DEF Section, Given

LEMMA GivenIs ==
  ASSUME NEW x, NEW key
  PROVE  /\ IsObject(Given(x, key))
         /\ Given(x, key).v = Sub(x, key).v
         /\ Typed(x, key, "object") => IsObject(Sub(x, key))
BY DEF Given, Sub, Value, Typed, IsObject, Object

ReconnectOk(x) ==
  /\ Typed(x, "enabled", "bool")
  /\ Typed(x, "initial_delay_ms", "int") /\ Typed(x, "max_delay_ms", "int")

LEMMA ReadsReconnect ==
  ASSUME NEW x, IsObject(x)
  PROVE  /\ ParseReconnect(x) # {} <=> ReconnectOk(x)
         /\ \A r \in ParseReconnect(x) :
              /\ r.initial = Value(x, "initial_delay_ms", 1000)
              /\ r.maximum = Value(x, "max_delay_ms", 30000)
         /\ AtMostOne(ParseReconnect(x))
<1> DEFINE E == Flag(x, "enabled", TRUE)
           I == Number(x, "initial_delay_ms", 1000)
           M == Number(x, "max_delay_ms", 30000)
<1>1. ParseReconnect(x) = {[enabled |-> e, initial |-> i, maximum |-> m] :
                             e \in E, i \in I, m \in M}
  BY DEF ParseReconnect
<1>2. E # {} <=> Typed(x, "enabled", "bool")
  BY FieldsAre
<1>5. I = IF Typed(x, "initial_delay_ms", "int")
          THEN {Value(x, "initial_delay_ms", 1000)} ELSE {}
  BY FieldsAre
<1>6. M = IF Typed(x, "max_delay_ms", "int")
          THEN {Value(x, "max_delay_ms", 30000)} ELSE {}
  BY FieldsAre
<1>7. AtMostOne(E)
  BY FieldsAreOne
<1> HIDE DEF E, I, M
<1>9. AtMostOne(I) /\ AtMostOne(M)
  BY <1>5, <1>6 DEF AtMostOne
<1>8. AtMostOne(ParseReconnect(x))
  BY <1>1, <1>7, <1>9 DEF AtMostOne
<1>3. ASSUME NEW r \in ParseReconnect(x)
      PROVE  r.initial \in I /\ r.maximum \in M /\ E # {}
  BY <1>1
<1>4. ASSUME NEW e \in E, NEW i \in I, NEW m \in M
      PROVE  ParseReconnect(x) # {}
  <2>1. [enabled |-> e, initial |-> i, maximum |-> m] \in ParseReconnect(x)
    BY <1>1
  <2> QED
    BY <2>1
<1> QED
  BY <1>2, <1>3, <1>4, <1>5, <1>6, <1>8 DEF ReconnectOk

ConnectionOk(x) ==
  /\ Mandatory(x, "uri")
  /\ Typed(x, "heartbeat_seconds", "int") /\ Typed(x, "socket_timeout_ms", "int")
  /\ Typed(x, "reconnect", "object")
  /\ Value(x, "heartbeat_seconds", 30) \in 0 .. UInt16Max
  /\ ReconnectOk(Sub(x, "reconnect"))

LEMMA ReadsConnection ==
  ASSUME NEW x, IsObject(x)
  PROVE  /\ ParseConnection(x) # {} <=> ConnectionOk(x)
         /\ \A c \in ParseConnection(x) :
              /\ c.timeout = Value(x, "socket_timeout_ms", 100)
              /\ c.reconnect.initial = Value(Sub(x, "reconnect"), "initial_delay_ms", 1000)
              /\ c.reconnect.maximum = Value(Sub(x, "reconnect"), "max_delay_ms", 30000)
         /\ AtMostOne(ParseConnection(x))
<1> DEFINE g == Given(x, "reconnect")
           U == RequiredString(x, "uri")
           H == Number(x, "heartbeat_seconds", 30) \cap 0 .. UInt16Max
           S == Number(x, "socket_timeout_ms", 100)
           R == Then(Section(x, "reconnect"), ParseReconnect)
<1>1. ParseConnection(x) = {[uri |-> u, heartbeat |-> h, timeout |-> s, reconnect |-> r] :
                              u \in U, h \in H, s \in S, r \in R}
  BY DEF ParseConnection
<1>2. /\ U # {} <=> Mandatory(x, "uri")
      /\ H # {} <=> /\ Typed(x, "heartbeat_seconds", "int")
                    /\ Value(x, "heartbeat_seconds", 30) \in 0 .. UInt16Max
      /\ S = IF Typed(x, "socket_timeout_ms", "int")
             THEN {Value(x, "socket_timeout_ms", 100)} ELSE {}
  BY RequiredIs, FieldsAre
<1>3. R = IF Typed(x, "reconnect", "object") THEN ParseReconnect(g) ELSE {}
  <2>1. R = UNION {ParseReconnect(r) : r \in Section(x, "reconnect")}
    BY DEF Then
  <2>2. Section(x, "reconnect") = IF Typed(x, "reconnect", "object") THEN {g} ELSE {}
    BY SectionIs
  <2> HIDE DEF R, g
  <2> QED
    BY <2>1, <2>2
<1>4. /\ ParseReconnect(g) # {} <=> ReconnectOk(Sub(x, "reconnect"))
      /\ \A r \in ParseReconnect(g) :
           /\ r.initial = Value(Sub(x, "reconnect"), "initial_delay_ms", 1000)
           /\ r.maximum = Value(Sub(x, "reconnect"), "max_delay_ms", 30000)
  <2>1. IsObject(g) /\ g.v = Sub(x, "reconnect").v
    BY GivenIs
  <2> HIDE DEF g
  <2>2. ReconnectOk(g) <=> ReconnectOk(Sub(x, "reconnect"))
    BY <2>1, SameFields DEF ReconnectOk
  <2>3. /\ Value(g, "initial_delay_ms", 1000)
             = Value(Sub(x, "reconnect"), "initial_delay_ms", 1000)
        /\ Value(g, "max_delay_ms", 30000)
             = Value(Sub(x, "reconnect"), "max_delay_ms", 30000)
    BY <2>1, SameFields
  <2> QED
    BY <2>1, <2>2, <2>3, ReadsReconnect
<1>7. AtMostOne(U) /\ AtMostOne(H) /\ AtMostOne(S)
  BY FieldsAreOne, PartIsOne
<1>8. AtMostOne(R)
  <2>1. IsObject(g)
    BY GivenIs
  <2>2. AtMostOne(ParseReconnect(g))
    BY <2>1, ReadsReconnect
  <2> QED
    BY <1>3, <2>2 DEF AtMostOne
<1> HIDE DEF g, U, H, S, R
<1>9. AtMostOne(ParseConnection(x))
  BY <1>1, <1>7, <1>8 DEF AtMostOne
<1>5. ASSUME NEW c \in ParseConnection(x)
      PROVE  U # {} /\ H # {} /\ c.timeout \in S /\ c.reconnect \in R
  BY <1>1
<1>6. ASSUME NEW u \in U, NEW h \in H, NEW s \in S, NEW r \in R
      PROVE  ParseConnection(x) # {}
  <2>1. [uri |-> u, heartbeat |-> h, timeout |-> s, reconnect |-> r] \in ParseConnection(x)
    BY <1>1
  <2> QED
    BY <2>1
<1> QED
  BY <1>2, <1>3, <1>4, <1>5, <1>6, <1>9 DEF ConnectionOk

(* What the settings of connection and worker_pool have to be.             *)
SettingsOk(x) ==
  /\ IsObject(x)
  /\ "connection" \in DOMAIN x.v /\ IsObject(x.v["connection"])
  /\ ConnectionOk(x.v["connection"])
  /\ Typed(x, "worker_pool", "object")
  /\ Typed(Sub(x, "worker_pool"), "thread_count", "int")
  /\ LET c == x.v["connection"]
         r == Sub(c, "reconnect")
     IN TimingOk(Value(c, "socket_timeout_ms", 100), Value(r, "initial_delay_ms", 1000),
                 Value(r, "max_delay_ms", 30000),
                 Value(Sub(x, "worker_pool"), "thread_count", 4))

LEMMA ReadsSettings ==
  ASSUME NEW x
  PROVE  /\ ParseSettings(x) # {} <=> SettingsOk(x)
         /\ \A s \in ParseSettings(x) :
              LET c == x.v["connection"]
                  r == Sub(c, "reconnect")
              IN /\ s.socket_timeout_ms = Narrow(Value(c, "socket_timeout_ms", 100))
                 /\ s.initial_delay_ms = Narrow(Value(r, "initial_delay_ms", 1000))
                 /\ s.max_delay_ms = Narrow(Value(r, "max_delay_ms", 30000))
         /\ AtMostOne(ParseSettings(x))
<1> DEFINE C == Then({Object(o) : o \in Required(x, "connection", "object")},
                     ParseConnection)
           W == Then(Section(x, "worker_pool"), ThreadCount)
           c == x.v["connection"]
           r == Sub(c, "reconnect")
           g == Object(c.v)
           w == Sub(x, "worker_pool")
           p == Given(x, "worker_pool")
           Fits(y) == TimingOk(y[1].timeout, y[1].reconnect.initial,
                               y[1].reconnect.maximum, y[2])
<1>1. ParseSettings(x) =
        {[uri |-> z[1].uri, heartbeat_seconds |-> z[1].heartbeat,
          socket_timeout_ms |-> Narrow(z[1].timeout),
          reconnect |-> z[1].reconnect.enabled,
          initial_delay_ms |-> Narrow(z[1].reconnect.initial),
          max_delay_ms |-> Narrow(z[1].reconnect.maximum),
          worker_thread_count |-> z[2]] : z \in {y \in C \X W : Fits(y)}}
  BY DEF ParseSettings
<1>2. C = IF HasField(x, "connection") /\ c.t = "object" THEN ParseConnection(g) ELSE {}
  <2>1. C = UNION {ParseConnection(o) :
                     o \in {Object(f) : f \in Required(x, "connection", "object")}}
    BY DEF Then
  <2>2. {Object(f) : f \in Required(x, "connection", "object")}
          = IF HasField(x, "connection") /\ c.t = "object" THEN {g} ELSE {}
    BY DEF Required
  <2> HIDE DEF C, c, g
  <2> QED
    BY <2>1, <2>2
<1>3. IsObject(g) /\ g.v = c.v
  BY DEF IsObject, Object
<1>4. /\ ParseConnection(g) # {} <=> ConnectionOk(c)
      /\ \A k \in ParseConnection(g) :
           /\ k.timeout = Value(c, "socket_timeout_ms", 100)
           /\ k.reconnect.initial = Value(r, "initial_delay_ms", 1000)
           /\ k.reconnect.maximum = Value(r, "max_delay_ms", 30000)
  <2>1. Sub(g, "reconnect") = r
    BY <1>3 DEF Sub
  <2>2. Value(g, "socket_timeout_ms", 100) = Value(c, "socket_timeout_ms", 100)
    BY <1>3 DEF Value
  <2>3. ConnectionOk(g) <=> ConnectionOk(c)
    <3>1. Value(g, "heartbeat_seconds", 30) = Value(c, "heartbeat_seconds", 30)
      BY <1>3 DEF Value
    <3>2. /\ Typed(g, "heartbeat_seconds", "int") <=> Typed(c, "heartbeat_seconds", "int")
          /\ Typed(g, "socket_timeout_ms", "int") <=> Typed(c, "socket_timeout_ms", "int")
          /\ Typed(g, "reconnect", "object") <=> Typed(c, "reconnect", "object")
          /\ Mandatory(g, "uri") <=> Mandatory(c, "uri")
      BY <1>3 DEF Typed, Mandatory
    <3> HIDE DEF g, c
    <3> QED
      BY <2>1, <3>1, <3>2 DEF ConnectionOk
  <2> HIDE DEF g, c, r
  <2> QED
    BY <1>3, <2>1, <2>2, <2>3, ReadsConnection
<1>5. ASSUME IsObject(x)
      PROVE  W = IF Typed(x, "worker_pool", "object") /\ Typed(w, "thread_count", "int")
                 THEN {Value(w, "thread_count", 4)} ELSE {}
  <2>1. W = UNION {ThreadCount(o) : o \in Section(x, "worker_pool")}
    BY DEF Then
  <2>2. Section(x, "worker_pool") = IF Typed(x, "worker_pool", "object") THEN {p} ELSE {}
    BY <1>5, SectionIs
  <2>3. IsObject(p) /\ p.v = w.v
    BY GivenIs
  <2> HIDE DEF W, p, w
  <2>4. ThreadCount(p) = IF Typed(p, "thread_count", "int")
                         THEN {Value(p, "thread_count", 4)} ELSE {}
    BY <2>3, FieldsAre DEF ThreadCount
  <2>5. ThreadCount(p) = IF Typed(w, "thread_count", "int")
                         THEN {Value(w, "thread_count", 4)} ELSE {}
    BY <2>3, <2>4, SameFields
  <2> QED
    BY <2>1, <2>2, <2>5
<1>10. AtMostOne(C)
  <2>1. AtMostOne(ParseConnection(g))
    <3> HIDE DEF g
    <3> QED
      BY <1>3, ReadsConnection
  <2> HIDE DEF C, g
  <2> QED
    BY <1>2, <2>1 DEF AtMostOne
<1>11. IsObject(x) => AtMostOne(W)
  BY <1>5 DEF AtMostOne
<1>12. C # {} => IsObject(x)
  BY <1>2 DEF HasField
<1> HIDE DEF C, W, c, r, g, w, p
<1>13. AtMostOne({y \in C \X W : Fits(y)})
  <2> SUFFICES ASSUME NEW y \in C \X W, NEW z \in C \X W PROVE y = z
    BY DEF AtMostOne
  <2>1. y[1] = z[1] /\ y[2] = z[2]
    BY <1>10, <1>11, <1>12 DEF AtMostOne
  <2>2. y = <<y[1], y[2]>> /\ z = <<z[1], z[2]>>
    OBVIOUS
  <2> QED
    BY <2>1, <2>2, Zenon
<1> HIDE DEF Fits
<1>14. AtMostOne(ParseSettings(x))
  BY <1>1, <1>13 DEF AtMostOne
<1> USE DEF Fits, c, r, g, w, p
<1>6. ASSUME NEW s \in ParseSettings(x)
      PROVE  \E k \in C, n \in W :
               /\ TimingOk(k.timeout, k.reconnect.initial, k.reconnect.maximum, n)
               /\ s.socket_timeout_ms = Narrow(k.timeout)
               /\ s.initial_delay_ms = Narrow(k.reconnect.initial)
               /\ s.max_delay_ms = Narrow(k.reconnect.maximum)
  <2>1. PICK z \in {y \in C \X W : Fits(y)} :
          s = [uri |-> z[1].uri, heartbeat_seconds |-> z[1].heartbeat,
               socket_timeout_ms |-> Narrow(z[1].timeout),
               reconnect |-> z[1].reconnect.enabled,
               initial_delay_ms |-> Narrow(z[1].reconnect.initial),
               max_delay_ms |-> Narrow(z[1].reconnect.maximum),
               worker_thread_count |-> z[2]]
    BY <1>1
  <2>2. z[1] \in C /\ z[2] \in W /\ Fits(z)
    BY <2>1
  <2> QED
    BY <2>1, <2>2
<1>7. ASSUME NEW k \in C, NEW n \in W,
             TimingOk(k.timeout, k.reconnect.initial, k.reconnect.maximum, n)
      PROVE  ParseSettings(x) # {}
  <2>1. <<k, n>> \in {y \in C \X W : Fits(y)}
    BY <1>7
  <2> QED
    BY <1>1, <2>1
<1> HIDE DEF c, r, g, w, p, Fits
<1>8. ASSUME NEW s \in ParseSettings(x)
      PROVE  /\ SettingsOk(x)
             /\ s.socket_timeout_ms = Narrow(Value(c, "socket_timeout_ms", 100))
             /\ s.initial_delay_ms = Narrow(Value(r, "initial_delay_ms", 1000))
             /\ s.max_delay_ms = Narrow(Value(r, "max_delay_ms", 30000))
  <2>1. PICK k \in C, n \in W :
          /\ TimingOk(k.timeout, k.reconnect.initial, k.reconnect.maximum, n)
          /\ s.socket_timeout_ms = Narrow(k.timeout)
          /\ s.initial_delay_ms = Narrow(k.reconnect.initial)
          /\ s.max_delay_ms = Narrow(k.reconnect.maximum)
    BY <1>6
  <2>2. HasField(x, "connection") /\ c.t = "object" /\ ConnectionOk(c)
    BY <1>2, <1>4
  <2>3. /\ k.timeout = Value(c, "socket_timeout_ms", 100)
        /\ k.reconnect.initial = Value(r, "initial_delay_ms", 1000)
        /\ k.reconnect.maximum = Value(r, "max_delay_ms", 30000)
    BY <1>2, <1>4
  <2>4. /\ Typed(x, "worker_pool", "object") /\ Typed(w, "thread_count", "int")
        /\ n = Value(w, "thread_count", 4)
    BY <1>5, <2>2 DEF HasField
  <2> QED
    BY <2>1, <2>2, <2>3, <2>4 DEF SettingsOk, HasField, IsObject, c, r, w
<1>9. ASSUME SettingsOk(x) PROVE ParseSettings(x) # {}
  <2>1. PICK k : k \in C
    BY <1>2, <1>4, <1>9 DEF SettingsOk, HasField, IsObject, c
  <2>2. /\ k.timeout = Value(c, "socket_timeout_ms", 100)
        /\ k.reconnect.initial = Value(r, "initial_delay_ms", 1000)
        /\ k.reconnect.maximum = Value(r, "max_delay_ms", 30000)
    BY <1>2, <1>4, <2>1
  <2>3. Value(w, "thread_count", 4) \in W
    BY <1>5, <1>9 DEF SettingsOk, w
  <2> QED
    BY <1>7, <1>9, <2>1, <2>2, <2>3 DEF SettingsOk, c, r, w
<1> QED
  BY <1>8, <1>9, <1>14 DEF c, r

(* The arrays of entries, as their readers are given them.                 *)
LEMMA ReadsSections ==
  ASSUME NEW x, IsObject(x)
  PROVE  LET t == Sub(x, "topology")
         IN /\ ParseExchanges(x) =
                 IF Typed(x, "topology", "object") /\ Typed(t, "exchanges", "array")
                 THEN Exchanges(Entries(t, "exchanges")) ELSE {}
            /\ ParseQueues(x) =
                 IF Typed(x, "topology", "object") /\ Typed(t, "queues", "array")
                 THEN Queues(Entries(t, "queues")) ELSE {}
            /\ ParseBindings(x) =
                 IF Typed(x, "topology", "object") /\ Typed(t, "bindings", "array")
                 THEN Bindings(Entries(t, "bindings")) ELSE {}
            /\ ParsePublishers(x) =
                 IF Typed(x, "publishers", "array")
                 THEN Publishers(Entries(x, "publishers")) ELSE {}
            /\ ParseConsumers(x) =
                 IF Typed(x, "consumers", "array")
                 THEN Consumers(Entries(x, "consumers")) ELSE {}
<1> DEFINE t == Sub(x, "topology")
           g == Given(x, "topology")
           T == Section(x, "topology")
<1>1. T = IF Typed(x, "topology", "object") THEN {g} ELSE {}
  BY SectionIs
<1>2. IsObject(g) /\ g.v = t.v
  BY GivenIs
<1> HIDE DEF t, g, T
<1>3. \A key : List(g, key) = IF Typed(t, key, "array") THEN {Entries(t, key)} ELSE {}
  <2>1. \A key : List(g, key) = IF Typed(g, key, "array") THEN {Value(g, key, <<>>)} ELSE {}
    BY <1>2, FieldsAre
  <2>2. \A key : /\ Typed(g, key, "array") <=> Typed(t, key, "array")
                 /\ Value(g, key, <<>>) = Value(t, key, <<>>)
    BY <1>2 DEF Typed, Value
  <2> QED
    BY <2>1, <2>2 DEF Entries
<1>4. \A key : List(x, key) = IF Typed(x, key, "array") THEN {Entries(x, key)} ELSE {}
  BY FieldsAre DEF Entries
<1>5. ParseExchanges(x) =
        IF Typed(x, "topology", "object") /\ Typed(t, "exchanges", "array")
        THEN Exchanges(Entries(t, "exchanges")) ELSE {}
  <2>1. ParseExchanges(x) = UNION {Exchanges(l) : l \in UNION {List(r, "exchanges") : r \in T}}
    BY DEF ParseExchanges, Then, ExchangeList, T
  <2>2. UNION {List(r, "exchanges") : r \in T}
          = IF Typed(x, "topology", "object") /\ Typed(t, "exchanges", "array")
            THEN {Entries(t, "exchanges")} ELSE {}
    BY <1>1, <1>3
  <2> QED
    BY <2>1, <2>2
<1>6. ParseQueues(x) =
        IF Typed(x, "topology", "object") /\ Typed(t, "queues", "array")
        THEN Queues(Entries(t, "queues")) ELSE {}
  <2>1. ParseQueues(x) = UNION {Queues(l) : l \in UNION {List(r, "queues") : r \in T}}
    BY DEF ParseQueues, Then, QueueList, T
  <2>2. UNION {List(r, "queues") : r \in T}
          = IF Typed(x, "topology", "object") /\ Typed(t, "queues", "array")
            THEN {Entries(t, "queues")} ELSE {}
    BY <1>1, <1>3
  <2> QED
    BY <2>1, <2>2
<1>7. ParseBindings(x) =
        IF Typed(x, "topology", "object") /\ Typed(t, "bindings", "array")
        THEN Bindings(Entries(t, "bindings")) ELSE {}
  <2>1. ParseBindings(x) = UNION {Bindings(l) : l \in UNION {List(r, "bindings") : r \in T}}
    BY DEF ParseBindings, Then, BindingList, T
  <2>2. UNION {List(r, "bindings") : r \in T}
          = IF Typed(x, "topology", "object") /\ Typed(t, "bindings", "array")
            THEN {Entries(t, "bindings")} ELSE {}
    BY <1>1, <1>3
  <2> QED
    BY <2>1, <2>2
<1>8. ParsePublishers(x) = IF Typed(x, "publishers", "array")
                           THEN Publishers(Entries(x, "publishers")) ELSE {}
  <2>1. ParsePublishers(x) = UNION {Publishers(l) : l \in List(x, "publishers")}
    BY DEF ParsePublishers, Then
  <2> QED
    BY <1>4, <2>1
<1>9. ParseConsumers(x) = IF Typed(x, "consumers", "array")
                          THEN Consumers(Entries(x, "consumers")) ELSE {}
  <2>1. ParseConsumers(x) = UNION {Consumers(l) : l \in List(x, "consumers")}
    BY DEF ParseConsumers, Then
  <2> QED
    BY <1>4, <2>1
<1> QED
  BY <1>5, <1>6, <1>7, <1>8, <1>9 DEF t

-----------------------------------------------------------------------------
(* What the readers accept is what the reference allows.                   *)

LEMMA NamedEntries ==
  ASSUME NEW l, DOMAIN l \subseteq Int, NEW must, NEW may, "name" \in DOMAIN must
  PROVE  EntryOf(must, may, l, {"name"}) <=>
           (\A i \in DOMAIN l : Conforms(l[i], must, may)) /\ Distinct(l, "name")
<1> SUFFICES ASSUME \A i \in DOMAIN l : Conforms(l[i], must, may)
             PROVE  EntryOf(must, may, l, {"name"}) <=> Distinct(l, "name")
  BY DEF EntryOf
<1>1. \A i \in DOMAIN l : Value(l[i], "name", Empty) = l[i].v["name"].v
  BY DEF Conforms, Value
<1>2. EntryOf(must, may, l, {"name"}) <=>
        \A i, j \in DOMAIN l : i < j => l[i].v["name"].v # l[j].v["name"].v
  BY <1>1 DEF EntryOf
<1>3. \A i, j \in DOMAIN l : i = j \/ i < j \/ j < i
  OBVIOUS
<1>4. \A i \in DOMAIN l : ~(i < i)
  OBVIOUS
<1> QED
  BY <1>2, <1>3, <1>4 DEF Distinct

LEMMA BindingEntries ==
  ASSUME NEW l, DOMAIN l \subseteq Int, NEW must, NEW may
  PROVE  EntryOf(must, may, l, BindingKeys) <=>
           /\ \A i \in DOMAIN l : Conforms(l[i], must, may)
           /\ \A i, j \in DOMAIN l : SameBinding(l[i], l[j]) => i = j
<1>1. \A i, j \in DOMAIN l : i = j \/ i < j \/ j < i
  OBVIOUS
<1>2. \A i \in DOMAIN l : ~(i < i)
  OBVIOUS
<1>3. \A i, j \in DOMAIN l :
        /\ SameBinding(l[i], l[j]) <=>
             ~ \E k \in BindingKeys : Value(l[i], k, Empty) # Value(l[j], k, Empty)
        /\ SameBinding(l[i], l[j]) <=> SameBinding(l[j], l[i])
  BY DEF SameBinding
<1> QED
  BY <1>1, <1>2, <1>3 DEF EntryOf

(* The arrays of x as its readers are given them.                          *)
ListsTyped(x) ==
  /\ Typed(x, "topology", "object")
  /\ Typed(Sub(x, "topology"), "exchanges", "array")
  /\ Typed(Sub(x, "topology"), "queues", "array")
  /\ Typed(Sub(x, "topology"), "bindings", "array")
  /\ Typed(x, "publishers", "array") /\ Typed(x, "consumers", "array")

EntriesOk(e, q, b, p, k) ==
  /\ (\A i \in DOMAIN e : ExchangeOk(e[i])) /\ Distinct(e, "name")
  /\ (\A i \in DOMAIN q : QueueOk(q[i])) /\ Distinct(q, "name")
  /\ \A i \in DOMAIN b : BindingOk(b[i])
  /\ \A i, j \in DOMAIN b : SameBinding(b[i], b[j]) => i = j
  /\ (\A i \in DOMAIN p : PublisherOk(p[i])) /\ Distinct(p, "name")
  /\ (\A i \in DOMAIN k : ConsumerOk(k[i])) /\ Distinct(k, "name")
  /\ Refers(b, "exchange", Named(e)) /\ Refers(b, "queue", Named(q))
  /\ Refers(p, "exchange", Named(e)) /\ Refers(k, "queue", Named(q))

ListsOk(x) ==
  LET t == Sub(x, "topology")
  IN EntriesOk(Entries(t, "exchanges"), Entries(t, "queues"), Entries(t, "bindings"),
               Entries(x, "publishers"), Entries(x, "consumers"))

LEMMA ParsedIsOk ==
  ASSUME NEW x, NEW c \in ParseBusConfig(x)
  PROVE  /\ SettingsOk(x) /\ ListsTyped(x) /\ ListsOk(x)
         /\ c.settings \in ParseSettings(x)
<1>1. /\ c.settings \in ParseSettings(x)
      /\ c.exchanges \in ParseExchanges(x) /\ c.queues \in ParseQueues(x)
      /\ c.bindings \in ParseBindings(x) /\ c.publishers \in ParsePublishers(x)
      /\ c.consumers \in ParseConsumers(x)
      /\ Resolves(c)
  <2> DEFINE S == ParseSettings(x)
             E == ParseExchanges(x)
             Q == ParseQueues(x)
             B == ParseBindings(x)
             P == ParsePublishers(x)
             K == ParseConsumers(x)
  <2>1. ParseBusConfig(x) =
          {d \in {[settings |-> s, exchanges |-> e, queues |-> q, bindings |-> b,
                   publishers |-> p, consumers |-> k] :
                     s \in S, e \in E, q \in Q, b \in B, p \in P, k \in K} :
             Resolves(d)}
    BY DEF ParseBusConfig
  <2> HIDE DEF S, E, Q, B, P, K
  <2>2. /\ c.settings \in S /\ c.exchanges \in E /\ c.queues \in Q
        /\ c.bindings \in B /\ c.publishers \in P /\ c.consumers \in K
        /\ Resolves(c)
    BY <2>1
  <2> QED
    BY <2>2 DEF S, E, Q, B, P, K
<1>2. SettingsOk(x) /\ IsObject(x)
  BY <1>1, ReadsSettings DEF SettingsOk
<1> DEFINE t == Sub(x, "topology")
           e == Entries(t, "exchanges")
           q == Entries(t, "queues")
           b == Entries(t, "bindings")
           p == Entries(x, "publishers")
           k == Entries(x, "consumers")
<1>3. /\ ListsTyped(x)
      /\ c.exchanges \in Exchanges(e) /\ c.queues \in Queues(q)
      /\ c.bindings \in Bindings(b) /\ c.publishers \in Publishers(p)
      /\ c.consumers \in Consumers(k)
  BY <1>1, <1>2, ReadsSections DEF ListsTyped
<1> HIDE DEF t, e, q, b, p, k
<1>4. /\ (\A i \in DOMAIN e : ExchangeOk(e[i])) /\ Distinct(e, "name")
      /\ Names(c.exchanges) = Named(e)
  BY <1>3, ReadsExchanges
<1>5. /\ (\A i \in DOMAIN q : QueueOk(q[i])) /\ Distinct(q, "name")
      /\ Names(c.queues) = Named(q)
  BY <1>3, ReadsQueues
<1>6. /\ \A i \in DOMAIN b : BindingOk(b[i])
      /\ \A i, j \in DOMAIN b : SameBinding(b[i], b[j]) => i = j
      /\ DOMAIN c.bindings = DOMAIN b
      /\ \A i \in DOMAIN b : /\ c.bindings[i].exchange = b[i].v["exchange"].v
                             /\ c.bindings[i].queue = b[i].v["queue"].v
  BY <1>3, ReadsBindings
<1>7. /\ (\A i \in DOMAIN p : PublisherOk(p[i])) /\ Distinct(p, "name")
      /\ DOMAIN c.publishers = DOMAIN p
      /\ \A i \in DOMAIN p : c.publishers[i].exchange = p[i].v["exchange"].v
  BY <1>3, ReadsPublishers
<1>8. /\ (\A i \in DOMAIN k : ConsumerOk(k[i])) /\ Distinct(k, "name")
      /\ DOMAIN c.consumers = DOMAIN k
      /\ \A i \in DOMAIN k : c.consumers[i].queue = k[i].v["queue"].v
  BY <1>3, ReadsConsumers
<1>9. /\ Refers(b, "exchange", Named(e)) /\ Refers(b, "queue", Named(q))
      /\ Refers(p, "exchange", Named(e)) /\ Refers(k, "queue", Named(q))
  BY <1>1, <1>4, <1>5, <1>6, <1>7, <1>8 DEF Refers, Resolves
<1>10. EntriesOk(e, q, b, p, k)
  BY <1>4, <1>5, <1>6, <1>7, <1>8, <1>9 DEF EntriesOk
<1> QED
  BY <1>1, <1>2, <1>3, <1>10 DEF ListsOk, t, e, q, b, p, k

(* The names of a binding, each of one part.                               *)
PlainBindings(b) ==
  \A i \in DOMAIN b : \A k \in BindingKeys : OnePart(Value(b[i], k, Empty))

LEMMA OkIsParsed ==
  ASSUME NEW x, SettingsOk(x), ListsTyped(x), ListsOk(x),
         PlainBindings(Entries(Sub(x, "topology"), "bindings"))
  PROVE  ParseBusConfig(x) # {}
<1>1. IsObject(x)
  BY DEF SettingsOk
<1> DEFINE t == Sub(x, "topology")
           e == Entries(t, "exchanges")
           q == Entries(t, "queues")
           b == Entries(t, "bindings")
           p == Entries(x, "publishers")
           k == Entries(x, "consumers")
<1>2. /\ ParseExchanges(x) = Exchanges(e) /\ ParseQueues(x) = Queues(q)
      /\ ParseBindings(x) = Bindings(b) /\ ParsePublishers(x) = Publishers(p)
      /\ ParseConsumers(x) = Consumers(k)
  BY <1>1, ReadsSections DEF ListsTyped
<1>3. EntriesOk(e, q, b, p, k) /\ PlainBindings(b)
  BY DEF ListsOk
<1> HIDE DEF t, e, q, b, p, k
<1>4. PICK s \in ParseSettings(x) : TRUE
  BY ReadsSettings
<1>5. PICK re \in Exchanges(e) : Names(re) = Named(e)
  BY <1>3, ReadsExchanges DEF EntriesOk
<1>6. PICK rq \in Queues(q) : Names(rq) = Named(q)
  BY <1>3, ReadsQueues DEF EntriesOk
<1>7. PICK rb \in Bindings(b) :
        /\ DOMAIN rb = DOMAIN b
        /\ \A i \in DOMAIN b : /\ rb[i].exchange = b[i].v["exchange"].v
                               /\ rb[i].queue = b[i].v["queue"].v
  BY <1>3, ReadsBindings DEF EntriesOk, PlainBindings
<1>8. PICK rp \in Publishers(p) :
        /\ DOMAIN rp = DOMAIN p
        /\ \A i \in DOMAIN p : rp[i].exchange = p[i].v["exchange"].v
  BY <1>3, ReadsPublishers DEF EntriesOk
<1>9. PICK rk \in Consumers(k) :
        /\ DOMAIN rk = DOMAIN k
        /\ \A i \in DOMAIN k : rk[i].queue = k[i].v["queue"].v
  BY <1>3, ReadsConsumers DEF EntriesOk
<1> DEFINE c == [settings |-> s, exchanges |-> re, queues |-> rq, bindings |-> rb,
                 publishers |-> rp, consumers |-> rk]
<1>10. Resolves(c)
  <2>1. /\ c.exchanges = re /\ c.queues = rq /\ c.bindings = rb
        /\ c.publishers = rp /\ c.consumers = rk
    OBVIOUS
  <2> HIDE DEF c
  <2> QED
    BY <1>3, <1>5, <1>6, <1>7, <1>8, <1>9, <2>1 DEF Resolves, EntriesOk, Refers
<1>11. c \in ParseBusConfig(x)
  <2> DEFINE S == ParseSettings(x)
             E == ParseExchanges(x)
             Q == ParseQueues(x)
             B == ParseBindings(x)
             P == ParsePublishers(x)
             K == ParseConsumers(x)
             All == {[settings |-> vs, exchanges |-> ve, queues |-> vq, bindings |-> vb,
                      publishers |-> vp, consumers |-> vk] :
                        vs \in S, ve \in E, vq \in Q, vb \in B, vp \in P, vk \in K}
  <2>1. ParseBusConfig(x) = {d \in All : Resolves(d)}
    BY DEF ParseBusConfig
  <2>2. s \in S /\ re \in E /\ rq \in Q /\ rb \in B /\ rp \in P /\ rk \in K
    BY <1>2
  <2> HIDE DEF S, E, Q, B, P, K
  <2>3. c \in All
    BY <2>2
  <2> HIDE DEF All, c
  <2> QED
    BY <1>10, <2>1, <2>3
<1> QED
  BY <1>11

(* What an array, a number and a text of a JSON value hold.                *)
LEMMA JsonFields ==
  ASSUME NEW J, NEW W, JsonSet(J, W), NEW x \in J, IsObject(x), NEW key
  PROVE  /\ Typed(x, key, "array") => Entries(x, key) \in Seq(J)
         /\ \A n \in Int : Typed(x, key, "int") => Value(x, key, n) \in Int
         /\ Typed(x, key, "string") => Value(x, key, Empty) \in Seq(W)
         /\ Typed(x, key, "object") /\ key \in DOMAIN x.v => Sub(x, key) \in J
         /\ key \notin DOMAIN x.v => Sub(x, key).v = NoFields
<1>1. key \in DOMAIN x.v => x.v[key] \in J
  BY DEF JsonSet, IsObject
<1>2. Empty \in Seq(W)
  <2>1. "" \in W
    BY DEF JsonSet
  <2>2. \A w \in W : <<w>> \in Seq(W)
    OBVIOUS
  <2> QED
    BY <2>1, <2>2, Zenon DEF Empty, Word
<1>3. <<>> \in Seq(J)
  OBVIOUS
<1>4. Typed(x, key, "array") => Entries(x, key) \in Seq(J)
  BY <1>1, <1>3 DEF JsonSet, Entries, Value, Typed
<1>5. \A n \in Int : Typed(x, key, "int") => Value(x, key, n) \in Int
  BY <1>1 DEF JsonSet, Value, Typed
<1>6. Typed(x, key, "string") => Value(x, key, Empty) \in Seq(W)
  BY <1>1, <1>2 DEF JsonSet, Value, Typed
<1>7. /\ key \in DOMAIN x.v => Sub(x, key) \in J
      /\ key \notin DOMAIN x.v => Sub(x, key).v = NoFields
  BY <1>1 DEF Sub, Object
<1> QED
  BY <1>4, <1>5, <1>6, <1>7

(* The same of the fields of an optional section.                          *)
LEMMA JsonSection ==
  ASSUME NEW J, NEW W, JsonSet(J, W), NEW x \in J, IsObject(x), NEW part, NEW key,
         Typed(x, part, "object")
  PROVE  /\ Typed(Sub(x, part), key, "array") => Entries(Sub(x, part), key) \in Seq(J)
         /\ \A n \in Int : Typed(Sub(x, part), key, "int") =>
                             Value(Sub(x, part), key, n) \in Int
<1>1. IsObject(Sub(x, part))
  BY GivenIs
<1>2. CASE part \in DOMAIN x.v
  <2>1. Sub(x, part) \in J
    BY <1>2, JsonFields
  <2> QED
    BY <1>1, <2>1, JsonFields
<1>3. CASE part \notin DOMAIN x.v
  <2>1. Sub(x, part).v = NoFields /\ DOMAIN NoFields = {}
    BY <1>3, JsonFields DEF NoFields
  <2>2. Entries(Sub(x, part), key) = <<>>
    BY <2>1 DEF Entries, Value
  <2>3. \A n : Value(Sub(x, part), key, n) = n
    BY <2>1 DEF Value
  <2>4. <<>> \in Seq(J)
    OBVIOUS
  <2> QED
    BY <2>2, <2>3, <2>4
<1> QED
  BY <1>2, <1>3

LEMMA SettingsAgree ==
  ASSUME NEW J, NEW W, JsonSet(J, W), NEW x \in J
  PROVE  /\ WellFormedSettings(x) =>
              /\ SettingsOk(x) /\ Typed(x, "topology", "object")
              /\ Typed(x, "publishers", "array") /\ Typed(x, "consumers", "array")
         /\ SettingsOk(x) /\ ListsTyped(x) => WellFormedSettings(x)
<1> DEFINE c == x.v["connection"]
           r == Sub(c, "reconnect")
           w == Sub(x, "worker_pool")
<1>0. DOMAIN NoFields = {}
  BY DEF NoFields
<1>1. ASSUME IsObject(x), IsObject(c), "connection" \in DOMAIN x.v,
             Typed(c, "socket_timeout_ms", "int"), Typed(c, "reconnect", "object"),
             Typed(r, "initial_delay_ms", "int"), Typed(r, "max_delay_ms", "int"),
             Typed(x, "worker_pool", "object"), Typed(w, "thread_count", "int")
      PROVE  TimingOk(Value(c, "socket_timeout_ms", 100),
                      Value(r, "initial_delay_ms", 1000),
                      Value(r, "max_delay_ms", 30000), Value(w, "thread_count", 4)) <=>
               /\ Value(c, "socket_timeout_ms", 100) >= 10
               /\ 0 <= Value(r, "initial_delay_ms", 1000)
               /\ Value(r, "initial_delay_ms", 1000) <= Value(r, "max_delay_ms", 30000)
               /\ Value(w, "thread_count", 4) >= 1
  <2>1. c \in J
    BY <1>1 DEF JsonSet, IsObject
  <2>2. Value(c, "socket_timeout_ms", 100) \in Int
    BY <1>1, <2>1, JsonFields
  <2>3. /\ Value(r, "initial_delay_ms", 1000) \in Int
        /\ Value(r, "max_delay_ms", 30000) \in Int
    BY <1>1, <2>1, JsonSection
  <2>4. Value(w, "thread_count", 4) \in Int
    BY <1>1, JsonSection
  <2> QED
    BY <2>2, <2>3, <2>4 DEF TimingOk
<1>2. ASSUME WellFormedSettings(x)
      PROVE  /\ SettingsOk(x) /\ Typed(x, "topology", "object")
             /\ Typed(x, "publishers", "array") /\ Typed(x, "consumers", "array")
  <2>1. /\ IsObject(x) /\ "connection" \in DOMAIN x.v /\ IsObject(c)
        /\ Typed(x, "worker_pool", "object") /\ Typed(x, "topology", "object")
        /\ Typed(x, "publishers", "array") /\ Typed(x, "consumers", "array")
    BY <1>2 DEF WellFormedSettings, Conforms, Typed, IsObject
  <2>2. /\ Mandatory(c, "uri") /\ Typed(c, "heartbeat_seconds", "int")
        /\ Typed(c, "socket_timeout_ms", "int") /\ Typed(c, "reconnect", "object")
    BY <1>2 DEF WellFormedSettings, Conforms, Typed, Mandatory
  <2>3. ReconnectOk(r)
    BY <1>2 DEF WellFormedSettings, Conforms, Typed, ReconnectOk
  <2>4. Typed(w, "thread_count", "int")
    BY <1>2 DEF WellFormedSettings, Conforms, Typed
  <2>5. /\ Value(c, "heartbeat_seconds", 30) \in 0 .. UInt16Max
        /\ Value(c, "socket_timeout_ms", 100) >= 10
        /\ 0 <= Value(r, "initial_delay_ms", 1000)
        /\ Value(r, "initial_delay_ms", 1000) <= Value(r, "max_delay_ms", 30000)
        /\ Value(w, "thread_count", 4) >= 1
    BY <1>2 DEF WellFormedSettings
  <2> HIDE DEF c, r, w
  <2>6. ReconnectOk(r) => Typed(r, "initial_delay_ms", "int") /\ Typed(r, "max_delay_ms", "int")
    BY DEF ReconnectOk
  <2>7. ConnectionOk(c)
    BY <2>2, <2>3, <2>5 DEF ConnectionOk, r
  <2> QED
    BY <1>1, <2>1, <2>2, <2>3, <2>4, <2>5, <2>6, <2>7 DEF SettingsOk, c, r, w
<1>3. ASSUME SettingsOk(x), ListsTyped(x) PROVE WellFormedSettings(x)
  <2>1. /\ IsObject(x) /\ "connection" \in DOMAIN x.v /\ IsObject(c)
        /\ ConnectionOk(c)
        /\ Typed(x, "worker_pool", "object") /\ Typed(w, "thread_count", "int")
        /\ TimingOk(Value(c, "socket_timeout_ms", 100),
                    Value(r, "initial_delay_ms", 1000),
                    Value(r, "max_delay_ms", 30000), Value(w, "thread_count", 4))
    BY <1>3 DEF SettingsOk
  <2>2. /\ Mandatory(c, "uri") /\ Typed(c, "heartbeat_seconds", "int")
        /\ Typed(c, "socket_timeout_ms", "int") /\ Typed(c, "reconnect", "object")
        /\ Value(c, "heartbeat_seconds", 30) \in 0 .. UInt16Max
        /\ ReconnectOk(r)
    BY <2>1 DEF ConnectionOk
  <2>3. Typed(r, "enabled", "bool") /\ Typed(r, "initial_delay_ms", "int")
        /\ Typed(r, "max_delay_ms", "int")
    BY <2>2 DEF ReconnectOk
  <2>4. IsObject(r) /\ IsObject(w)
    BY <2>1, <2>2, GivenIs
  <2>5. Conforms(x, [connection |-> "object"],
                 [worker_pool |-> "object", topology |-> "object",
                  publishers |-> "array", consumers |-> "array"])
    BY <1>3, <2>1 DEF Conforms, Typed, ListsTyped, IsObject
  <2>6. Conforms(c, [uri |-> "string"],
                 [heartbeat_seconds |-> "int", socket_timeout_ms |-> "int",
                  reconnect |-> "object"])
    BY <2>1, <2>2 DEF Conforms, Typed, Mandatory
  <2>7. Conforms(r, NoFields, [enabled |-> "bool", initial_delay_ms |-> "int",
                               max_delay_ms |-> "int"])
    BY <1>0, <2>3, <2>4 DEF Conforms, Typed
  <2>8. Conforms(w, NoFields, [thread_count |-> "int"])
    BY <1>0, <2>1, <2>4 DEF Conforms, Typed
  <2>9. /\ Value(c, "socket_timeout_ms", 100) >= 10
        /\ 0 <= Value(r, "initial_delay_ms", 1000)
        /\ Value(r, "initial_delay_ms", 1000) <= Value(r, "max_delay_ms", 30000)
        /\ Value(w, "thread_count", 4) >= 1
    BY <1>1, <2>1, <2>2, <2>3
  <2> QED
    BY <2>2, <2>5, <2>6, <2>7, <2>8, <2>9 DEF WellFormedSettings
<1> QED
  BY <1>2, <1>3

LEMMA EntriesAgree ==
  ASSUME NEW J, NEW W, JsonSet(J, W), NEW x \in J, IsObject(x), Typed(x, "topology", "object")
  PROVE  /\ /\ WellFormedEntries(x)
            /\ Typed(x, "publishers", "array") /\ Typed(x, "consumers", "array")
            => ListsTyped(x) /\ ListsOk(x)
         /\ ListsTyped(x) /\ ListsOk(x) => WellFormedEntries(x)
<1> DEFINE t == Sub(x, "topology")
           e == Entries(t, "exchanges")
           q == Entries(t, "queues")
           b == Entries(t, "bindings")
           p == Entries(x, "publishers")
           k == Entries(x, "consumers")
           Rest == /\ Refers(b, "exchange", Named(e)) /\ Refers(b, "queue", Named(q))
                   /\ Refers(p, "exchange", Named(e)) /\ Refers(k, "queue", Named(q))
           Array1 == EntryOf([name |-> "string"],
                [type |-> "string", durable |-> "bool", auto_delete |-> "bool",
                 passive |-> "bool", internal |-> "bool", arguments |-> "object"],
                e, {"name"})
           Types == \A i \in DOMAIN e :
                      Value(e[i], "type", Word("direct")) \in ExchangeTypes
           Array2 == EntryOf([name |-> "string"],
                [durable |-> "bool", auto_delete |-> "bool", passive |-> "bool",
                 exclusive |-> "bool", arguments |-> "object"],
                q, {"name"})
           Array3 == EntryOf([exchange |-> "string", queue |-> "string"],
                [routing_key |-> "string", arguments |-> "object"],
                b, {"exchange", "queue", "routing_key"})
           Array4 == EntryOf([name |-> "string", exchange |-> "string"],
                [routing_key |-> "string", content_type |-> "string",
                 persistent |-> "bool", headers |-> "object"],
                p, {"name"})
           Array5 == EntryOf([name |-> "string", queue |-> "string"],
                [consumer_tag |-> "string", auto_ack |-> "bool",
                 exclusive |-> "bool", no_local |-> "bool",
                 prefetch_count |-> "int", arguments |-> "object"],
                k, {"name"})
           Counts == \A i \in DOMAIN k :
                       Value(k[i], "prefetch_count", 1) \in 0 .. UInt16Max
<1>1. WellFormedEntries(x) <=>
        /\ Conforms(t, NoFields, [exchanges |-> "array", queues |-> "array",
                                  bindings |-> "array"])
        /\ Array1 /\ Types /\ Array2 /\ Array3 /\ Array4 /\ Array5 /\ Counts /\ Rest
  BY DEF WellFormedEntries
<1>2. Conforms(t, NoFields, [exchanges |-> "array", queues |-> "array",
                             bindings |-> "array"]) <=>
        /\ Typed(t, "exchanges", "array") /\ Typed(t, "queues", "array")
        /\ Typed(t, "bindings", "array")
  <2>1. IsObject(t) /\ DOMAIN NoFields = {}
    BY GivenIs DEF NoFields
  <2> HIDE DEF t
  <2> QED
    BY <2>1 DEF Conforms, Typed
<1>3. ASSUME ListsTyped(x)
      PROVE  Array1 /\ Types /\ Array2 /\ Array3 /\ Array4 /\ Array5 /\ Counts /\ Rest
               <=> EntriesOk(e, q, b, p, k)
  <2>1. /\ Typed(t, "exchanges", "array") /\ Typed(t, "queues", "array")
        /\ Typed(t, "bindings", "array")
        /\ Typed(x, "publishers", "array") /\ Typed(x, "consumers", "array")
    BY <1>3 DEF ListsTyped
  <2>2. /\ e \in Seq(J) /\ q \in Seq(J) /\ b \in Seq(J)
        /\ p \in Seq(J) /\ k \in Seq(J)
    BY <2>1, JsonSection, JsonFields
  <2> HIDE DEF t, e, q, b, p, k
  <2>3. /\ DOMAIN e \subseteq Int /\ DOMAIN q \subseteq Int /\ DOMAIN b \subseteq Int
        /\ DOMAIN p \subseteq Int /\ DOMAIN k \subseteq Int
    BY <2>2
  <2>4. Array1 /\ Types <=>
          (\A i \in DOMAIN e : ExchangeOk(e[i])) /\ Distinct(e, "name")
    BY <2>3, NamedEntries DEF ExchangeOk
  <2>5. Array2 <=> (\A i \in DOMAIN q : QueueOk(q[i])) /\ Distinct(q, "name")
    BY <2>3, NamedEntries DEF QueueOk
  <2>6. Array3 <=> /\ \A i \in DOMAIN b : BindingOk(b[i])
                   /\ \A i, j \in DOMAIN b : SameBinding(b[i], b[j]) => i = j
    BY <2>3, BindingEntries DEF BindingOk, BindingKeys
  <2>7. Array4 <=> (\A i \in DOMAIN p : PublisherOk(p[i])) /\ Distinct(p, "name")
    BY <2>3, NamedEntries DEF PublisherOk
  <2>8. Array5 /\ Counts <=>
          (\A i \in DOMAIN k : ConsumerOk(k[i])) /\ Distinct(k, "name")
    BY <2>3, NamedEntries DEF ConsumerOk
  <2> QED
    BY <2>4, <2>5, <2>6, <2>7, <2>8 DEF EntriesOk
<1>4. ListsOk(x) <=> EntriesOk(e, q, b, p, k)
  BY DEF ListsOk
<1> HIDE DEF Array1, Types, Array2, Array3, Array4, Array5, Counts, Rest, e, q, b, p, k
<1> QED
  BY <1>1, <1>2, <1>3, <1>4 DEF ListsTyped

LEMMA PlainAgrees ==
  ASSUME NEW J, NEW W, JsonSet(J, W), NEW x \in J, IsObject(x), ListsTyped(x), ListsOk(x), Plain(x)
  PROVE  PlainBindings(Entries(Sub(x, "topology"), "bindings"))
<1> DEFINE b == Entries(Sub(x, "topology"), "bindings")
<1>1. b \in Seq(J)
  BY JsonSection DEF ListsTyped
<1>2. \A i \in DOMAIN b : BindingOk(b[i])
  BY DEF ListsOk, EntriesOk
<1>3. \A i \in DOMAIN b : \A k \in DOMAIN b[i].v :
        b[i].v[k].t = "string" => Len(b[i].v[k].v) = 1
  BY DEF Plain
<1> HIDE DEF b
<1> SUFFICES ASSUME NEW i \in DOMAIN b, NEW k \in BindingKeys
             PROVE  OnePart(Value(b[i], k, Empty))
  BY DEF PlainBindings, b
<1>4. b[i] \in J
  BY <1>1
<1>5. IsObject(b[i]) /\ Typed(b[i], k, "string")
  BY <1>2 DEF BindingOk, Conforms, Typed, BindingKeys
<1>6. Value(b[i], k, Empty) \in Seq(W)
  BY <1>4, <1>5, JsonFields
<1>7. Len(Value(b[i], k, Empty)) = 1
  <2>1. CASE k \in DOMAIN b[i].v
    BY <1>3, <1>5, <2>1 DEF Value, Typed
  <2>2. CASE k \notin DOMAIN b[i].v
    BY <2>2 DEF Value, Empty, Word
  <2> QED
    BY <2>1, <2>2
<1> QED
  BY <1>6, <1>7 DEF OnePart

(* What a JSON value says is one configuration or an error, never two.     *)
THEOREM ParserIsDeterministic ==
  ASSUME NEW x, NEW c \in ParseBusConfig(x), NEW d \in ParseBusConfig(x)
  PROVE  c = d
<1> DEFINE S == ParseSettings(x)
           E == ParseExchanges(x)
           Q == ParseQueues(x)
           B == ParseBindings(x)
           P == ParsePublishers(x)
           K == ParseConsumers(x)
<1>1. ParseBusConfig(x) =
        {y \in {[settings |-> s, exchanges |-> e, queues |-> q, bindings |-> b,
                 publishers |-> p, consumers |-> k] :
                   s \in S, e \in E, q \in Q, b \in B, p \in P, k \in K} : Resolves(y)}
  BY DEF ParseBusConfig
<1>2. IsObject(x)
  BY ParsedIsOk DEF SettingsOk
<1>3. AtMostOne({})
  BY DEF AtMostOne
<1>4. AtMostOne(S)
  BY ReadsSettings
<1>5. AtMostOne(E) /\ AtMostOne(Q) /\ AtMostOne(B) /\ AtMostOne(P) /\ AtMostOne(K)
  BY <1>2, <1>3, ReadsSections, ArraysAreOne
<1> HIDE DEF S, E, Q, B, P, K
<1> QED
  BY <1>1, <1>4, <1>5 DEF AtMostOne

(* The parser accepts only well-formed configurations: no type, bound,     *)
(* duplicate or dangling reference slips through to fail later.            *)
THEOREM ParserIsSound ==
  ASSUME NEW J, NEW W, JsonSet(J, W), NEW x \in J, NEW c \in ParseBusConfig(x)
  PROVE  WellFormed(x)
<1>1. SettingsOk(x) /\ ListsTyped(x) /\ ListsOk(x)
  BY ParsedIsOk
<1>2. IsObject(x) /\ Typed(x, "topology", "object")
  BY <1>1 DEF SettingsOk, ListsTyped
<1> QED
  BY <1>1, <1>2, SettingsAgree, EntriesAgree DEF WellFormed

(* Times that fit an int are converted as they are, so that the driver gets *)
(* the order of them that was checked before the conversion.               *)
LEMMA NarrowFits ==
  ASSUME NEW n \in 0 .. IntMax
  PROVE  Narrow(n) = n
<1>1. IntMax \in Nat
  BY BusConfigAssumption
<1>2. (n + IntMax + 1) % (2 * (IntMax + 1)) = n + IntMax + 1
  <2>1. \A a, b \in Nat : a < b => a % b = a
    OBVIOUS
  <2>2. /\ n + IntMax + 1 \in Nat /\ 2 * (IntMax + 1) \in Nat
        /\ n + IntMax + 1 < 2 * (IntMax + 1)
    BY <1>1
  <2> QED
    BY <2>1, <2>2
<1> QED
  BY <1>1, <1>2 DEF Narrow

(* A configuration whose times fit an int reaches the driver with a timeout *)
(* and an order of the delays that it can work with.                       *)
THEOREM ParsedTimesAreUsable ==
  ASSUME NEW J, NEW W, JsonSet(J, W), NEW x \in J, NEW c \in ParseBusConfig(x),
         \A n \in TimesOf(x) : n <= IntMax
  PROVE  /\ c.settings.socket_timeout_ms >= 10
         /\ c.settings.initial_delay_ms >= 0
         /\ c.settings.initial_delay_ms <= c.settings.max_delay_ms
<1> DEFINE k == x.v["connection"]
           r == Sub(k, "reconnect")
           a == Value(k, "socket_timeout_ms", 100)
           i == Value(r, "initial_delay_ms", 1000)
           m == Value(r, "max_delay_ms", 30000)
           s == c.settings
<1>1. s \in ParseSettings(x) /\ SettingsOk(x)
  BY ParsedIsOk
<1>2. /\ s.socket_timeout_ms = Narrow(a) /\ s.initial_delay_ms = Narrow(i)
      /\ s.max_delay_ms = Narrow(m)
  BY <1>1, ReadsSettings
<1>3. /\ IsObject(x) /\ "connection" \in DOMAIN x.v /\ IsObject(k)
      /\ Typed(k, "socket_timeout_ms", "int") /\ Typed(k, "reconnect", "object")
      /\ Typed(r, "initial_delay_ms", "int") /\ Typed(r, "max_delay_ms", "int")
      /\ a >= 10 /\ i >= 0 /\ m >= i
  BY <1>1 DEF SettingsOk, ConnectionOk, ReconnectOk, TimingOk
<1>4. k \in J
  <2>1. IsObject(x) /\ "connection" \in DOMAIN x.v
    BY <1>3
  <2> QED
    BY <2>1 DEF JsonSet, IsObject
<1>5. a \in Int /\ i \in Int /\ m \in Int
  BY <1>3, <1>4, JsonFields, JsonSection
<1>6. a <= IntMax /\ i <= IntMax /\ m <= IntMax
  BY DEF TimesOf
<1> HIDE DEF a, i, m, s
<1>7. a \in 0 .. IntMax /\ i \in 0 .. IntMax /\ m \in 0 .. IntMax
  BY <1>3, <1>5, <1>6, BusConfigAssumption
<1>8. /\ s.socket_timeout_ms = a /\ s.initial_delay_ms = i /\ s.max_delay_ms = m
  BY <1>2, <1>7, NarrowFits
<1> QED
  BY <1>3, <1>8 DEF s

(* The parser accepts every well-formed configuration, where the names of  *)
(* bindings hold no bars.                                                  *)
THEOREM ParserIsComplete ==
  ASSUME NEW J, NEW W, JsonSet(J, W), NEW x \in J, WellFormed(x), Plain(x)
  PROVE  ParseBusConfig(x) # {}
<1>1. /\ SettingsOk(x) /\ Typed(x, "topology", "object")
      /\ Typed(x, "publishers", "array") /\ Typed(x, "consumers", "array")
  BY SettingsAgree DEF WellFormed
<1>2. IsObject(x)
  BY <1>1 DEF SettingsOk
<1>3. ListsTyped(x) /\ ListsOk(x)
  BY <1>1, <1>2, EntriesAgree DEF WellFormed
<1> QED
  BY <1>1, <1>2, <1>3, PlainAgrees, OkIsParsed
=============================================================================

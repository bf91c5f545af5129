----------------------------- MODULE BusConfig -----------------------------
(***************************************************************************)
(* ParseBusConfig: from the JSON object a module is configured with to the *)
(* configuration of the bus. As in JsonValues, a result is a set.          *)
(***************************************************************************)
EXTENDS JsonValues

CONSTANTS
  IntMax,               (* the largest int; JSON numbers have 64 bits       *)
  UInt16Max             (* the largest uint16_t                             *)

ASSUME BusConfigAssumption ==
  /\ IntMax \in Nat
  /\ UInt16Max \in Nat /\ UInt16Max <= IntMax

(* Optional fields, with their defaults.                                   *)
Text(root, key, fallback) == Optional(root, key, "string", Word(fallback))
Flag(root, key, fallback) == Optional(root, key, "bool", fallback)
Number(root, key, fallback) == Optional(root, key, "int", fallback)
Arguments(root, key) == Optional(root, key, "object", NoFields)
Section(root, key) == {Object(o) : o \in Arguments(root, key)}
List(root, key) == Optional(root, key, "array", <<>>)

(* static_cast<int> of a 64-bit number keeps its low bits.                 *)
Narrow(n) == ((n + IntMax + 1) % (2 * (IntMax + 1))) - (IntMax + 1)

-----------------------------------------------------------------------------
(* One entry of the configuration.                                         *)

ExchangeTypes == {Word(w) : w \in {"direct", "fanout", "topic", "headers"}}

ParseExchangeSpec(x) ==
  {[name |-> n, type |-> ty, durable |-> d, auto_delete |-> ad,
    passive |-> p, internal |-> i, arguments |-> a] :
     n \in RequiredString(x, "name"),
     ty \in Text(x, "type", "direct") \cap ExchangeTypes,
     d \in Flag(x, "durable", TRUE), ad \in Flag(x, "auto_delete", FALSE),
     p \in Flag(x, "passive", FALSE), i \in Flag(x, "internal", FALSE),
     a \in Arguments(x, "arguments")}

ParseQueueSpec(x) ==
  {[name |-> n, durable |-> d, auto_delete |-> ad, passive |-> p,
    exclusive |-> e, arguments |-> a] :
     n \in RequiredString(x, "name"),
     d \in Flag(x, "durable", TRUE), ad \in Flag(x, "auto_delete", FALSE),
     p \in Flag(x, "passive", FALSE), e \in Flag(x, "exclusive", FALSE),
     a \in Arguments(x, "arguments")}

ParseBindingSpec(x) ==
  {[exchange |-> e, queue |-> q, routing_key |-> r, arguments |-> a] :
     e \in RequiredString(x, "exchange"), q \in RequiredString(x, "queue"),
     r \in Text(x, "routing_key", ""), a \in Arguments(x, "arguments")}

ParsePublisherSpec(x) ==
  {[name |-> n, exchange |-> e, routing_key |-> r, content_type |-> c,
    persistent |-> p, headers |-> h] :
     n \in RequiredString(x, "name"), e \in RequiredString(x, "exchange"),
     r \in Text(x, "routing_key", ""), c \in Text(x, "content_type", ""),
     p \in Flag(x, "persistent", TRUE), h \in Arguments(x, "headers")}

ParseConsumerSpec(x) ==
  {[name |-> n, queue |-> q, consumer_tag |-> c, auto_ack |-> aa,
    exclusive |-> e, no_local |-> nl, prefetch_count |-> p, arguments |-> a] :
     n \in RequiredString(x, "name"), q \in RequiredString(x, "queue"),
     c \in Text(x, "consumer_tag", ""), aa \in Flag(x, "auto_ack", FALSE),
     e \in Flag(x, "exclusive", FALSE), nl \in Flag(x, "no_local", FALSE),
     p \in Number(x, "prefetch_count", 1) \cap 0 .. UInt16Max,
     a \in Arguments(x, "arguments")}

NameOf(spec) == spec.name
BindingKey(spec) == spec.exchange \o spec.queue \o spec.routing_key

-----------------------------------------------------------------------------
(* The whole configuration.                                                *)

TimingOk(timeout, initial, maximum, threads) ==
  timeout >= 10 /\ initial >= 0 /\ maximum >= initial /\ threads > 0

ParseReconnect(x) ==
  {[enabled |-> e, initial |-> i, maximum |-> m] :
     e \in Flag(x, "enabled", TRUE),
     i \in Number(x, "initial_delay_ms", 1000),
     m \in Number(x, "max_delay_ms", 30000)}

ParseConnection(x) ==
  {[uri |-> u, heartbeat |-> h, timeout |-> s, reconnect |-> r] :
     u \in RequiredString(x, "uri"),
     h \in Number(x, "heartbeat_seconds", 30) \cap 0 .. UInt16Max,
     s \in Number(x, "socket_timeout_ms", 100),
     r \in Then(Section(x, "reconnect"), ParseReconnect)}

ThreadCount(x) == Number(x, "thread_count", 4)

(* The settings of connection and worker_pool; the times become ints.      *)
ParseSettings(x) ==
  LET connections == Then({Object(o) : o \in Required(x, "connection", "object")},
                          ParseConnection)
      threads == Then(Section(x, "worker_pool"), ThreadCount)
  IN {[uri |-> z[1].uri, heartbeat_seconds |-> z[1].heartbeat,
       socket_timeout_ms |-> Narrow(z[1].timeout),
       reconnect |-> z[1].reconnect.enabled,
       initial_delay_ms |-> Narrow(z[1].reconnect.initial),
       max_delay_ms |-> Narrow(z[1].reconnect.maximum),
       worker_thread_count |-> z[2]] :
        z \in {y \in connections \X threads :
                TimingOk(y[1].timeout, y[1].reconnect.initial,
                         y[1].reconnect.maximum, y[2])}}

ExchangeList(x) == List(x, "exchanges")
QueueList(x) == List(x, "queues")
BindingList(x) == List(x, "bindings")

Exchanges(l) == ParseUniqueArray(l, ParseExchangeSpec, NameOf)
Queues(l) == ParseUniqueArray(l, ParseQueueSpec, NameOf)
Bindings(l) == ParseUniqueArray(l, ParseBindingSpec, BindingKey)
Publishers(l) == ParseUniqueArray(l, ParsePublisherSpec, NameOf)
Consumers(l) == ParseUniqueArray(l, ParseConsumerSpec, NameOf)

Names(specs) == {specs[i].name : i \in DOMAIN specs}

(* Mutant of Resolves: the queues of the consumers are not looked up.       *)
ResolvesWithoutConsumers(c) ==
  /\ \A i \in DOMAIN c.bindings :
       /\ c.bindings[i].exchange \in Names(c.exchanges)
       /\ c.bindings[i].queue \in Names(c.queues)
  /\ \A i \in DOMAIN c.publishers :
       c.publishers[i].exchange \in Names(c.exchanges)

(* What an entry refers to is an entry too. *)
Resolves(c) ==
  /\ \A i \in DOMAIN c.bindings :
       /\ c.bindings[i].exchange \in Names(c.exchanges)
       /\ c.bindings[i].queue \in Names(c.queues)
  /\ \A i \in DOMAIN c.publishers :
       c.publishers[i].exchange \in Names(c.exchanges)
  /\ \A i \in DOMAIN c.consumers :
       c.consumers[i].queue \in Names(c.queues)

ParseExchanges(x) == Then(Then(Section(x, "topology"), ExchangeList), Exchanges)
ParseQueues(x) == Then(Then(Section(x, "topology"), QueueList), Queues)
ParseBindings(x) == Then(Then(Section(x, "topology"), BindingList), Bindings)
ParsePublishers(x) == Then(List(x, "publishers"), Publishers)
ParseConsumers(x) == Then(List(x, "consumers"), Consumers)

ParseBusConfig(x) ==
  {c \in
     {[settings |-> s, exchanges |-> e, queues |-> q, bindings |-> b,
       publishers |-> p, consumers |-> k] :
        s \in ParseSettings(x), e \in ParseExchanges(x),
        q \in ParseQueues(x), b \in ParseBindings(x),
        p \in ParsePublishers(x), k \in ParseConsumers(x)} :
     Resolves(c)}

(* RabbitMqBusConfig()                                                     *)
DefaultConfig ==
  [settings |->
     [uri |-> Empty, heartbeat_seconds |-> 30, socket_timeout_ms |-> 100,
      reconnect |-> TRUE, initial_delay_ms |-> 1000, max_delay_ms |-> 30000,
      worker_thread_count |-> 4],
   exchanges |-> <<>>, queues |-> <<>>, bindings |-> <<>>,
   publishers |-> <<>>, consumers |-> <<>>]

-----------------------------------------------------------------------------
(* The reference: which JSON a module may be configured with, said of the  *)
(* JSON itself, field by field.                                            *)

(* x has the fields of must, strings among them not empty, and those of    *)
(* may where they are present, each with its type.                         *)
Conforms(x, must, may) ==
  /\ IsObject(x)
  /\ DOMAIN must \subseteq DOMAIN x.v
  /\ \A k \in DOMAIN x.v :
       /\ k \in DOMAIN must =>
            x.v[k].t = must[k] /\ (must[k] = "string" => x.v[k].v # Empty)
       /\ k \in DOMAIN may => x.v[k].t = may[k]

(* What a field says, with its default. *)
Value(x, key, fallback) ==
  IF key \in DOMAIN x.v THEN x.v[key].v ELSE fallback
Entries(x, key) == Value(x, key, <<>>)
Sub(x, key) == IF key \in DOMAIN x.v THEN x.v[key] ELSE Object(NoFields)

(* Entries of the right form, any two of which differ in one of the keys.   *)
EntryOf(must, may, entries, keys) ==
  /\ \A i \in DOMAIN entries : Conforms(entries[i], must, may)
  /\ \A i, j \in DOMAIN entries :
       i < j => \E k \in keys :
                  Value(entries[i], k, Empty) # Value(entries[j], k, Empty)

Named(entries) == {entries[i].v.name.v : i \in DOMAIN entries}
Refers(entries, key, names) ==
  \A i \in DOMAIN entries : entries[i].v[key].v \in names

WellFormedSettings(x) ==
  /\ Conforms(x, [connection |-> "object"],
              [worker_pool |-> "object", topology |-> "object",
               publishers |-> "array", consumers |-> "array"])
  /\ Conforms(x.v.connection, [uri |-> "string"],
              [heartbeat_seconds |-> "int", socket_timeout_ms |-> "int",
               reconnect |-> "object"])
  /\ LET r == Sub(x.v.connection, "reconnect")
         w == Sub(x, "worker_pool")
     IN /\ Conforms(r, NoFields, [enabled |-> "bool", initial_delay_ms |-> "int",
                                  max_delay_ms |-> "int"])
        /\ Conforms(w, NoFields, [thread_count |-> "int"])
        /\ Value(x.v.connection, "heartbeat_seconds", 30) \in 0 .. UInt16Max
        /\ Value(x.v.connection, "socket_timeout_ms", 100) >= 10
        /\ 0 <= Value(r, "initial_delay_ms", 1000)
        /\ Value(r, "initial_delay_ms", 1000) <= Value(r, "max_delay_ms", 30000)
        /\ Value(w, "thread_count", 4) >= 1

WellFormedEntries(x) ==
  LET t == Sub(x, "topology")
      exchanges == Entries(t, "exchanges")
      queues == Entries(t, "queues")
      bindings == Entries(t, "bindings")
      publishers == Entries(x, "publishers")
      consumers == Entries(x, "consumers")
  IN /\ Conforms(t, NoFields, [exchanges |-> "array", queues |-> "array",
                               bindings |-> "array"])
     /\ EntryOf([name |-> "string"],
                [type |-> "string", durable |-> "bool", auto_delete |-> "bool",
                 passive |-> "bool", internal |-> "bool", arguments |-> "object"],
                exchanges, {"name"})
     /\ \A i \in DOMAIN exchanges :
          Value(exchanges[i], "type", Word("direct")) \in ExchangeTypes
     /\ EntryOf([name |-> "string"],
                [durable |-> "bool", auto_delete |-> "bool", passive |-> "bool",
                 exclusive |-> "bool", arguments |-> "object"],
                queues, {"name"})
     /\ EntryOf([exchange |-> "string", queue |-> "string"],
                [routing_key |-> "string", arguments |-> "object"],
                bindings, {"exchange", "queue", "routing_key"})
     /\ EntryOf([name |-> "string", exchange |-> "string"],
                [routing_key |-> "string", content_type |-> "string",
                 persistent |-> "bool", headers |-> "object"],
                publishers, {"name"})
     /\ EntryOf([name |-> "string", queue |-> "string"],
                [consumer_tag |-> "string", auto_ack |-> "bool",
                 exclusive |-> "bool", no_local |-> "bool",
                 prefetch_count |-> "int", arguments |-> "object"],
                consumers, {"name"})
     /\ \A i \in DOMAIN consumers :
          Value(consumers[i], "prefetch_count", 1) \in 0 .. UInt16Max
     /\ Refers(bindings, "exchange", Named(exchanges))
     /\ Refers(bindings, "queue", Named(queues))
     /\ Refers(publishers, "exchange", Named(exchanges))
     /\ Refers(consumers, "queue", Named(queues))

WellFormed(x) == WellFormedSettings(x) /\ WellFormedEntries(x)

(* The key of a binding joins its names with bars, so two bindings whose   *)
(* names hold bars may be taken for one.                                   *)
Plain(x) ==
  LET bindings == Entries(Sub(x, "topology"), "bindings")
  IN \A i \in DOMAIN bindings : \A k \in DOMAIN bindings[i].v :
       bindings[i].v[k].t = "string" => Len(bindings[i].v[k].v) = 1

(* The times of a configuration. *)
TimesOf(x) ==
  LET c == x.v.connection
      r == Sub(c, "reconnect")
  IN {Value(c, "socket_timeout_ms", 100), Value(r, "initial_delay_ms", 1000),
      Value(r, "max_delay_ms", 30000)}
=============================================================================

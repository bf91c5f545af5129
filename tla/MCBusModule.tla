---------------------------- MODULE MCBusModule ----------------------------
(* One bus module, and the JSON it may be configured with: two files that  *)
(* are in order, and variants of them that each differ in one place.       *)
EXTENDS BusModule, TLC

CONSTANTS bus

MCModules == {bus}

S(w) == String(Word(w))
Without(f, key) == [k \in DOMAIN f \ {key} |-> f[k]]

(* Only what is required. *)
Least == [connection |-> Object([uri |-> S("amqp")])]

Exchange == [name |-> S("ex"), type |-> S("topic"), durable |-> Bool(FALSE)]
Queue == [name |-> S("jobs"), exclusive |-> Bool(TRUE)]
Binding == [exchange |-> S("ex"), queue |-> S("jobs"), routing_key |-> S("run")]
Publisher == [name |-> S("out"), exchange |-> S("ex")]
Consumer == [name |-> S("in"), queue |-> S("jobs"), prefetch_count |-> Num(5)]
Connection ==
  [uri |-> S("amqp"), heartbeat_seconds |-> Num(60),
   reconnect |-> Object([initial_delay_ms |-> Num(500)])]

Topology(e, q, b) ==
  Object([exchanges |-> Array(e), queues |-> Array(q), bindings |-> Array(b)])

Full ==
  [connection |-> Object(Connection),
   worker_pool |-> Object([thread_count |-> Num(2)]),
   topology |-> Topology(<<Object(Exchange)>>, <<Object(Queue)>>,
                         <<Object(Binding)>>),
   publishers |-> Array(<<Object(Publisher)>>),
   consumers |-> Array(<<Object(Consumer)>>)]

(* Full with another value of one field, at one of its levels; of the       *)
(* connection, in a file that has nothing else.                             *)
With(f, key, value) == (key :> value) @@ f
Top(key, value) == With(Full, key, value)
Link(key, value) == [connection |-> Object(With(Connection, key, value))]
Reconnect(r) == Link("reconnect", Object(r))
Entities(e, q, b) == Top("topology", Topology(e, q, b))
WithExchange(e) == Entities(<<e>>, <<Object(Queue)>>, <<Object(Binding)>>)
WithQueues(q) == Entities(<<Object(Exchange)>>, q, <<Object(Binding)>>)
WithBindings(b) == Entities(<<Object(Exchange)>>, <<Object(Queue)>>, b)
WithPublisher(p) == Top("publishers", Array(<<Object(p)>>))
WithConsumer(c) == Top("consumers", Array(<<Object(c)>>))

Wide == IntMax + 1      (* fits 64 bits, but not an int *)
Bars(a, b) == String(<<a, b>>)

(* x and all that is inside it.                                            *)
RECURSIVE Inside(_)
Inside(x) ==
  {x} \cup (IF x.t \in {"array", "object"}
           THEN UNION {Inside(x.v[k]) : k \in DOMAIN x.v} ELSE {})

MCFiles ==
  <<Object(Least), Object(Full), S("text"), Object(Without(Full, "connection")),
    Object(Top("connection", S("amqp"))),
    Object(Top("connection", Object(Without(Connection, "uri")))),
    Object(Link("uri", S(""))), Object(Link("uri", Num(1))),
    Object(Link("heartbeat_seconds", Num(0))),
    Object(Link("heartbeat_seconds", Num(UInt16Max + 1))),
    Object(Link("heartbeat_seconds", Num(-1))),
    Object(Link("socket_timeout_ms", Num(9))),
    Object(Link("socket_timeout_ms", Num(10))),
    Object(Link("socket_timeout_ms", Num(Wide))),
    Object(Link("reconnect", Bool(TRUE))),
    Object(Reconnect([enabled |-> Num(1)])),
    Object(Reconnect([enabled |-> Bool(FALSE), initial_delay_ms |-> Num(0)])),
    Object(Reconnect([initial_delay_ms |-> Num(-1)])),
    Object(Reconnect([initial_delay_ms |-> Num(30001)])),
    Object(Reconnect([max_delay_ms |-> Num(999)])),
    Object(Reconnect([max_delay_ms |-> Num(Wide)])),
    Object(Top("worker_pool", Num(2))),
    Object(Top("worker_pool", Object([thread_count |-> Num(0)]))),
    Object(Top("worker_pool", Object([thread_count |-> S("2")]))),
    Object(Top("topology", Array(<<>>))),
    Object(Without(Full, "topology")),
    Object(Top("publishers", Object(Publisher))),
    Object(WithExchange(Object(With(Exchange, "type", S("dirct"))))),
    Object(WithExchange(Object(With(Exchange, "internal", S("no"))))),
    Object(WithExchange(Object(Without(Exchange, "name")))),
    Object(WithExchange(S("ex"))),
    Object(WithQueues(<<Object(Queue), Object(Queue)>>)),
    Object(WithQueues(<<Object(Queue), Object(With(Queue, "name", S("more")))>>)),
    Object(WithQueues(<<Object(With(Queue, "arguments", Array(<<>>)))>>)),
    Object(WithBindings(<<Object(Binding), Object(Without(Binding, "routing_key"))>>)),
    Object(WithBindings(<<Object(Binding),
                          Object(With(Binding, "arguments", Object(Exchange)))>>)),
    Object(WithBindings(<<Object(With(Binding, "exchange", S("ey")))>>)),
    Object(WithBindings(<<Object(With(Binding, "queue", S("none")))>>)),
    Object(Entities(<<Object(Exchange), Object(With(Exchange, "name", Bars("ex", "a")))>>,
                    <<Object(Queue), Object(With(Queue, "name", Bars("a", "jobs")))>>,
                    <<Object(With(Binding, "exchange", Bars("ex", "a"))),
                      Object(With(Binding, "queue", Bars("a", "jobs")))>>)),
    Object(WithPublisher(With(Publisher, "exchange", S("ey")))),
    Object(WithPublisher(With(Publisher, "headers", S("h")))),
    Object(WithConsumer(With(Consumer, "queue", S("none")))),
    Object(WithConsumer(With(Consumer, "prefetch_count", Num(UInt16Max + 1)))),
    Object(WithConsumer(With(Consumer, "prefetch_count", Num(0)))),
    Object(WithConsumer(With(Consumer, "auto_ack", Bool(TRUE)))),
    Object(WithConsumer(With(Consumer, "auto_ack", Num(1))))>>

(* The hypothesis of InitAgrees: these files are JSON, with all that is    *)
(* inside them.                                                            *)
ASSUME FilesAreJson ==
  JsonSet(UNION {Inside(Files[i]) : i \in DOMAIN Files}, STRING)
=============================================================================

----------------------------- MODULE MCTopology -----------------------------
(* A file with one exchange, one queue that may vanish and is consumed,    *)
(* and their binding; a second queue for the application, and one of       *)
(* another client.                                                         *)
EXTENDS Topology

CONSTANTS ex, fileQueue, appQueue, otherQueue, argsA, argsB

MCExchanges == {ex}
MCQueues == {fileQueue, appQueue}
MCForeign == {otherQueue}
MoreQueues == MCQueues \cup MCForeign
NoQueues == {}
OneArgument == {argsA}
TwoArguments == {argsA, argsB}

MCFileExchanges ==
  <<[what |-> [kind |-> "exchange", name |-> ex, flavour |-> "durable"],
     passive |-> FALSE]>>
MCFileQueues ==
  <<[what |-> [kind |-> "queue", name |-> fileQueue, flavour |-> "volatile"],
     passive |-> FALSE]>>
MCFileBindings ==
  <<[what |-> [kind |-> "binding", exchange |-> ex, queue |-> fileQueue,
               args |-> argsA],
     passive |-> FALSE]>>
MCFileConsumers == <<fileQueue>>
=============================================================================

------------------------------ MODULE Delivery ------------------------------
(***************************************************************************)
(* The way of a message through the RabbitMQ bus module: the broker sends  *)
(* it on a consumer's channel, the driver thread hands it with the handler *)
(* registered at that moment to the worker pool, a worker runs the handler *)
(* and calls CompleteDelivery, whose command the driver thread executes on *)
(* the consumer's channel of the connection then in use. Connections break *)
(* and are replaced, which numbers the deliveries of a channel anew; OnStop*)
(* ends the driver, then the pool.                                         *)
(*                                                                         *)
(* The broker and the thread pool are external. ConnectionDriver has the   *)
(* driver thread in detail; here its loop is                               *)
(*   top -> drain -> pump -> check -> top, or top -> drain -> connect -> top*)
(***************************************************************************)
EXTENDS Naturals, Sequences, FiniteSets, SequencesExt

CONSTANTS
  Messages,             (* messages in the broker's queue                   *)
  Consumers,            (* consumers of the config, all on that queue       *)
  AutoAck,              (* those with auto_ack                              *)
  Workers,              (* threads of the worker pool                       *)
  Prefetch,             (* prefetch_count of each consumer; 0: no limit     *)
  PoolMayRefuse,        (* ThreadPool::Submit may fail                      *)
  MaxLinks,             (* bound: connections of a behaviour                *)
  MaxTag                (* bound: deliveries on a channel                   *)

Driver == "driver"      (* that thread, as a caller of CompleteDelivery     *)

ASSUME DeliveryAssumption ==
  /\ AutoAck \subseteq Consumers
  /\ Driver \notin Workers
  /\ Prefetch \in Nat
  /\ PoolMayRefuse \in BOOLEAN
  /\ MaxLinks \in Nat
  /\ MaxTag \in Nat

VARIABLES
  queued,               (* messages ready in the queue                      *)
  outstanding,          (* deliveries the broker wants acknowledged         *)
  settled,              (* history: how the broker got rid of a message     *)
  link,                 (* the connection: up, broken by the broker, down   *)
  epoch,                (* number of the connection                         *)
  lastTag,              (* lastTag[c]: deliveries sent on c's channel       *)
  channel,              (* channel[c]: that of c in consumer_channel_      *)
  serving,              (* consumers whose channel the broker has open      *)
  inbound,              (* frames on their way to the driver                *)
  outbound,             (* settlements on their way to the broker           *)
  pendingDisconnect,
  thread,               (* control point of the driver thread               *)
  commands,             (* local_commands, then commands_                   *)
  batch,                (* how many of them are local_commands              *)
  handlers,             (* consumers with a registered handler              *)
  tasks,                (* queue of the worker pool                         *)
  worker,               (* worker[w]: what the thread w does                *)
  phase,                (* where OnStop has got to                          *)
  said                  (* history: what was decided about which message    *)

brokerVars == <<queued, outstanding, settled, lastTag, serving>>
linkVars == <<link, epoch, channel, inbound, outbound, pendingDisconnect>>
threadVars == <<thread, commands, batch>>
poolVars == <<tasks, worker, said>>
vars == <<brokerVars, linkVars, threadVars, handlers, poolVars, phase>>

Actions == {"Ack", "Requeue", "Reject"}

(* DeliveryContext, with what only the properties look at: the message and *)
(* the connection it came on.                                              *)
Delivery ==
  [consumer : Consumers, tag : 1 .. MaxTag, msg : Messages, epoch : 1 .. MaxLinks]

(* The broker closed the channel of consumer c. *)
ChannelClosed(c) == [closed |-> c]
Frame == Delivery \cup {ChannelClosed(c) : c \in Consumers}

Settlement == [d : Delivery, action : Actions]
Command == [d : Delivery, action : Actions, by : Workers \cup {Driver}]
Task == [d : Delivery, handler : BOOLEAN]

Idle == [at |-> "idle"]
WorkerState ==
  {Idle} \cup [at : {"handler"}, d : Delivery, handler : BOOLEAN]
         \cup [at : {"waiting"}, d : Delivery]

TypeOK ==
  /\ queued \subseteq Messages
  /\ outstanding \subseteq Delivery
  /\ settled \in [Messages -> {"no", "auto", "Ack", "Reject"}]
  /\ link \in {"up", "broken", "down"}
  /\ epoch \in 0 .. MaxLinks
  /\ lastTag \in [Consumers -> 0 .. MaxTag]
  /\ channel \in [Consumers -> {"none", "open", "closed"}]
  /\ serving \subseteq {c \in Consumers : channel[c] = "open"}
  /\ inbound \in Seq(Frame)
  /\ outbound \in Seq(Settlement)
  /\ pendingDisconnect \in BOOLEAN
  /\ thread \in {"top", "drain", "connect", "pump", "check", "selfWait", "exited"}
  /\ commands \in Seq(Command)
  /\ batch \in 0 .. Len(commands)
  /\ handlers \subseteq Consumers
  /\ tasks \in Seq(Task)
  /\ worker \in [Workers -> WorkerState]
  /\ phase \in {"running", "joining", "draining", "stopped"}
  /\ said \subseteq Messages \X Actions

(* After OnStart: the driver runs, nothing is connected or registered yet. *)
Init ==
  /\ queued = Messages /\ outstanding = {}
  /\ settled = [m \in Messages |-> "no"]
  /\ link = "down" /\ epoch = 0
  /\ lastTag = [c \in Consumers |-> 0]
  /\ channel = [c \in Consumers |-> "none"] /\ serving = {}
  /\ inbound = <<>> /\ outbound = <<>> /\ pendingDisconnect = FALSE
  /\ thread = "top" /\ commands = <<>> /\ batch = 0
  /\ handlers = {}
  /\ tasks = <<>> /\ worker = [w \in Workers |-> Idle] /\ said = {}
  /\ phase = "running"

StopRequested == phase # "running"

-----------------------------------------------------------------------------
(* The broker.                                                             *)

Unsettled(c) == {d \in outstanding : d.consumer = c}
MessagesOf(D) == {d.msg : d \in D}

(* An auto_ack delivery counts as settled when it is sent.                 *)
Deliver(c, m) ==
  /\ link = "up" /\ c \in serving
  /\ m \in queued
  /\ lastTag[c] < MaxTag
  /\ Prefetch = 0 \/ c \in AutoAck \/ Cardinality(Unsettled(c)) < Prefetch
  /\ LET d == [consumer |-> c, tag |-> lastTag[c] + 1, msg |-> m, epoch |-> epoch]
     IN /\ inbound' = Append(inbound, d)
        /\ IF c \in AutoAck
           THEN settled' = [settled EXCEPT ![m] = "auto"] /\ UNCHANGED outstanding
           ELSE outstanding' = outstanding \cup {d} /\ UNCHANGED settled
  /\ queued' = queued \ {m}
  /\ lastTag' = [lastTag EXCEPT ![c] = @ + 1]
  /\ UNCHANGED <<serving, link, epoch, channel, outbound, pendingDisconnect,
                 threadVars, handlers, poolVars, phase>>

(* basic.ack, basic.reject: the broker goes by channel and tag; a tag it   *)
(* does not know makes it close the channel, which requeues what was       *)
(* outstanding there.                                                      *)
Settle ==
  /\ link = "up"
  /\ outbound # <<>>
  /\ outbound' = Tail(outbound)
  /\ LET frame == Head(outbound)
         c == frame.d.consumer
         known == {d \in Unsettled(c) : d.tag = frame.d.tag}
     IN \/ /\ c \in serving /\ known # {}
           /\ outstanding' = outstanding \ known
           /\ IF frame.action = "Requeue"
              THEN queued' = queued \cup MessagesOf(known) /\ UNCHANGED settled
              ELSE /\ settled' = [m \in Messages |-> IF m \in MessagesOf(known)
                                                     THEN frame.action
                                                     ELSE settled[m]]
                   /\ UNCHANGED queued
           /\ UNCHANGED <<serving, inbound>>
        \/ /\ c \in serving /\ known = {}
           /\ serving' = serving \ {c}
           /\ queued' = queued \cup MessagesOf(Unsettled(c))
           /\ outstanding' = outstanding \ Unsettled(c)
           /\ inbound' = Append(inbound, ChannelClosed(c))
           /\ UNCHANGED settled
        \/ /\ c \notin serving
           /\ UNCHANGED <<queued, outstanding, settled, serving, inbound>>
  /\ UNCHANGED <<lastTag, link, epoch, channel, pendingDisconnect,
                 threadVars, handlers, poolVars, phase>>

(* What the broker does when a connection is gone. *)
RequeueAll ==
  /\ queued' = queued \cup MessagesOf(outstanding)
  /\ outstanding' = {}
  /\ serving' = {}

LinkBreaks ==
  /\ link = "up"
  /\ epoch < MaxLinks
  /\ link' = "broken"
  /\ RequeueAll
  /\ UNCHANGED <<settled, lastTag, epoch, channel, inbound, outbound,
                 pendingDisconnect, threadVars, handlers, poolVars, phase>>

-----------------------------------------------------------------------------
(* The driver thread.                                                      *)

(* HandleDisconnect. *)
DropConnection ==
  /\ link' = "down"
  /\ RequeueAll
  /\ channel' = [c \in Consumers |-> "none"]
  /\ inbound' = <<>> /\ outbound' = <<>>
  /\ pendingDisconnect' = FALSE
  /\ UNCHANGED <<settled, lastTag, epoch>>

(* Mutant of SwapCommands: one command more than there are is awaited.      *)
SwapTooMany ==
  /\ thread = "top"
  /\ ~StopRequested
  /\ thread' = "drain"
  /\ batch' = Len(commands) + 1
  /\ UNCHANGED <<brokerVars, linkVars, commands, handlers, poolVars, phase>>

SwapCommands ==
  /\ thread = "top"
  /\ ~StopRequested
  /\ thread' = "drain"
  /\ batch' = Len(commands)
  /\ UNCHANGED <<brokerVars, linkVars, commands, handlers, poolVars, phase>>

(* Mutant of ThreadExits: only the disconnected loop sees the stop.         *)
ExitsWhenDown ==
  /\ thread = "top"
  /\ StopRequested /\ link = "down"
  /\ DropConnection
  /\ thread' = "exited"
  /\ UNCHANGED <<commands, batch, handlers, poolVars, phase>>

ThreadExits ==
  /\ thread = "top"
  /\ StopRequested
  /\ DropConnection
  /\ thread' = "exited"
  /\ UNCHANGED <<commands, batch, handlers, poolVars, phase>>

(* The body of CompleteDelivery's command: it looks the channel up by the  *)
(* consumer's name, and a closed channel rejects the frame. Any answer     *)
(* ends the wait of the worker.                                            *)
CompleteBody(command) ==
  outbound' = IF channel[command.d.consumer] = "open"
              THEN Append(outbound, [d |-> command.d, action |-> command.action])
              ELSE outbound

(* Mutant of RunCommand: without a channel the promise is left open.        *)
RunUnanswered ==
  /\ thread = "drain"
  /\ batch > 0
  /\ batch' = batch - 1
  /\ commands' = Tail(commands)
  /\ CompleteBody(Head(commands))
  /\ IF outbound' = outbound THEN UNCHANGED worker
     ELSE worker' = [worker EXCEPT ![Head(commands).by] = Idle]
  /\ UNCHANGED <<brokerVars, link, epoch, channel, inbound, pendingDisconnect,
                 thread, handlers, tasks, said, phase>>

RunCommand ==
  /\ thread = "drain"
  /\ batch > 0
  /\ batch' = batch - 1
  /\ commands' = Tail(commands)
  /\ CompleteBody(Head(commands))
  /\ worker' = [worker EXCEPT ![Head(commands).by] = Idle]
  /\ UNCHANGED <<brokerVars, link, epoch, channel, inbound, pendingDisconnect,
                 thread, handlers, tasks, said, phase>>

DrainDone ==
  /\ thread = "drain"
  /\ batch = 0
  /\ thread' = IF link = "down" THEN "connect" ELSE "pump"
  /\ UNCHANGED <<brokerVars, linkVars, commands, batch, handlers, poolVars,
                 phase>>

(* ConnectSocket: the new connection has no channels.                      *)
Connect ==
  /\ thread = "connect"
  /\ epoch < MaxLinks
  /\ link' = "up"
  /\ epoch' = epoch + 1
  /\ lastTag' = [c \in Consumers |-> 0]
  /\ thread' = "top"
  /\ UNCHANGED <<queued, outstanding, settled, serving, channel, inbound,
                 outbound, pendingDisconnect, commands, batch, handlers,
                 poolVars, phase>>

(* It fails, or is not yet due.                                            *)
NoConnection ==
  /\ thread = "connect"
  /\ thread' = "top"
  /\ UNCHANGED <<brokerVars, linkVars, commands, batch, handlers, poolVars,
                 phase>>

(* BootstrapConsumers and StartConsumer get to c.                          *)
StartConsumer(c) ==
  /\ thread = "pump"
  /\ link = "up"
  /\ channel[c] = "none"
  /\ channel' = [channel EXCEPT ![c] = "open"]
  /\ serving' = serving \cup {c}
  /\ UNCHANGED <<queued, outstanding, settled, lastTag, link, epoch, inbound,
                 outbound, pendingDisconnect, threadVars, handlers, poolVars,
                 phase>>

(* Mutant of Submit: a message without a handler is not handed on.          *)
SubmitHandled(d) ==
  /\ tasks' = IF d.consumer \in handlers
              THEN Append(tasks, [d |-> d, handler |-> TRUE]) ELSE tasks
  /\ UNCHANGED threadVars

(* The delivery callback: the pool takes the message with its handler; or  *)
(* it refuses, and CompleteDelivery is called on the driver thread itself, *)
(* which then waits for a command that only it would execute.              *)
Submit(d) ==
  \/ /\ tasks' = Append(tasks, [d |-> d, handler |-> d.consumer \in handlers])
     /\ UNCHANGED threadVars
  \/ /\ PoolMayRefuse
     /\ IF d.consumer \in AutoAck \/ StopRequested
        THEN UNCHANGED threadVars
        ELSE /\ commands' = Append(commands, [d |-> d, action |-> "Requeue",
                                              by |-> Driver])
             /\ thread' = "selfWait"
             /\ UNCHANGED batch
     /\ UNCHANGED tasks

(* Mutant of ReceiveMessage: acknowledged on receipt. *)
AckOnReceipt ==
  /\ thread = "pump"
  /\ inbound # <<>> /\ Head(inbound) \in Delivery
  /\ Submit(Head(inbound))
  /\ inbound' = Tail(inbound)
  /\ outbound' = IF Head(inbound).consumer \in AutoAck THEN outbound
                 ELSE Append(outbound, [d |-> Head(inbound), action |-> "Ack"])
  /\ UNCHANGED <<brokerVars, link, epoch, channel, pendingDisconnect, handlers,
                 worker, said, phase>>

(* HandleIncomingMessage. *)
ReceiveMessage ==
  /\ thread = "pump"
  /\ inbound # <<>> /\ Head(inbound) \in Delivery
  /\ Submit(Head(inbound))
  /\ inbound' = Tail(inbound)
  /\ UNCHANGED <<brokerVars, link, epoch, channel, outbound,
                 pendingDisconnect, handlers, worker, said, phase>>

(* The channel's onError, among the frames of a read; or a read that finds *)
(* the connection broken.                                                  *)
ReceiveError ==
  /\ thread = "pump"
  /\ \/ /\ inbound # <<>> /\ Head(inbound) \notin Delivery
        /\ inbound' = Tail(inbound)
        /\ channel' = [channel EXCEPT ![Head(inbound).closed] = "closed"]
        /\ UNCHANGED thread
     \/ /\ link = "broken"
        /\ thread' = "check"
        /\ UNCHANGED <<inbound, channel>>
  /\ pendingDisconnect' = TRUE
  /\ UNCHANGED <<brokerVars, link, epoch, outbound, commands, batch, handlers,
                 poolVars, phase>>

PumpDone ==
  /\ thread = "pump"
  /\ thread' = "check"
  /\ UNCHANGED <<brokerVars, linkVars, commands, batch, handlers, poolVars,
                 phase>>

CheckDisconnect ==
  /\ thread = "check"
  /\ thread' = "top"
  /\ IF pendingDisconnect THEN DropConnection ELSE UNCHANGED <<brokerVars, linkVars>>
  /\ UNCHANGED <<commands, batch, handlers, poolVars, phase>>

-----------------------------------------------------------------------------
(* The worker pool.                                                        *)

TakeTask(w) ==
  /\ worker[w] = Idle
  /\ tasks # <<>>
  /\ tasks' = Tail(tasks)
  /\ worker' = [worker EXCEPT ![w] = [at |-> "handler", d |-> Head(tasks).d,
                                      handler |-> Head(tasks).handler]]
  /\ UNCHANGED <<brokerVars, linkVars, threadVars, handlers, said, phase>>

(* Mutants of HandlerReturns: every message is acknowledged; a message      *)
(* without a handler is not completed.                                     *)
AckAnyway(w, action) ==
  /\ worker[w].at = "handler"
  /\ worker[w].handler \/ action = "Requeue"
  /\ LET d == worker[w].d IN
       /\ said' = said \cup {<<d.msg, action>>}
       /\ IF d.consumer \in AutoAck \/ StopRequested
          THEN worker' = [worker EXCEPT ![w] = Idle] /\ UNCHANGED commands
          ELSE /\ commands' = Append(commands, [d |-> d, action |-> "Ack", by |-> w])
               /\ worker' = [worker EXCEPT ![w] = [at |-> "waiting", d |-> d]]
  /\ UNCHANGED <<brokerVars, linkVars, thread, batch, handlers, tasks, phase>>

SkipUnhandled(w, action) ==
  /\ worker[w].at = "handler"
  /\ worker[w].handler \/ action = "Requeue"
  /\ LET d == worker[w].d IN
       /\ said' = said \cup {<<d.msg, action>>}
       /\ IF d.consumer \in AutoAck \/ StopRequested \/ ~worker[w].handler
          THEN worker' = [worker EXCEPT ![w] = Idle] /\ UNCHANGED commands
          ELSE /\ commands' = Append(commands, [d |-> d, action |-> action, by |-> w])
               /\ worker' = [worker EXCEPT ![w] = [at |-> "waiting", d |-> d]]
  /\ UNCHANGED <<brokerVars, linkVars, thread, batch, handlers, tasks, phase>>

(* The handler returns or throws, then CompleteDelivery is called: nothing *)
(* to do for auto_ack, an error once the driver was told to stop.          *)
HandlerReturns(w, action) ==
  /\ worker[w].at = "handler"
  /\ worker[w].handler \/ action = "Requeue"
  /\ LET d == worker[w].d IN
       /\ said' = said \cup {<<d.msg, action>>}
       /\ IF d.consumer \in AutoAck \/ StopRequested
          THEN worker' = [worker EXCEPT ![w] = Idle] /\ UNCHANGED commands
          ELSE /\ commands' = Append(commands, [d |-> d, action |-> action, by |-> w])
               /\ worker' = [worker EXCEPT ![w] = [at |-> "waiting", d |-> d]]
  /\ UNCHANGED <<brokerVars, linkVars, thread, batch, handlers, tasks, phase>>

-----------------------------------------------------------------------------
(* The application registers and unregisters handlers, and stops.          *)

RegisterConsumerHandler(c) ==
  /\ handlers' = handlers \cup {c}
  /\ UNCHANGED <<brokerVars, linkVars, threadVars, poolVars, phase>>

UnregisterConsumerHandler(c) ==
  /\ c \in handlers
  /\ handlers' = handlers \ {c}
  /\ UNCHANGED <<brokerVars, linkVars, threadVars, poolVars, phase>>

RequestStop ==
  /\ phase = "running"
  /\ phase' = "joining"
  /\ UNCHANGED <<brokerVars, linkVars, threadVars, handlers, poolVars>>

JoinDriver ==
  /\ phase = "joining"
  /\ thread = "exited"
  /\ phase' = "draining"
  /\ UNCHANGED <<brokerVars, linkVars, threadVars, handlers, poolVars>>

(* ThreadPool::Shutdown returns when every task is done. *)
PoolDone ==
  /\ phase = "draining"
  /\ tasks = <<>> /\ \A w \in Workers : worker[w] = Idle
  /\ phase' = "stopped"
  /\ UNCHANGED <<brokerVars, linkVars, threadVars, handlers, poolVars>>

-----------------------------------------------------------------------------
DriverStep ==
  \/ SwapCommands \/ ThreadExits \/ RunCommand \/ DrainDone
  \/ Connect \/ NoConnection
  \/ \E c \in Consumers : StartConsumer(c)
  \/ ReceiveMessage \/ ReceiveError \/ PumpDone \/ CheckDisconnect

StopStep == JoinDriver \/ PoolDone

WorkerStep(w) == TakeTask(w) \/ \E a \in Actions : HandlerReturns(w, a)

Next ==
  \/ \E c \in Consumers, m \in Messages : Deliver(c, m)
  \/ Settle \/ LinkBreaks
  \/ DriverStep
  \/ \E w \in Workers : WorkerStep(w)
  \/ \E c \in Consumers :
       RegisterConsumerHandler(c) \/ UnregisterConsumerHandler(c)
  \/ RequestStop \/ StopStep

Spec == Init /\ [][Next]_vars
-----------------------------------------------------------------------------
(* Where a delivery is inside the client.                                  *)
Positions(s, Test(_)) == {i \in DOMAIN s : Test(s[i])}

Holders(d) ==
  LET ofD(x) == x.d = d
  IN ({"inbound"} \X Positions(inbound, LAMBDA x : x = d))
     \cup ({"task"} \X Positions(tasks, ofD))
     \cup ({"worker"} \X {w \in Workers : worker[w].at = "handler" /\ worker[w].d = d})
     \cup ({"command"} \X Positions(commands, ofD))
     \cup ({"outbound"} \X Positions(outbound, ofD))

(* While the connection is good, every delivery the broker wants settled   *)
(* is in exactly one hand: a frame, the pool's queue, a running handler, a *)
(* completion command or its frame. In none, and the message would be stuck*)
(* and its place in the prefetch window lost; in two, and it would be      *)
(* settled twice, which closes the channel.                                *)
OneHolder ==
  link = "up" /\ ~pendingDisconnect /\ ~StopRequested
  => \A d \in outstanding : Cardinality(Holders(d)) = 1

InHand(c) ==
  {<<"task", i>> : i \in Positions(tasks, LAMBDA t : t.d.consumer = c
                                                  /\ t.d.epoch = epoch)}
  \cup {<<"worker", w>> : w \in {v \in Workers : worker[v] # Idle
                               /\ worker[v].d.consumer = c
                               /\ worker[v].d.epoch = epoch}}

(* Acknowledging after the handler is the back pressure: prefetch bounds   *)
(* what the pool has in hand of a consumer, queued or running, so its queue*)
(* needs no bound of its own.                                              *)
PrefetchBoundsPool ==
  \A c \in Consumers \ AutoAck :
    Prefetch = 0 \/ Cardinality(InHand(c)) <= Prefetch

(* Types.h:180 documents that what the handler returned decides how the    *)
(* message is settled: acknowledged or rejected by the broker only if a    *)
(* handler said so about this very message.                                *)
SettledAsSaid ==
  \A m \in Messages :
    settled[m] \in {"Ack", "Reject"} => <<m, settled[m]>> \in said

(* A waiting worker has its command queued, and nobody else waits: OnStop  *)
(* finds every worker idle, running a handler, or with a command that the  *)
(* driver thread can still answer or has left behind.                      *)
WaitersAreQueued ==
  /\ \A w \in Workers :
       worker[w].at = "waiting"
       <=> \E i \in DOMAIN commands : commands[i].by = w
  /\ \A i, j \in DOMAIN commands : commands[i].by = commands[j].by => i = j

-----------------------------------------------------------------------------
(* The messages as the application knows them: where each is, and what the *)
(* commands and frames under way say of the deliveries that are out.       *)
place ==
  [m \in Messages |-> CASE settled[m] # "no" -> settled[m]
                       [] settled[m] = "no" /\ m \in queued -> "ready"
                       [] OTHER -> "out"]
words ==
  [m \in Messages |->
     {x.action : x \in {y \in Range(commands) \cup Range(outbound) :
                         y.d \in outstanding /\ y.d.msg = m}}]
connected == link = "up"

Service == INSTANCE MessageService

(* On the first connection the delivery path implements MessageService: no *)
(* interleaving of broker, driver and workers settles or takes back a      *)
(* message other than by the one word said of this very delivery. A        *)
(* reconnect ends the promise, for tags are numbered anew.                 *)
FirstLinkService ==
  Service!Init /\ [][epoch' <= 1 => [Service!Next]_(Service!vars)]_vars

-----------------------------------------------------------------------------
(* Fairness: the threads run, handlers return, ThreadPool::Shutdown ends   *)
(* when it can; the broker processes what it is sent; a frame that arrived *)
(* is read and a reconnect succeeds in finitely many rounds of the loop.   *)
Fairness ==
  /\ WF_vars(DriverStep)
  /\ WF_vars(StopStep)
  /\ \A w \in Workers : WF_vars(WorkerStep(w))
  /\ WF_vars(Settle)
  /\ SF_vars(ReceiveMessage)
  /\ SF_vars(ReceiveError)
  /\ SF_vars(Connect)

FairSpec == Spec /\ Fairness

(* No delivery is kept for ever: it is settled or requeued, or OnStop was  *)
(* called.                                                                 *)
EveryDeliverySettles ==
  \A c \in Consumers, m \in Messages :
    (\E d \in Unsettled(c) : d.msg = m)
    ~> (StopRequested \/ ~\E d \in Unsettled(c) : d.msg = m)

(* OnStop returns unless a completion was queued after the last drain.     *)
StopHangsOnlyOnStranded ==
  StopRequested ~> (phase = "stopped" \/ (thread = "exited" /\ commands # <<>>))
=============================================================================

--------------------------- MODULE DeliveryProofs ---------------------------
(***************************************************************************)
(* Theorems about Delivery, for every set of messages, consumers and       *)
(* workers, every prefetch count and every bound.                          *)
(***************************************************************************)
EXTENDS Delivery, SequenceLemmas, FiniteSetTheorems, TLAPS

LEMMA StepCases ==
  ASSUME [Next]_vars
  PROVE  \/ \E c \in Consumers, m \in Messages : Deliver(c, m)
         \/ Settle \/ LinkBreaks
         \/ SwapCommands \/ ThreadExits \/ RunCommand \/ DrainDone
         \/ Connect \/ NoConnection
         \/ \E c \in Consumers : StartConsumer(c)
         \/ ReceiveMessage \/ ReceiveError \/ PumpDone \/ CheckDisconnect
         \/ \E w \in Workers : TakeTask(w)
         \/ \E w \in Workers, a \in Actions : HandlerReturns(w, a)
         \/ \E c \in Consumers :
              RegisterConsumerHandler(c) \/ UnregisterConsumerHandler(c)
         \/ RequestStop \/ JoinDriver \/ PoolDone
         \/ UNCHANGED vars
BY DEF Next, DriverStep, StopStep, WorkerStep

-----------------------------------------------------------------------------
(* Type correctness, and with it what ties the broker's side of a          *)
(* connection to the driver's.                                             *)

(* A connection that is up or broken has a number; only one that is up has *)
(* consumers and deliveries to settle, and these came on it, on channels   *)
(* still open, for consumers that acknowledge.                             *)
LinkInv ==
  /\ link # "down" => epoch \in 1 .. MaxLinks
  /\ link # "up" => outstanding = {} /\ serving = {}
  /\ thread = "connect" => link = "down"
  /\ \A d \in outstanding : /\ d.consumer \in serving \ AutoAck
                            /\ d.epoch = epoch

(* The broker closes a channel once: it stays closed to the driver until   *)
(* the connection is replaced.                                             *)
ClosedInv ==
  \A i \in DOMAIN inbound :
    inbound[i] \notin Delivery =>
      /\ inbound[i].closed \in Consumers \ serving
      /\ channel[inbound[i].closed] # "none"

LEMMA FrameCases ==
  /\ \A f \in Frame : f \notin Delivery =>
       f.closed \in Consumers /\ f = ChannelClosed(f.closed)
  /\ \A c \in Consumers : ChannelClosed(c) \in Frame \ Delivery
  /\ Delivery \subseteq Frame
<1>1. \A d \in Delivery : DOMAIN d = {"consumer", "tag", "msg", "epoch"}
  BY DEF Delivery
<1>2. \A c \in Consumers : DOMAIN ChannelClosed(c) = {"closed"}
  BY DEF ChannelClosed
<1>3. \A c \in Consumers : ChannelClosed(c) \notin Delivery
  <2> SUFFICES ASSUME NEW c \in Consumers, ChannelClosed(c) \in Delivery
               PROVE  FALSE
    OBVIOUS
  <2>1. "tag" \in DOMAIN ChannelClosed(c)
    BY <1>1
  <2> QED
    BY <1>2, <2>1
<1>4. \A c \in Consumers : ChannelClosed(c).closed = c
  BY DEF ChannelClosed
<1> QED
  BY <1>3, <1>4 DEF Frame

LEMMA WorkerCases ==
  ASSUME NEW s \in WorkerState
  PROVE  /\ s.at \in {"idle", "handler", "waiting"}
         /\ s # Idle => s.d \in Delivery
         /\ s.at = "idle" <=> s = Idle
         /\ s.at = "handler" => s.handler \in BOOLEAN
BY DEF WorkerState, Idle

LEMMA InitTypeOK == Init => TypeOK /\ LinkInv /\ ClosedInv
<1> SUFFICES ASSUME Init PROVE TypeOK /\ LinkInv /\ ClosedInv
  OBVIOUS
<1>1. Idle \in WorkerState
  BY DEF WorkerState
<1>2. /\ <<>> \in Seq(Frame) /\ <<>> \in Seq(Settlement)
      /\ <<>> \in Seq(Command) /\ <<>> \in Seq(Task)
      /\ Len(<<>>) = 0
  BY EmptySeq
<1>3. TypeOK
  <2>1. /\ inbound \in Seq(Frame) /\ outbound \in Seq(Settlement)
        /\ commands \in Seq(Command) /\ tasks \in Seq(Task)
        /\ batch \in 0 .. Len(commands)
    BY <1>2 DEF Init
  <2>2. /\ settled \in [Messages -> {"no", "auto", "Ack", "Reject"}]
        /\ epoch \in 0 .. MaxLinks
        /\ lastTag \in [Consumers -> 0 .. MaxTag]
        /\ channel \in [Consumers -> {"none", "open", "closed"}]
        /\ worker \in [Workers -> WorkerState]
    BY <1>1, DeliveryAssumption DEF Init
  <2> QED
    BY <2>1, <2>2 DEF Init, TypeOK
<1>4. LinkInv /\ ClosedInv
  BY DEF Init, LinkInv, ClosedInv
<1> QED
  BY <1>3, <1>4

(* What becomes of the link variables when a connection is dropped.        *)
LEMMA DropTypes ==
  ASSUME TypeOK, DropConnection
  PROVE  /\ queued' \subseteq Messages /\ outstanding' = {} /\ serving' = {}
         /\ link' = "down" /\ pendingDisconnect' = FALSE
         /\ channel' \in [Consumers -> {"none", "open", "closed"}]
         /\ inbound' = <<>> /\ inbound' \in Seq(Frame)
         /\ outbound' = <<>> /\ outbound' \in Seq(Settlement)
         /\ UNCHANGED <<settled, lastTag, epoch>>
<1>1. \A d \in outstanding : d.msg \in Messages
  BY DEF TypeOK, Delivery
<1>2. inbound' \in Seq(Frame) /\ outbound' \in Seq(Settlement)
  BY EmptySeq DEF DropConnection
<1> QED
  BY <1>1, <1>2 DEF TypeOK, DropConnection, RequeueAll, MessagesOf

(* What the broker sends with Deliver.                                     *)
Sent(c, m) ==
  [consumer |-> c, tag |-> lastTag[c] + 1, msg |-> m, epoch |-> epoch]

LEMMA SentType ==
  ASSUME TypeOK, LinkInv, NEW c \in Consumers, NEW m \in Messages, Deliver(c, m)
  PROVE  /\ Sent(c, m) \in Delivery
         /\ inbound' = Append(inbound, Sent(c, m))
         /\ lastTag[c] + 1 \in 1 .. MaxTag
<1>1. lastTag[c] + 1 \in 1 .. MaxTag /\ epoch \in 1 .. MaxLinks
  BY DeliveryAssumption DEF Deliver, TypeOK, LinkInv
<1> QED
  BY <1>1 DEF Deliver, Sent, Delivery

(* The fields a step leaves alone keep their types by being unchanged, so  *)
(* each step names only those that it changes.                             *)
LEMMA NextTypeOK ==
  ASSUME TypeOK, LinkInv, ClosedInv, [Next]_vars
  PROVE  TypeOK'
<1> USE DEF brokerVars, linkVars, threadVars, poolVars
<1>1. ASSUME NEW c \in Consumers, NEW m \in Messages, Deliver(c, m)
      PROVE  TypeOK'
  <2>1. /\ Sent(c, m) \in Delivery
        /\ lastTag[c] + 1 \in 0 .. MaxTag
    BY <1>1, SentType
  <2>2. inbound' \in Seq(Frame)
    <3>1. Sent(c, m) \in Frame /\ inbound' = Append(inbound, Sent(c, m))
      BY <1>1, <2>1, SentType, FrameCases
    <3> QED
      BY <3>1, AppendProperties DEF TypeOK
  <2>3. /\ settled' \in [Messages -> {"no", "auto", "Ack", "Reject"}]
        /\ outstanding' \subseteq Delivery
    BY <1>1, <2>1 DEF Deliver, TypeOK, Sent
  <2>4. lastTag' \in [Consumers -> 0 .. MaxTag] /\ queued' \subseteq Messages
    BY <1>1, <2>1 DEF Deliver, TypeOK
  <2> QED
    BY <1>1, <2>2, <2>3, <2>4 DEF Deliver, TypeOK
<1>2. CASE Settle
  <2> DEFINE frame == Head(outbound)
             c == frame.d.consumer
             known == {d \in Unsettled(c) : d.tag = frame.d.tag}
  <2>1. /\ frame \in Settlement
        /\ outbound' \in Seq(Settlement)
    BY <1>2, HeadTailProperties DEF Settle, TypeOK
  <2>2. frame.d \in Delivery /\ c \in Consumers /\ frame.action \in Actions
    BY <2>1 DEF Settlement, Delivery
  <2>3. \A D \in SUBSET outstanding : MessagesOf(D) \subseteq Messages
    BY DEF MessagesOf, TypeOK, Delivery
  <2>4. known \subseteq outstanding /\ Unsettled(c) \subseteq outstanding
    BY DEF Unsettled
  <2>5. CASE c \in serving /\ known # {}
    <3>1. /\ queued' \subseteq Messages
          /\ settled' \in [Messages -> {"no", "auto", "Ack", "Reject"}]
      BY <1>2, <2>2, <2>3, <2>4, <2>5 DEF Settle, TypeOK, Actions
    <3>2. outstanding' \subseteq Delivery
      BY <1>2, <2>5 DEF Settle, TypeOK
    <3>3. UNCHANGED <<serving, inbound>>
      BY <1>2, <2>5 DEF Settle
    <3> QED
      BY <1>2, <2>1, <3>1, <3>2, <3>3 DEF Settle, TypeOK
  <2>6. CASE c \in serving /\ known = {}
    <3>1. /\ queued' \subseteq Messages
          /\ outstanding' \subseteq Delivery
          /\ serving' \subseteq serving
          /\ settled' = settled
      BY <1>2, <2>3, <2>4, <2>6 DEF Settle, TypeOK
    <3>2. inbound' \in Seq(Frame)
      <4>1. inbound' = Append(inbound, ChannelClosed(c))
        BY <1>2, <2>6 DEF Settle
      <4>2. ChannelClosed(c) \in Frame
        BY <2>2, FrameCases
      <4> QED
        BY <4>1, <4>2, AppendProperties DEF TypeOK
    <3> QED
      BY <1>2, <2>1, <3>1, <3>2 DEF Settle, TypeOK
  <2>7. CASE c \notin serving
    BY <1>2, <2>1, <2>7 DEF Settle, TypeOK
  <2> QED
    BY <2>5, <2>6, <2>7
<1>3. CASE LinkBreaks
  <2>1. \A d \in outstanding : d.msg \in Messages
    BY DEF TypeOK, Delivery
  <2> QED
    BY <1>3, <2>1 DEF LinkBreaks, RequeueAll, MessagesOf, TypeOK
<1>4. CASE SwapCommands
  <2>1. batch' \in 0 .. Len(commands')
    BY <1>4, LenProperties DEF SwapCommands, TypeOK
  <2> QED
    BY <1>4, <2>1 DEF SwapCommands, TypeOK
<1>5. CASE ThreadExits
  <2>1. DropConnection
    BY <1>5 DEF ThreadExits
  <2> QED
    BY <1>5, <2>1, DropTypes DEF ThreadExits, TypeOK
<1>6. CASE RunCommand
  <2>1. commands # <<>> /\ Len(commands) \in Nat
    BY <1>6, EmptySeq, LenProperties DEF RunCommand, TypeOK
  <2>2. /\ Head(commands) \in Command
        /\ commands' \in Seq(Command)
        /\ Len(commands') = Len(commands) - 1
    BY <1>6, <2>1, HeadTailProperties DEF RunCommand, TypeOK
  <2>3. batch' \in 0 .. Len(commands')
    BY <1>6, <2>1, <2>2 DEF RunCommand, TypeOK
  <2>4. worker' \in [Workers -> WorkerState]
    BY <1>6 DEF RunCommand, TypeOK, WorkerState
  <2>5. outbound' \in Seq(Settlement)
    <3>1. [d |-> Head(commands).d, action |-> Head(commands).action] \in Settlement
      BY <2>2 DEF Command, Settlement
    <3> QED
      BY <1>6, <3>1, AppendProperties DEF RunCommand, CompleteBody, TypeOK
  <2> QED
    BY <1>6, <2>2, <2>3, <2>4, <2>5 DEF RunCommand, TypeOK
<1>7. CASE DrainDone BY <1>7 DEF DrainDone, TypeOK
<1>8. CASE Connect
  <2>1. epoch' \in 0 .. MaxLinks /\ lastTag' \in [Consumers -> 0 .. MaxTag]
    BY <1>8, DeliveryAssumption DEF Connect, TypeOK
  <2> QED
    BY <1>8, <2>1 DEF Connect, TypeOK
<1>9. CASE NoConnection BY <1>9 DEF NoConnection, TypeOK
<1>10. ASSUME NEW c \in Consumers, StartConsumer(c) PROVE TypeOK'
  BY <1>10 DEF StartConsumer, TypeOK
<1>11. CASE ReceiveMessage
  <2> DEFINE d == Head(inbound)
  <2>1. /\ d \in Delivery
        /\ inbound' \in Seq(Frame)
    BY <1>11, HeadTailProperties DEF ReceiveMessage, TypeOK
  <2>2. CASE /\ tasks' = Append(tasks, [d |-> d, handler |-> d.consumer \in handlers])
             /\ UNCHANGED threadVars
    <3>1. [d |-> d, handler |-> d.consumer \in handlers] \in Task
      BY <2>1 DEF Task
    <3>2. tasks' \in Seq(Task)
      BY <2>2, <3>1, AppendProperties DEF TypeOK
    <3> QED
      BY <1>11, <2>1, <2>2, <3>2 DEF ReceiveMessage, TypeOK
  <2>3. CASE UNCHANGED <<tasks, threadVars>>
    BY <1>11, <2>1, <2>3 DEF ReceiveMessage, TypeOK
  <2>4. CASE /\ commands' = Append(commands, [d |-> d, action |-> "Requeue",
                                              by |-> Driver])
             /\ thread' = "selfWait"
             /\ UNCHANGED <<tasks, batch>>
    <3>1. [d |-> d, action |-> "Requeue", by |-> Driver] \in Command
      BY <2>1 DEF Command, Actions
    <3>2. /\ commands' \in Seq(Command)
          /\ Len(commands') = Len(commands) + 1
          /\ Len(commands) \in Nat
      BY <2>4, <3>1, AppendProperties, LenProperties DEF TypeOK
    <3>3. batch' \in 0 .. Len(commands')
      BY <2>4, <3>2 DEF TypeOK
    <3> QED
      BY <1>11, <2>1, <2>4, <3>2, <3>3 DEF ReceiveMessage, TypeOK
  <2> QED
    BY <1>11, <2>2, <2>3, <2>4 DEF ReceiveMessage, Submit
<1>12. CASE ReceiveError
  <2>1. CASE link = "broken" /\ UNCHANGED <<inbound, channel>> /\ thread' = "check"
    BY <1>12, <2>1 DEF ReceiveError, TypeOK
  <2>2. CASE /\ inbound # <<>> /\ Head(inbound) \notin Delivery
             /\ inbound' = Tail(inbound)
             /\ channel' = [channel EXCEPT ![Head(inbound).closed] = "closed"]
             /\ UNCHANGED thread
    <3>1. inbound' \in Seq(Frame) /\ Head(inbound) = inbound[1] /\ 1 \in DOMAIN inbound
      BY <2>2, HeadTailProperties, LenProperties, EmptySeq DEF TypeOK
    <3>2. Head(inbound).closed \notin serving
      BY <2>2, <3>1 DEF ClosedInv
    <3>3. /\ channel' \in [Consumers -> {"none", "open", "closed"}]
          /\ serving' \subseteq {c \in Consumers : channel'[c] = "open"}
      BY <1>12, <2>2, <3>2 DEF ReceiveError, TypeOK
    <3> QED
      BY <1>12, <2>2, <3>1, <3>3 DEF ReceiveError, TypeOK
  <2> QED
    BY <1>12, <2>1, <2>2 DEF ReceiveError
<1>13. CASE PumpDone BY <1>13 DEF PumpDone, TypeOK
<1>14. CASE CheckDisconnect
  <2>1. CASE DropConnection
    BY <1>14, <2>1, DropTypes DEF CheckDisconnect, TypeOK
  <2>2. CASE UNCHANGED <<brokerVars, linkVars>>
    BY <1>14, <2>2 DEF CheckDisconnect, TypeOK
  <2> QED
    BY <1>14, <2>1, <2>2 DEF CheckDisconnect
<1>15. ASSUME NEW w \in Workers, TakeTask(w) PROVE TypeOK'
  <2>1. /\ Head(tasks) \in Task
        /\ tasks' \in Seq(Task)
    BY <1>15, HeadTailProperties DEF TakeTask, TypeOK
  <2>2. [at |-> "handler", d |-> Head(tasks).d, handler |-> Head(tasks).handler]
          \in WorkerState
    BY <2>1 DEF Task, WorkerState
  <2>3. worker' \in [Workers -> WorkerState]
    BY <1>15, <2>2 DEF TakeTask, TypeOK
  <2> QED
    BY <1>15, <2>1, <2>3 DEF TakeTask, TypeOK
<1>16. ASSUME NEW w \in Workers, NEW a \in Actions, HandlerReturns(w, a)
       PROVE  TypeOK'
  <2> DEFINE d == worker[w].d
  <2>1. d \in Delivery /\ d.msg \in Messages
    <3>1. d \in Delivery
      BY <1>16, WorkerCases DEF HandlerReturns, TypeOK
    <3> QED
      BY <3>1 DEF Delivery
  <2>2. said' \subseteq Messages \X Actions
    BY <1>16, <2>1 DEF HandlerReturns, TypeOK
  <2>3. /\ Idle \in WorkerState
        /\ [at |-> "waiting", d |-> d] \in WorkerState
    BY <2>1 DEF WorkerState
  <2>4. worker' \in [Workers -> WorkerState]
    BY <1>16, <2>3 DEF HandlerReturns, TypeOK
  <2>5. [d |-> d, action |-> a, by |-> w] \in Command
    BY <2>1 DEF Command
  <2>6. /\ Append(commands, [d |-> d, action |-> a, by |-> w]) \in Seq(Command)
        /\ Len(Append(commands, [d |-> d, action |-> a, by |-> w])) = Len(commands) + 1
        /\ Len(commands) \in Nat
    BY <2>5, AppendProperties, LenProperties DEF TypeOK
  <2>7. commands' \in Seq(Command) /\ batch' \in 0 .. Len(commands')
    <3>1. \/ commands' = commands
          \/ commands' = Append(commands, [d |-> d, action |-> a, by |-> w])
      BY <1>16 DEF HandlerReturns
    <3>2. batch' = batch
      BY <1>16 DEF HandlerReturns
    <3>3. batch \in 0 .. Len(commands) /\ batch \in 0 .. Len(commands) + 1
      BY <2>6 DEF TypeOK
    <3>4. CASE commands' = commands
      BY <3>2, <3>3, <3>4 DEF TypeOK
    <3>5. CASE commands' = Append(commands, [d |-> d, action |-> a, by |-> w])
      BY <2>6, <3>2, <3>3, <3>5
    <3> QED
      BY <3>1, <3>4, <3>5
  <2> QED
    BY <1>16, <2>2, <2>4, <2>7 DEF HandlerReturns, TypeOK
<1>17. ASSUME NEW c \in Consumers,
              RegisterConsumerHandler(c) \/ UnregisterConsumerHandler(c)
       PROVE  TypeOK'
  BY <1>17 DEF RegisterConsumerHandler, UnregisterConsumerHandler, TypeOK
<1>18. CASE RequestStop BY <1>18 DEF RequestStop, TypeOK
<1>19. CASE JoinDriver BY <1>19 DEF JoinDriver, TypeOK
<1>20. CASE PoolDone BY <1>20 DEF PoolDone, TypeOK
<1>21. CASE UNCHANGED vars BY <1>21 DEF vars, TypeOK
<1> QED
  BY <1>1, <1>2, <1>3, <1>4, <1>5, <1>6, <1>7, <1>8, <1>9, <1>10, <1>11,
     <1>12, <1>13, <1>14, <1>15, <1>16, <1>17, <1>18, <1>19, <1>20, <1>21,
     StepCases

LEMMA NextLinkInv ==
  ASSUME TypeOK, LinkInv, [Next]_vars
  PROVE  LinkInv'
<1> USE DEF brokerVars, linkVars, threadVars, poolVars, LinkInv
<1>1. ASSUME NEW c \in Consumers, NEW m \in Messages, Deliver(c, m)
      PROVE  LinkInv'
  BY <1>1 DEF Deliver
<1>2. CASE Settle
  <2>1. \A c : Unsettled(c) = {d \in outstanding : d.consumer = c}
    BY DEF Unsettled
  <2> QED
    BY <1>2, <2>1 DEF Settle
<1>3. CASE LinkBreaks BY <1>3 DEF LinkBreaks, RequeueAll
<1>4. CASE SwapCommands BY <1>4 DEF SwapCommands
<1>5. CASE ThreadExits BY <1>5 DEF ThreadExits, DropConnection, RequeueAll
<1>6. CASE RunCommand BY <1>6 DEF RunCommand
<1>7. CASE DrainDone BY <1>7 DEF DrainDone
<1>8. CASE Connect BY <1>8, DeliveryAssumption DEF Connect, TypeOK
<1>9. CASE NoConnection BY <1>9 DEF NoConnection
<1>10. ASSUME NEW c \in Consumers, StartConsumer(c) PROVE LinkInv'
  BY <1>10 DEF StartConsumer
<1>11. CASE ReceiveMessage BY <1>11 DEF ReceiveMessage, Submit
<1>12. CASE ReceiveError BY <1>12 DEF ReceiveError
<1>13. CASE PumpDone BY <1>13 DEF PumpDone
<1>14. CASE CheckDisconnect
  BY <1>14 DEF CheckDisconnect, DropConnection, RequeueAll
<1>15. ASSUME NEW w \in Workers, TakeTask(w) PROVE LinkInv'
  BY <1>15 DEF TakeTask
<1>16. ASSUME NEW w \in Workers, NEW a \in Actions, HandlerReturns(w, a)
       PROVE  LinkInv'
  BY <1>16 DEF HandlerReturns
<1>17. ASSUME NEW c \in Consumers,
              RegisterConsumerHandler(c) \/ UnregisterConsumerHandler(c)
       PROVE  LinkInv'
  BY <1>17 DEF RegisterConsumerHandler, UnregisterConsumerHandler
<1>18. CASE RequestStop BY <1>18 DEF RequestStop
<1>19. CASE JoinDriver BY <1>19 DEF JoinDriver
<1>20. CASE PoolDone BY <1>20 DEF PoolDone
<1>21. CASE UNCHANGED vars BY <1>21 DEF vars
<1> QED
  BY <1>1, <1>2, <1>3, <1>4, <1>5, <1>6, <1>7, <1>8, <1>9, <1>10, <1>11,
     <1>12, <1>13, <1>14, <1>15, <1>16, <1>17, <1>18, <1>19, <1>20, <1>21,
     StepCases

LEMMA NextClosedInv ==
  ASSUME TypeOK, LinkInv, ClosedInv, [Next]_vars
  PROVE  ClosedInv'
<1> USE DEF brokerVars, linkVars, threadVars, poolVars
<1>1. ASSUME NEW e \in Frame, inbound' = Append(inbound, e),
             serving' \subseteq serving, channel' = channel,
             e \notin Delivery =>
               e.closed \in Consumers \ serving' /\ channel[e.closed] # "none"
      PROVE  ClosedInv'
  <2>1. /\ Len(inbound) \in Nat
        /\ DOMAIN inbound = 1 .. Len(inbound)
        /\ DOMAIN inbound' = 1 .. Len(inbound) + 1
        /\ \A i \in 1 .. Len(inbound) : inbound'[i] = inbound[i]
        /\ inbound'[Len(inbound) + 1] = e
    BY <1>1, AppendProperties, LenProperties DEF TypeOK
  <2>2. \A i \in DOMAIN inbound' : i \in DOMAIN inbound \/ inbound'[i] = e
    BY <2>1
  <2> QED
    BY <1>1, <2>1, <2>2 DEF ClosedInv
<1>2. ASSUME inbound # <<>>, inbound' = Tail(inbound), serving' = serving,
             \A c \in Consumers : channel[c] # "none" => channel'[c] # "none"
      PROVE  ClosedInv'
  <2>1. /\ Len(inbound) \in Nat
        /\ DOMAIN inbound = 1 .. Len(inbound)
        /\ DOMAIN inbound' = 1 .. Len(inbound) - 1
        /\ \A i \in 1 .. Len(inbound) - 1 : inbound'[i] = inbound[i + 1]
    BY <1>2, HeadTailProperties, LenProperties, EmptySeq DEF TypeOK
  <2>2. \A i \in DOMAIN inbound' : i + 1 \in DOMAIN inbound /\ inbound'[i] = inbound[i + 1]
    BY <2>1
  <2> QED
    BY <1>2, <2>2 DEF ClosedInv
<1>3. ASSUME UNCHANGED inbound, serving' \subseteq serving,
             \A c \in Consumers : channel[c] # "none" => channel'[c] # "none"
      PROVE  ClosedInv'
  BY <1>3 DEF ClosedInv
<1>4. ASSUME inbound' = <<>> PROVE ClosedInv'
  BY <1>4 DEF ClosedInv
<1>5. ASSUME NEW c \in Consumers, NEW m \in Messages, Deliver(c, m)
      PROVE  ClosedInv'
  <2>1. /\ Sent(c, m) \in Delivery \cap Frame
        /\ inbound' = Append(inbound, Sent(c, m))
    BY <1>5, SentType, FrameCases
  <2>2. serving' \subseteq serving /\ channel' = channel
    BY <1>5 DEF Deliver
  <2> QED
    BY <1>1, <2>1, <2>2
<1>6. CASE Settle
  <2> DEFINE frame == Head(outbound)
             c == frame.d.consumer
             known == {d \in Unsettled(c) : d.tag = frame.d.tag}
  <2>1. CASE inbound' = inbound /\ serving' = serving
    BY <1>3, <1>6, <2>1 DEF Settle
  <2>2. CASE c \in serving /\ known = {}
    <3>1. /\ c \in Consumers /\ channel[c] = "open"
          /\ serving' = serving \ {c} /\ channel' = channel
          /\ inbound' = Append(inbound, ChannelClosed(c))
      BY <1>6, <2>2 DEF Settle, TypeOK
    <3>2. ChannelClosed(c) \in Frame /\ ChannelClosed(c).closed = c
      BY <3>1, FrameCases DEF ChannelClosed
    <3> QED
      BY <1>1, <3>1, <3>2
  <2> QED
    BY <1>6, <2>1, <2>2 DEF Settle
<1>7. CASE LinkBreaks BY <1>3, <1>7 DEF LinkBreaks, RequeueAll
<1>8. CASE DropConnection BY <1>4, <1>8 DEF DropConnection
<1>9. ASSUME NEW c \in Consumers, StartConsumer(c) PROVE ClosedInv'
  <2>1. /\ channel[c] = "none" /\ serving' = serving \cup {c}
        /\ inbound' = inbound /\ channel' = [channel EXCEPT ![c] = "open"]
    BY <1>9 DEF StartConsumer
  <2> QED
    BY <2>1 DEF ClosedInv, TypeOK
<1>10. CASE ReceiveMessage BY <1>2, <1>10 DEF ReceiveMessage
<1>11. CASE ReceiveError
  <2>1. CASE inbound' = inbound /\ channel' = channel
    BY <1>3, <1>11, <2>1 DEF ReceiveError
  <2>2. CASE /\ inbound # <<>> /\ inbound' = Tail(inbound)
             /\ channel' = [channel EXCEPT ![Head(inbound).closed] = "closed"]
    <3>1. \A c \in Consumers : channel[c] # "none" => channel'[c] # "none"
      BY <2>2 DEF TypeOK
    <3> QED
      BY <1>2, <1>11, <2>2, <3>1 DEF ReceiveError
  <2> QED
    BY <1>11, <2>1, <2>2 DEF ReceiveError
<1>12. CASE UNCHANGED <<inbound, serving, channel>>
  BY <1>3, <1>12
<1>13. \/ \E c \in Consumers, m \in Messages : Deliver(c, m)
       \/ Settle \/ LinkBreaks \/ DropConnection
       \/ \E c \in Consumers : StartConsumer(c)
       \/ ReceiveMessage \/ ReceiveError
       \/ UNCHANGED <<inbound, serving, channel>>
  BY StepCases
     DEF SwapCommands, ThreadExits, RunCommand, DrainDone, Connect, NoConnection,
         PumpDone, CheckDisconnect, TakeTask, HandlerReturns,
         RegisterConsumerHandler, UnregisterConsumerHandler, RequestStop,
         JoinDriver, PoolDone, vars
<1> QED
  BY <1>5, <1>6, <1>7, <1>8, <1>9, <1>10, <1>11, <1>12, <1>13

(* Every variable of the delivery path keeps its type in every behaviour.  *)
THEOREM DeliveryTypeCorrect == Spec => []TypeOK
<1>1. TypeOK /\ LinkInv /\ ClosedInv /\ [Next]_vars
        => (TypeOK /\ LinkInv /\ ClosedInv)'
  BY NextTypeOK, NextLinkInv, NextClosedInv
<1> QED
  BY <1>1, InitTypeOK, PTL DEF Spec

-----------------------------------------------------------------------------
(* Who waits for which command.                                            *)

CommandBy(x) == {k \in Command : k.by = x}

(* Each worker that waits has one command queued, about its own delivery;  *)
(* the driver thread's own command is one it waits for for ever.           *)
CallerInv ==
  /\ \A w \in Workers :
       worker[w].at = "waiting" <=> Occurs(commands, CommandBy(w))
  /\ \A x \in Workers \cup {Driver} : AtMostOnce(commands, CommandBy(x))
  /\ Occurs(commands, CommandBy(Driver)) => thread = "selfWait"
  /\ \A k \in Command :
       Occurs(commands, {k}) /\ k.by # Driver => worker[k.by].d = k.d

LEMMA CommandQueue ==
  ASSUME TypeOK, NEW k \in Command
  PROVE  /\ commands' = Append(commands, k) =>
              \A X : /\ Occurs(commands, X)' <=> Occurs(commands, X) \/ k \in X
                     /\ AtMostOnce(commands, X)'
                          <=> AtMostOnce(commands, X) /\ ~(Occurs(commands, X) /\ k \in X)
         /\ commands # <<>> /\ commands' = Tail(commands) /\ k = Head(commands) =>
              \A X : /\ Occurs(commands, X) <=> Occurs(commands, X)' \/ k \in X
                     /\ AtMostOnce(commands, X)
                          <=> AtMostOnce(commands, X)' /\ ~(Occurs(commands, X)' /\ k \in X)
<1>1. commands \in Seq(Command)
  BY DEF TypeOK
<1>2. ASSUME commands' = Append(commands, k), NEW X
      PROVE  /\ Occurs(commands', X) <=> Occurs(commands, X) \/ k \in X
             /\ AtMostOnce(commands', X)
                  <=> AtMostOnce(commands, X) /\ ~(Occurs(commands, X) /\ k \in X)
  BY <1>1, <1>2, AppendOccurs
<1>3. ASSUME commands # <<>>, commands' = Tail(commands), k = Head(commands), NEW X
      PROVE  /\ Occurs(commands, X) <=> Occurs(commands', X) \/ k \in X
             /\ AtMostOnce(commands, X)
                  <=> AtMostOnce(commands', X) /\ ~(Occurs(commands', X) /\ k \in X)
  BY <1>1, <1>3, TailOccurs
<1> QED
  BY <1>2, <1>3

LEMMA InitCallerInv == Init => CallerInv
<1> SUFFICES ASSUME Init PROVE CallerInv
  OBVIOUS
<1>1. \A X : ~Occurs(commands, X) /\ AtMostOnce(commands, X)
  BY EmptyOccurs DEF Init
<1>2. \A w \in Workers : worker[w].at # "waiting"
  BY DEF Init, Idle
<1> QED
  BY <1>1, <1>2 DEF CallerInv

LEMMA FirstCommand ==
  ASSUME TypeOK, RunCommand
  PROVE  /\ commands # <<>> /\ commands' = Tail(commands)
         /\ Head(commands) \in Command
         /\ Head(commands).d \in Delivery
<1>1. commands # <<>>
  BY EmptySeq, LenProperties DEF RunCommand, TypeOK
<1>2. Head(commands) \in Command
  BY <1>1, HeadTailProperties DEF TypeOK
<1> QED
  BY <1>1, <1>2 DEF RunCommand, Command

LEMMA NextCallerInv ==
  ASSUME TypeOK, CallerInv, [Next]_vars
  PROVE  CallerInv'
<1> USE DeliveryAssumption DEF brokerVars, linkVars, threadVars, poolVars
<1>1. ASSUME UNCHANGED <<commands, worker>>,
             thread = "selfWait" => thread' = "selfWait"
      PROVE  CallerInv'
  BY <1>1 DEF CallerInv
<1>2. CASE RunCommand
  <2> DEFINE k == Head(commands)
  <2>1. /\ k \in Command
        /\ \A X : /\ Occurs(commands, X) <=> Occurs(commands, X)' \/ k \in X
                  /\ AtMostOnce(commands, X)
                       <=> AtMostOnce(commands, X)' /\ ~(Occurs(commands, X)' /\ k \in X)
    BY <1>2, FirstCommand, CommandQueue
  <2>2. k.by \in Workers
    <3>1. k \in CommandBy(k.by) /\ k.by \in Workers \cup {Driver}
      BY <2>1 DEF CommandBy, Command
    <3>2. Occurs(commands, CommandBy(k.by)) /\ thread # "selfWait"
      BY <1>2, <2>1, <3>1 DEF RunCommand
    <3> QED
      BY <3>1, <3>2 DEF CallerInv
  <2>3. worker' = [worker EXCEPT ![k.by] = Idle] /\ thread' = thread
    BY <1>2 DEF RunCommand
  <2>4. \A x \in Workers \cup {Driver} :
          /\ AtMostOnce(commands, CommandBy(x))'
          /\ Occurs(commands, CommandBy(x))'
               <=> Occurs(commands, CommandBy(x)) /\ x # k.by
    <3> SUFFICES ASSUME NEW x \in Workers \cup {Driver}
                 PROVE  /\ AtMostOnce(commands, CommandBy(x))'
                        /\ Occurs(commands, CommandBy(x))'
                             <=> Occurs(commands, CommandBy(x)) /\ x # k.by
      OBVIOUS
    <3>1. AtMostOnce(commands, CommandBy(x)) /\ CommandBy(x)' = CommandBy(x)
      BY DEF CallerInv, CommandBy
    <3>2. k \in CommandBy(x) <=> x = k.by
      BY <2>1 DEF CommandBy
    <3> QED
      BY <2>1, <3>1, <3>2
  <2>5. \A w \in Workers : worker'[w].at = "waiting"
                            <=> worker[w].at = "waiting" /\ w # k.by
    BY <2>3, WorkerCases DEF TypeOK, Idle
  <2>6. ASSUME NEW j \in Command, Occurs(commands, {j})', j.by # Driver
        PROVE  worker'[j.by].d = j.d
    <3>1. Occurs(commands, {j}) /\ j.by \in Workers
      BY <2>1, <2>6 DEF Command
    <3>2. j.by # k.by
      <4>1. Occurs(commands, CommandBy(j.by))'
        BY <2>6 DEF Occurs, CommandBy
      <4> QED
        BY <2>4, <3>1, <4>1
    <3> QED
      BY <2>3, <2>6, <3>1, <3>2 DEF CallerInv, TypeOK
  <2> QED
    BY <2>2, <2>3, <2>4, <2>5, <2>6 DEF CallerInv
<1>3. ASSUME NEW k \in Command, commands' = Append(commands, k),
             ~Occurs(commands, CommandBy(k.by)),
             k.by = Driver => thread' = "selfWait" /\ worker' = worker,
             k.by # Driver =>
               /\ thread' = thread
               /\ worker' = [worker EXCEPT ![k.by] = [at |-> "waiting", d |-> k.d]]
      PROVE  CallerInv'
  <2>1. \A X : /\ Occurs(commands, X)' <=> Occurs(commands, X) \/ k \in X
               /\ AtMostOnce(commands, X)'
                    <=> AtMostOnce(commands, X) /\ ~(Occurs(commands, X) /\ k \in X)
    BY <1>3, CommandQueue
  <2>2. k.by \in Workers \cup {Driver}
    BY DEF Command
  <2>3. \A x \in Workers \cup {Driver} :
          /\ AtMostOnce(commands, CommandBy(x))'
          /\ Occurs(commands, CommandBy(x))'
               <=> Occurs(commands, CommandBy(x)) \/ x = k.by
    <3> SUFFICES ASSUME NEW x \in Workers \cup {Driver}
                 PROVE  /\ AtMostOnce(commands, CommandBy(x))'
                        /\ Occurs(commands, CommandBy(x))'
                             <=> Occurs(commands, CommandBy(x)) \/ x = k.by
      OBVIOUS
    <3>1. AtMostOnce(commands, CommandBy(x)) /\ CommandBy(x)' = CommandBy(x)
      BY DEF CallerInv, CommandBy
    <3>2. k \in CommandBy(x) <=> x = k.by
      BY DEF CommandBy
    <3> QED
      BY <1>3, <2>1, <3>1, <3>2
  <2>4. \A w \in Workers : worker'[w].at = "waiting"
                            <=> worker[w].at = "waiting" \/ w = k.by
    BY <1>3, <2>2 DEF TypeOK
  <2>5. ASSUME NEW j \in Command, Occurs(commands, {j})', j.by # Driver
        PROVE  worker'[j.by].d = j.d
    <3>1. j = k \/ Occurs(commands, {j})
      BY <2>1, <2>5
    <3>2. j.by \in Workers
      BY <2>5 DEF Command
    <3>3. CASE j = k
      BY <1>3, <2>5, <3>2, <3>3 DEF TypeOK
    <3>4. CASE j # k
      <4>1. j.by # k.by
        BY <1>3, <3>1, <3>4 DEF Occurs, CommandBy
      <4>2. worker[j.by].d = j.d
        BY <2>5, <3>1, <3>4 DEF CallerInv
      <4> QED
        BY <1>3, <2>2, <3>2, <4>1, <4>2 DEF TypeOK
    <3> QED
      BY <3>3, <3>4
  <2>6. Occurs(commands, CommandBy(Driver))' => thread' = "selfWait"
    BY <1>3, <2>3 DEF CallerInv
  <2> QED
    BY <2>2, <2>3, <2>4, <2>5, <2>6 DEF CallerInv
<1>4. CASE ReceiveMessage
  <2> DEFINE x == Head(inbound)
             k == [d |-> x, action |-> "Requeue", by |-> Driver]
  <2>1. CASE UNCHANGED threadVars
    BY <1>1, <1>4, <2>1 DEF ReceiveMessage
  <2>2. CASE commands' = Append(commands, k) /\ thread' = "selfWait"
    <3>1. k \in Command /\ k.by = Driver
      BY <1>4 DEF ReceiveMessage, Command, Actions
    <3>2. worker' = worker /\ thread = "pump"
      BY <1>4 DEF ReceiveMessage
    <3>3. ~Occurs(commands, CommandBy(Driver))
      BY <3>2 DEF CallerInv
    <3> QED
      BY <1>3, <2>2, <3>1, <3>2, <3>3
  <2> QED
    BY <1>4, <2>1, <2>2 DEF ReceiveMessage, Submit
<1>5. ASSUME NEW w \in Workers, UNCHANGED <<commands, thread>>,
             worker[w].at # "waiting", NEW s \in WorkerState, s.at # "waiting",
             worker' = [worker EXCEPT ![w] = s]
      PROVE  CallerInv'
  <2>1. \A v \in Workers : worker'[v].at = "waiting" <=> worker[v].at = "waiting"
    BY <1>5 DEF TypeOK
  <2>2. ASSUME NEW j \in Command, Occurs(commands, {j}), j.by # Driver
        PROVE  worker'[j.by].d = j.d
    <3>1. j.by \in Workers /\ Occurs(commands, CommandBy(j.by))
      BY <2>2 DEF Command, Occurs, CommandBy
    <3>2. j.by # w
      BY <1>5, <3>1 DEF CallerInv
    <3> QED
      BY <1>5, <2>2, <3>1, <3>2 DEF CallerInv, TypeOK
  <2> QED
    BY <1>5, <2>1, <2>2 DEF CallerInv, CommandBy
<1>6. ASSUME NEW w \in Workers, TakeTask(w) PROVE CallerInv'
  <2> DEFINE s == [at |-> "handler", d |-> Head(tasks).d, handler |-> Head(tasks).handler]
  <2>1. Head(tasks) \in Task
    BY <1>6, HeadTailProperties DEF TakeTask, TypeOK
  <2>2. s \in WorkerState /\ s.at # "waiting"
    BY <2>1 DEF Task, WorkerState
  <2>3. /\ worker[w].at # "waiting" /\ worker' = [worker EXCEPT ![w] = s]
        /\ UNCHANGED <<commands, thread>>
    BY <1>6 DEF TakeTask, Idle
  <2> QED
    BY <1>5, <2>2, <2>3
<1>7. ASSUME NEW w \in Workers, NEW a \in Actions, HandlerReturns(w, a)
       PROVE  CallerInv'
  <2> DEFINE d == worker[w].d
             k == [d |-> d, action |-> a, by |-> w]
  <2>1. worker[w].at = "handler" /\ thread' = thread
    BY <1>7 DEF HandlerReturns
  <2>2. CASE worker' = [worker EXCEPT ![w] = Idle] /\ commands' = commands
    BY <1>5, <2>1, <2>2 DEF WorkerState, Idle
  <2>3. CASE /\ commands' = Append(commands, k)
             /\ worker' = [worker EXCEPT ![w] = [at |-> "waiting", d |-> d]]
    <3>1. d \in Delivery
      BY <2>1, WorkerCases DEF TypeOK
    <3>2. k \in Command /\ k.by = w /\ k.by # Driver
      BY <3>1 DEF Command
    <3>3. ~Occurs(commands, CommandBy(w))
      BY <2>1 DEF CallerInv
    <3> QED
      BY <1>3, <2>1, <2>3, <3>2, <3>3
  <2> QED
    BY <1>7, <2>2, <2>3 DEF HandlerReturns
<1>8. \/ RunCommand \/ ReceiveMessage
      \/ \E w \in Workers : TakeTask(w)
      \/ \E w \in Workers, a \in Actions : HandlerReturns(w, a)
      \/ /\ UNCHANGED <<commands, worker>>
         /\ thread = "selfWait" => thread' = "selfWait"
  BY StepCases
     DEF Deliver, Settle, LinkBreaks, SwapCommands, ThreadExits, DrainDone,
         Connect, NoConnection, StartConsumer, ReceiveError, PumpDone,
         CheckDisconnect, RegisterConsumerHandler, UnregisterConsumerHandler,
         RequestStop, JoinDriver, PoolDone, vars
<1> QED
  BY <1>1, <1>2, <1>4, <1>6, <1>7, <1>8

(* A waiting worker has its command queued, and nobody else waits.         *)
LEMMA CallersWait == TypeOK /\ CallerInv => WaitersAreQueued
<1> SUFFICES ASSUME TypeOK, CallerInv PROVE WaitersAreQueued
  OBVIOUS
<1>1. ASSUME NEW i \in DOMAIN commands
      PROVE  commands[i] \in Command /\ commands[i].by \in Workers \cup {Driver}
  <2>1. commands \in Seq(Command) /\ i \in 1 .. Len(commands)
    BY LenProperties DEF TypeOK
  <2>2. commands[i] \in Command
    BY <2>1, ElementOfSeq
  <2> QED
    BY <2>2 DEF Command
<1>2. \A w : Occurs(commands, CommandBy(w))
               <=> \E i \in DOMAIN commands : commands[i].by = w
  BY <1>1 DEF Occurs, CommandBy
<1>3. ASSUME NEW i \in DOMAIN commands, NEW j \in DOMAIN commands,
             commands[i].by = commands[j].by
      PROVE  i = j
  <2>1. AtMostOnce(commands, CommandBy(commands[i].by))
    BY <1>1 DEF CallerInv
  <2>2. commands[i] \in CommandBy(commands[i].by) /\ commands[j] \in CommandBy(commands[i].by)
    BY <1>1, <1>3 DEF CommandBy
  <2> QED
    BY <2>1, <2>2 DEF AtMostOnce
<1> QED
  BY <1>2, <1>3 DEF CallerInv, WaitersAreQueued

BaseInv == TypeOK /\ LinkInv /\ ClosedInv /\ CallerInv

LEMMA InitBaseInv == Init => BaseInv
BY InitTypeOK, InitCallerInv DEF BaseInv

LEMMA NextBaseInv ==
  ASSUME BaseInv, [Next]_vars
  PROVE  BaseInv'
BY NextTypeOK, NextLinkInv, NextClosedInv, NextCallerInv DEF BaseInv

(* When OnStop shuts the pool down, no worker waits for a command that is  *)
(* not queued, and no command is queued twice for one caller.              *)
THEOREM WaitersStayQueued == Spec => []WaitersAreQueued
<1>1. BaseInv => WaitersAreQueued
  BY CallersWait DEF BaseInv
<1> QED
  BY <1>1, InitBaseInv, NextBaseInv, PTL DEF Spec

-----------------------------------------------------------------------------
(* Where a delivery is inside the client, and how the steps move it.       *)

TaskWith(d) == {t \in Task : t.d = d}
CommandWith(d) == {k \in Command : k.d = d}
FrameWith(d) == {f \in Settlement : f.d = d}
Handles(w, d) == worker[w].at = "handler" /\ worker[w].d = d

InInbound(d) == Occurs(inbound, {d})
InTasks(d) == Occurs(tasks, TaskWith(d))
InHandler(d) == \E w \in Workers : Handles(w, d)
InCommands(d) == Occurs(commands, CommandWith(d))
InOutbound(d) == Occurs(outbound, FrameWith(d))

OnceInbound(d) == AtMostOnce(inbound, {d})
OnceTasks(d) == AtMostOnce(tasks, TaskWith(d))
OnceHandler(d) == \A v, w \in Workers : Handles(v, d) /\ Handles(w, d) => v = w
OnceCommands(d) == AtMostOnce(commands, CommandWith(d))
OnceOutbound(d) == AtMostOnce(outbound, FrameWith(d))

Held(d) ==
  InInbound(d) \/ InTasks(d) \/ InHandler(d) \/ InCommands(d) \/ InOutbound(d)

(* A delivery is in one place at most, and there once.                     *)
HeldOnce(d) ==
  /\ OnceInbound(d) /\ OnceTasks(d) /\ OnceHandler(d)
  /\ OnceCommands(d) /\ OnceOutbound(d)
  /\ InInbound(d) => ~(InTasks(d) \/ InHandler(d) \/ InCommands(d) \/ InOutbound(d))
  /\ InTasks(d) => ~(InHandler(d) \/ InCommands(d) \/ InOutbound(d))
  /\ InHandler(d) => ~(InCommands(d) \/ InOutbound(d))
  /\ ~(InCommands(d) /\ InOutbound(d))

(* From "is there" and "at most once" to what they are with one more, if b *)
Grows(there, once, more, still, b) ==
  /\ more <=> there \/ b
  /\ still <=> once /\ ~(there /\ b)

InboundGains(d, b) == Grows(InInbound(d), OnceInbound(d), InInbound(d)', OnceInbound(d)', b)
InboundLoses(d, b) == Grows(InInbound(d)', OnceInbound(d)', InInbound(d), OnceInbound(d), b)
TasksGain(d, b) == Grows(InTasks(d), OnceTasks(d), InTasks(d)', OnceTasks(d)', b)
TasksLose(d, b) == Grows(InTasks(d)', OnceTasks(d)', InTasks(d), OnceTasks(d), b)
HandlerGains(d, b) == Grows(InHandler(d), OnceHandler(d), InHandler(d)', OnceHandler(d)', b)
HandlerLoses(d, b) == Grows(InHandler(d)', OnceHandler(d)', InHandler(d), OnceHandler(d), b)
CommandsGain(d, b) == Grows(InCommands(d), OnceCommands(d), InCommands(d)', OnceCommands(d)', b)
CommandsLose(d, b) == Grows(InCommands(d)', OnceCommands(d)', InCommands(d), OnceCommands(d), b)
OutboundGains(d, b) == Grows(InOutbound(d), OnceOutbound(d), InOutbound(d)', OnceOutbound(d)', b)
OutboundLoses(d, b) == Grows(InOutbound(d)', OnceOutbound(d)', InOutbound(d), OnceOutbound(d), b)

LEMMA Kept ==
  ASSUME NEW d
  PROVE  /\ UNCHANGED inbound => InboundGains(d, FALSE)
         /\ UNCHANGED tasks => TasksGain(d, FALSE)
         /\ UNCHANGED worker => HandlerGains(d, FALSE)
         /\ UNCHANGED commands => CommandsGain(d, FALSE)
         /\ UNCHANGED outbound => OutboundGains(d, FALSE)
BY DEF InboundGains, TasksGain, HandlerGains, CommandsGain, OutboundGains, Grows,
       InInbound, InTasks, InHandler, InCommands, InOutbound, OnceInbound,
       OnceTasks, OnceHandler, OnceCommands, OnceOutbound, TaskWith,
       CommandWith, FrameWith, Handles

LEMMA InboundMoves ==
  ASSUME TypeOK, NEW d \in Delivery
  PROVE  /\ \A e \in Frame : inbound' = Append(inbound, e) => InboundGains(d, d = e)
         /\ inbound # <<>> /\ inbound' = Tail(inbound)
              => InboundLoses(d, d = Head(inbound))
<1>1. inbound \in Seq(Frame)
  BY DEF TypeOK
<1>2. ASSUME NEW e \in Frame, inbound' = Append(inbound, e)
      PROVE  InboundGains(d, d = e)
  BY <1>1, <1>2, AppendOccurs DEF InboundGains, Grows, InInbound, OnceInbound
<1>3. ASSUME inbound # <<>>, inbound' = Tail(inbound)
      PROVE  InboundLoses(d, d = Head(inbound))
  BY <1>1, <1>3, TailOccurs DEF InboundLoses, Grows, InInbound, OnceInbound
<1> QED
  BY <1>2, <1>3

LEMMA TasksMove ==
  ASSUME TypeOK, NEW d \in Delivery
  PROVE  /\ \A t \in Task : tasks' = Append(tasks, t) => TasksGain(d, d = t.d)
         /\ tasks # <<>> /\ tasks' = Tail(tasks) => TasksLose(d, d = Head(tasks).d)
<1>1. tasks \in Seq(Task) /\ TaskWith(d)' = TaskWith(d)
  BY DEF TypeOK, TaskWith
<1>2. \A t \in Task : t \in TaskWith(d) <=> d = t.d
  BY DEF TaskWith
<1>3. ASSUME NEW t \in Task, tasks' = Append(tasks, t)
      PROVE  TasksGain(d, d = t.d)
  BY <1>1, <1>2, <1>3, AppendOccurs DEF TasksGain, Grows, InTasks, OnceTasks
<1>4. ASSUME tasks # <<>>, tasks' = Tail(tasks)
      PROVE  TasksLose(d, d = Head(tasks).d)
  <2>1. Head(tasks) \in Task
    BY <1>1, <1>4, HeadTailProperties
  <2> QED
    BY <1>1, <1>2, <1>4, <2>1, TailOccurs DEF TasksLose, Grows, InTasks, OnceTasks
<1> QED
  BY <1>3, <1>4

LEMMA CommandsMove ==
  ASSUME TypeOK, NEW d \in Delivery
  PROVE  /\ \A k \in Command :
              commands' = Append(commands, k) => CommandsGain(d, d = k.d)
         /\ commands # <<>> /\ commands' = Tail(commands)
              => CommandsLose(d, d = Head(commands).d)
<1>1. commands \in Seq(Command) /\ CommandWith(d)' = CommandWith(d)
  BY DEF TypeOK, CommandWith
<1>2. \A k \in Command : k \in CommandWith(d) <=> d = k.d
  BY DEF CommandWith
<1>3. ASSUME NEW k \in Command, commands' = Append(commands, k)
      PROVE  CommandsGain(d, d = k.d)
  BY <1>1, <1>2, <1>3, AppendOccurs DEF CommandsGain, Grows, InCommands, OnceCommands
<1>4. ASSUME commands # <<>>, commands' = Tail(commands)
      PROVE  CommandsLose(d, d = Head(commands).d)
  <2>1. Head(commands) \in Command
    BY <1>1, <1>4, HeadTailProperties
  <2> QED
    BY <1>1, <1>2, <1>4, <2>1, TailOccurs DEF CommandsLose, Grows, InCommands, OnceCommands
<1> QED
  BY <1>3, <1>4

LEMMA OutboundMoves ==
  ASSUME TypeOK, NEW d \in Delivery
  PROVE  /\ \A f \in Settlement :
              outbound' = Append(outbound, f) => OutboundGains(d, d = f.d)
         /\ outbound # <<>> /\ outbound' = Tail(outbound)
              => OutboundLoses(d, d = Head(outbound).d)
<1>1. outbound \in Seq(Settlement) /\ FrameWith(d)' = FrameWith(d)
  BY DEF TypeOK, FrameWith
<1>2. \A f \in Settlement : f \in FrameWith(d) <=> d = f.d
  BY DEF FrameWith
<1>3. ASSUME NEW f \in Settlement, outbound' = Append(outbound, f)
      PROVE  OutboundGains(d, d = f.d)
  BY <1>1, <1>2, <1>3, AppendOccurs DEF OutboundGains, Grows, InOutbound, OnceOutbound
<1>4. ASSUME outbound # <<>>, outbound' = Tail(outbound)
      PROVE  OutboundLoses(d, d = Head(outbound).d)
  <2>1. Head(outbound) \in Settlement
    BY <1>1, <1>4, HeadTailProperties
  <2> QED
    BY <1>1, <1>2, <1>4, <2>1, TailOccurs DEF OutboundLoses, Grows, InOutbound, OnceOutbound
<1> QED
  BY <1>3, <1>4

(* A worker takes up a handler, ends one, or does neither.                 *)
LEMMA HandlerMoves ==
  ASSUME TypeOK, NEW d \in Delivery, NEW w \in Workers, NEW s,
         worker' = [worker EXCEPT ![w] = s]
  PROVE  /\ worker[w].at # "handler" /\ s.at # "handler" => HandlerGains(d, FALSE)
         /\ worker[w].at # "handler" /\ s.at = "handler" => HandlerGains(d, d = s.d)
         /\ worker[w].at = "handler" /\ s.at # "handler"
              => HandlerLoses(d, d = worker[w].d)
<1>1. \A v \in Workers : worker'[v] = IF v = w THEN s ELSE worker[v]
  BY DEF TypeOK
<1>2. \A v \in Workers : Handles(v, d)' <=> IF v = w THEN s.at = "handler" /\ s.d = d
                                                      ELSE Handles(v, d)
  BY <1>1 DEF Handles
<1> QED
  BY <1>2 DEF HandlerGains, HandlerLoses, Grows, InHandler, OnceHandler, Handles

(* The moves of each step. *)
LEMMA DeliverMoves ==
  ASSUME BaseInv, NEW d \in Delivery,
         NEW c \in Consumers, NEW m \in Messages, Deliver(c, m)
  PROVE  /\ InboundGains(d, d = Sent(c, m))
         /\ TasksGain(d, FALSE) /\ HandlerGains(d, FALSE)
         /\ CommandsGain(d, FALSE) /\ OutboundGains(d, FALSE)
<1>1. Sent(c, m) \in Frame /\ inbound' = Append(inbound, Sent(c, m))
  BY SentType, FrameCases DEF BaseInv
<1>2. UNCHANGED <<tasks, worker, commands, outbound>>
  BY DEF Deliver, threadVars, poolVars
<1> QED
  BY <1>1, <1>2, InboundMoves, Kept DEF BaseInv

LEMMA SettleMoves ==
  ASSUME BaseInv, NEW d \in Delivery, Settle
  PROVE  /\ OutboundLoses(d, d = Head(outbound).d)
         /\ InboundGains(d, FALSE) /\ TasksGain(d, FALSE)
         /\ HandlerGains(d, FALSE) /\ CommandsGain(d, FALSE)
<1> DEFINE c == Head(outbound).d.consumer
<1>1. OutboundLoses(d, d = Head(outbound).d)
  BY OutboundMoves DEF Settle, BaseInv
<1>2. UNCHANGED <<tasks, worker, commands>>
  BY DEF Settle, threadVars, poolVars
<1>3. InboundGains(d, FALSE)
  <2>1. CASE UNCHANGED inbound
    BY <2>1, Kept
  <2>2. CASE c \in serving /\ inbound' = Append(inbound, ChannelClosed(c))
    <3>1. ChannelClosed(c) \in Frame \ Delivery
      BY <2>2, FrameCases DEF BaseInv, TypeOK
    <3>2. InboundGains(d, d = ChannelClosed(c))
      BY <2>2, <3>1, InboundMoves DEF BaseInv
    <3>3. (d = ChannelClosed(c)) = FALSE
      BY <3>1
    <3> QED
      BY <3>2, <3>3 DEF InboundGains, Grows
  <2> QED
    BY <2>1, <2>2 DEF Settle
<1> QED
  BY <1>1, <1>2, <1>3, Kept

LEMMA RunCommandMoves ==
  ASSUME BaseInv, NEW d \in Delivery, RunCommand
  PROVE  /\ CommandsLose(d, d = Head(commands).d)
         /\ OutboundGains(d, /\ d = Head(commands).d
                             /\ channel[Head(commands).d.consumer] = "open")
         /\ InboundGains(d, FALSE) /\ TasksGain(d, FALSE)
         /\ HandlerGains(d, FALSE)
<1> DEFINE k == Head(commands)
           f == [d |-> k.d, action |-> k.action]
<1>1. /\ CommandsLose(d, d = k.d)
      /\ k \in Command
  BY FirstCommand, CommandsMove DEF BaseInv
<1>2. OutboundGains(d, d = k.d /\ channel[k.d.consumer] = "open")
  <2>1. CASE channel[k.d.consumer] = "open"
    <3>1. outbound' = Append(outbound, f)
      BY <2>1 DEF RunCommand, CompleteBody
    <3>2. f \in Settlement /\ f.d = k.d
      BY <1>1 DEF Command, Settlement
    <3>3. OutboundGains(d, d = k.d)
      BY <3>1, <3>2, OutboundMoves DEF BaseInv
    <3> QED
      BY <2>1, <3>3 DEF OutboundGains, Grows
  <2>2. CASE channel[k.d.consumer] # "open"
    <3>1. outbound' = outbound
      BY <2>2 DEF RunCommand, CompleteBody
    <3> QED
      BY <2>2, <3>1, Kept DEF OutboundGains, Grows
  <2> QED
    BY <2>1, <2>2
<1>3. UNCHANGED <<inbound, tasks>>
  BY DEF RunCommand
<1>4. HandlerGains(d, FALSE)
  <2>1. worker' = [worker EXCEPT ![k.by] = Idle]
    BY DEF RunCommand
  <2>2. CASE k.by \notin Workers
    <3>1. worker' = worker
      BY <2>1, <2>2 DEF BaseInv, TypeOK
    <3> QED
      BY <3>1, Kept
  <2>3. CASE k.by \in Workers
    <3>1. Occurs(commands, CommandBy(k.by))
      <4>1. k = commands[1] /\ 1 \in DOMAIN commands
        BY FirstCommand, HeadTailProperties, LenProperties, EmptySeq
           DEF BaseInv, TypeOK
      <4> QED
        BY <1>1, <4>1 DEF Occurs, CommandBy
    <3>2. worker[k.by].at = "waiting"
      BY <2>3, <3>1 DEF BaseInv, CallerInv
    <3>3. Idle.at # "handler"
      BY DEF Idle
    <3> QED
      BY <2>1, <2>3, <3>2, <3>3, HandlerMoves DEF BaseInv
  <2> QED
    BY <2>2, <2>3
<1> QED
  BY <1>1, <1>2, <1>3, <1>4, Kept

LEMMA ReceiveMoves ==
  ASSUME BaseInv, NEW d \in Delivery, ReceiveMessage
  PROVE  /\ InboundLoses(d, d = Head(inbound))
         /\ HandlerGains(d, FALSE) /\ OutboundGains(d, FALSE)
         /\ \/ TasksGain(d, d = Head(inbound)) /\ CommandsGain(d, FALSE)
            \/ TasksGain(d, FALSE) /\ CommandsGain(d, d = Head(inbound))
            \/ /\ Head(inbound).consumer \in AutoAck \/ StopRequested
               /\ TasksGain(d, FALSE) /\ CommandsGain(d, FALSE)
<1> DEFINE x == Head(inbound)
<1>1. x \in Delivery /\ inbound # <<>> /\ inbound' = Tail(inbound)
  BY DEF ReceiveMessage
<1>2. InboundLoses(d, d = x)
  BY <1>1, InboundMoves DEF BaseInv
<1>3. UNCHANGED <<worker, outbound>>
  BY DEF ReceiveMessage
<1>4. CASE /\ tasks' = Append(tasks, [d |-> x, handler |-> x.consumer \in handlers])
           /\ UNCHANGED commands
  <2> DEFINE t == [d |-> x, handler |-> x.consumer \in handlers]
  <2>1. t \in Task /\ t.d = x
    BY <1>1 DEF Task
  <2>2. TasksGain(d, d = x)
    BY <1>4, <2>1, TasksMove DEF BaseInv
  <2> QED
    BY <1>2, <1>3, <1>4, <2>2, Kept
<1>5. CASE /\ commands' = Append(commands, [d |-> x, action |-> "Requeue",
                                            by |-> Driver])
           /\ UNCHANGED tasks
  <2> DEFINE k == [d |-> x, action |-> "Requeue", by |-> Driver]
  <2>1. k \in Command /\ k.d = x
    BY <1>1 DEF Command, Actions
  <2>2. CommandsGain(d, d = x)
    BY <1>5, <2>1, CommandsMove DEF BaseInv
  <2> QED
    BY <1>2, <1>3, <1>5, <2>2, Kept
<1>6. CASE UNCHANGED <<tasks, commands>> /\ (x.consumer \in AutoAck \/ StopRequested)
  BY <1>2, <1>3, <1>6, Kept
<1> QED
  BY <1>4, <1>5, <1>6 DEF ReceiveMessage, Submit, threadVars

LEMMA TakeTaskMoves ==
  ASSUME BaseInv, NEW d \in Delivery, NEW w \in Workers, TakeTask(w)
  PROVE  /\ TasksLose(d, d = Head(tasks).d)
         /\ HandlerGains(d, d = Head(tasks).d)
         /\ InboundGains(d, FALSE) /\ CommandsGain(d, FALSE)
         /\ OutboundGains(d, FALSE)
<1> DEFINE s == [at |-> "handler", d |-> Head(tasks).d, handler |-> Head(tasks).handler]
<1>1. TasksLose(d, d = Head(tasks).d)
  BY TasksMove DEF TakeTask, BaseInv
<1>2. HandlerGains(d, d = s.d)
  <2>1. worker[w].at # "handler" /\ worker' = [worker EXCEPT ![w] = s]
    BY DEF TakeTask, Idle
  <2> QED
    BY <2>1, HandlerMoves DEF BaseInv
<1>3. UNCHANGED <<inbound, commands, outbound>>
  BY DEF TakeTask, linkVars, threadVars
<1> QED
  BY <1>1, <1>2, <1>3, Kept

LEMMA ReturnMoves ==
  ASSUME BaseInv, NEW d \in Delivery, NEW w \in Workers, NEW a \in Actions,
         HandlerReturns(w, a)
  PROVE  /\ HandlerLoses(d, d = worker[w].d)
         /\ CommandsGain(d, /\ d = worker[w].d
                            /\ ~(d.consumer \in AutoAck \/ StopRequested))
         /\ InboundGains(d, FALSE) /\ TasksGain(d, FALSE)
         /\ OutboundGains(d, FALSE)
<1> DEFINE x == worker[w].d
           k == [d |-> x, action |-> a, by |-> w]
<1>1. worker[w].at = "handler" /\ x \in Delivery
  BY WorkerCases DEF HandlerReturns, BaseInv, TypeOK
<1>2. UNCHANGED <<inbound, tasks, outbound>>
  BY DEF HandlerReturns, linkVars
<1>3. CASE x.consumer \in AutoAck \/ StopRequested
  <2>1. worker' = [worker EXCEPT ![w] = Idle] /\ UNCHANGED commands
    BY <1>3 DEF HandlerReturns
  <2>2. HandlerLoses(d, d = x)
    <3>1. Idle.at # "handler"
      BY DEF Idle
    <3> QED
      BY <1>1, <2>1, <3>1, HandlerMoves DEF BaseInv
  <2> QED
    BY <1>2, <1>3, <2>1, <2>2, Kept DEF CommandsGain, Grows
<1>4. CASE ~(x.consumer \in AutoAck \/ StopRequested)
  <2>1. /\ worker' = [worker EXCEPT ![w] = [at |-> "waiting", d |-> x]]
        /\ commands' = Append(commands, k)
    BY <1>4 DEF HandlerReturns
  <2>2. HandlerLoses(d, d = x)
    <3> DEFINE s == [at |-> "waiting", d |-> x]
    <3>1. s.at # "handler" /\ worker' = [worker EXCEPT ![w] = s]
      BY <2>1
    <3> HIDE DEF s
    <3> QED
      BY <1>1, <3>1, HandlerMoves DEF BaseInv
  <2>3. k \in Command /\ k.d = x
    BY <1>1 DEF Command
  <2>4. CommandsGain(d, d = x)
    BY <2>1, <2>3, CommandsMove DEF BaseInv
  <2> QED
    BY <1>2, <1>4, <2>2, <2>4, Kept DEF CommandsGain, Grows
<1> QED
  BY <1>3, <1>4

LEMMA DropMoves ==
  ASSUME NEW d, DropConnection, UNCHANGED <<commands, tasks, worker>>
  PROVE  /\ ~InInbound(d)' /\ OnceInbound(d)'
         /\ ~InOutbound(d)' /\ OnceOutbound(d)'
         /\ TasksGain(d, FALSE) /\ HandlerGains(d, FALSE)
         /\ CommandsGain(d, FALSE)
<1>1. inbound' = <<>> /\ outbound' = <<>>
  BY DEF DropConnection
<1> QED
  BY <1>1, EmptyOccurs, Kept DEF InInbound, OnceInbound, InOutbound, OnceOutbound

LEMMA ErrorMoves ==
  ASSUME BaseInv, NEW d \in Delivery, ReceiveError
  PROVE  /\ InboundGains(d, FALSE) /\ TasksGain(d, FALSE)
         /\ HandlerGains(d, FALSE) /\ CommandsGain(d, FALSE)
         /\ OutboundGains(d, FALSE)
<1>1. UNCHANGED <<tasks, worker, commands, outbound>>
  BY DEF ReceiveError, poolVars
<1>2. CASE UNCHANGED inbound
  BY <1>1, <1>2, Kept
<1>3. CASE inbound # <<>> /\ Head(inbound) \notin Delivery /\ inbound' = Tail(inbound)
  <2>1. InboundLoses(d, d = Head(inbound)) /\ d # Head(inbound)
    BY <1>3, InboundMoves DEF BaseInv
  <2>2. InboundGains(d, FALSE)
    BY <2>1 DEF InboundLoses, InboundGains, Grows
  <2> QED
    BY <1>1, <2>2, Kept
<1> QED
  BY <1>2, <1>3 DEF ReceiveError

LEMMA OtherMoves ==
  ASSUME [Next]_vars, NEW d
  PROVE  \/ \E c \in Consumers, m \in Messages : Deliver(c, m)
         \/ Settle \/ RunCommand \/ ReceiveMessage \/ ReceiveError
         \/ \E w \in Workers : TakeTask(w)
         \/ \E w \in Workers, a \in Actions : HandlerReturns(w, a)
         \/ DropConnection /\ UNCHANGED <<commands, tasks, worker>>
         \/ /\ InboundGains(d, FALSE) /\ TasksGain(d, FALSE)
            /\ HandlerGains(d, FALSE) /\ CommandsGain(d, FALSE)
            /\ OutboundGains(d, FALSE)
<1>1. UNCHANGED <<inbound, tasks, worker, commands, outbound>>
        => /\ InboundGains(d, FALSE) /\ TasksGain(d, FALSE)
           /\ HandlerGains(d, FALSE) /\ CommandsGain(d, FALSE)
           /\ OutboundGains(d, FALSE)
  BY Kept
<1>2. LinkBreaks \/ SwapCommands \/ DrainDone \/ Connect \/ NoConnection
      \/ (\E c \in Consumers : StartConsumer(c)) \/ PumpDone
      \/ (\E c \in Consumers :
            RegisterConsumerHandler(c) \/ UnregisterConsumerHandler(c))
      \/ RequestStop \/ JoinDriver \/ PoolDone \/ UNCHANGED vars
        => UNCHANGED <<inbound, tasks, worker, commands, outbound>>
  BY DEF LinkBreaks, SwapCommands, DrainDone, Connect, NoConnection,
         StartConsumer, PumpDone, RegisterConsumerHandler,
         UnregisterConsumerHandler, RequestStop, JoinDriver, PoolDone, vars,
         linkVars, threadVars, poolVars
<1>3. ThreadExits \/ CheckDisconnect
        => \/ DropConnection /\ UNCHANGED <<commands, tasks, worker>>
           \/ UNCHANGED <<inbound, tasks, worker, commands, outbound>>
  BY DEF ThreadExits, CheckDisconnect, linkVars, poolVars
<1> QED
  BY <1>1, <1>2, <1>3, StepCases

(* No step puts a delivery in a second place, nor twice in one.            *)
LEMMA NextHeldOnce ==
  ASSUME BaseInv, [Next]_vars, NEW d \in Delivery, HeldOnce(d),
         \A c \in Consumers, m \in Messages :
           Deliver(c, m) /\ d = Sent(c, m) => ~Held(d)
  PROVE  HeldOnce(d)'
<1>1. HeldOnce(d)' <=>
        /\ OnceInbound(d)' /\ OnceTasks(d)' /\ OnceHandler(d)'
        /\ OnceCommands(d)' /\ OnceOutbound(d)'
        /\ InInbound(d)' => ~(InTasks(d)' \/ InHandler(d)' \/ InCommands(d)' \/ InOutbound(d)')
        /\ InTasks(d)' => ~(InHandler(d)' \/ InCommands(d)' \/ InOutbound(d)')
        /\ InHandler(d)' => ~(InCommands(d)' \/ InOutbound(d)')
        /\ ~(InCommands(d)' /\ InOutbound(d)')
  BY DEF HeldOnce
<1> USE DEF InboundGains, InboundLoses, TasksGain, TasksLose, HandlerGains,
            HandlerLoses, CommandsGain, CommandsLose, OutboundGains,
            OutboundLoses, Grows
<1>2. ASSUME NEW c \in Consumers, NEW m \in Messages, Deliver(c, m)
      PROVE  HeldOnce(d)'
  <2>1. CASE d = Sent(c, m)
    BY <1>1, <1>2, <2>1, DeliverMoves DEF Held, HeldOnce
  <2>2. CASE d # Sent(c, m)
    BY <1>1, <1>2, <2>2, DeliverMoves DEF HeldOnce
  <2> QED
    BY <2>1, <2>2
<1>3. CASE Settle BY <1>1, <1>3, SettleMoves DEF HeldOnce
<1>4. CASE RunCommand BY <1>1, <1>4, RunCommandMoves DEF HeldOnce
<1>5. CASE ReceiveMessage BY <1>1, <1>5, ReceiveMoves DEF HeldOnce
<1>6. CASE ReceiveError BY <1>1, <1>6, ErrorMoves DEF HeldOnce
<1>7. ASSUME NEW w \in Workers, TakeTask(w) PROVE HeldOnce(d)'
  BY <1>1, <1>7, TakeTaskMoves DEF HeldOnce
<1>8. ASSUME NEW w \in Workers, NEW a \in Actions, HandlerReturns(w, a)
      PROVE  HeldOnce(d)'
  BY <1>1, <1>8, ReturnMoves DEF HeldOnce
<1>9. CASE DropConnection /\ UNCHANGED <<commands, tasks, worker>>
  BY <1>1, <1>9, DropMoves DEF HeldOnce
<1>10. CASE /\ InboundGains(d, FALSE) /\ TasksGain(d, FALSE)
            /\ HandlerGains(d, FALSE) /\ CommandsGain(d, FALSE)
            /\ OutboundGains(d, FALSE)
  BY <1>1, <1>10 DEF HeldOnce
<1> QED
  BY <1>2, <1>3, <1>4, <1>5, <1>6, <1>7, <1>8, <1>9, <1>10, OtherMoves

(* What is around: the broker wants it settled, or the client holds it.    *)
Around(d) == d \in outstanding \/ Held(d)

(* Only the broker brings a delivery into being. *)
LEMMA HeldSource ==
  ASSUME BaseInv, [Next]_vars, NEW d \in Delivery, Held(d)',
         \A c \in Consumers, m \in Messages : Deliver(c, m) => d # Sent(c, m)
  PROVE  Held(d)
<1>1. InInbound(d)' \/ InTasks(d)' \/ InHandler(d)' \/ InCommands(d)' \/ InOutbound(d)'
  BY DEF Held
<1> USE DEF InboundGains, InboundLoses, TasksGain, TasksLose, HandlerGains,
            HandlerLoses, CommandsGain, CommandsLose, OutboundGains,
            OutboundLoses, Grows
<1>2. ASSUME NEW c \in Consumers, NEW m \in Messages, Deliver(c, m)
      PROVE  Held(d)
  BY <1>1, <1>2, DeliverMoves DEF Held
<1>3. CASE Settle BY <1>1, <1>3, SettleMoves DEF Held
<1>4. CASE RunCommand BY <1>1, <1>4, RunCommandMoves DEF Held
<1>5. CASE ReceiveMessage BY <1>1, <1>5, ReceiveMoves DEF Held
<1>6. CASE ReceiveError BY <1>1, <1>6, ErrorMoves DEF Held
<1>7. ASSUME NEW w \in Workers, TakeTask(w) PROVE Held(d)
  BY <1>1, <1>7, TakeTaskMoves DEF Held
<1>8. ASSUME NEW w \in Workers, NEW a \in Actions, HandlerReturns(w, a)
      PROVE  Held(d)
  BY <1>1, <1>8, ReturnMoves DEF Held
<1>9. CASE DropConnection /\ UNCHANGED <<commands, tasks, worker>>
  BY <1>1, <1>9, DropMoves DEF Held
<1>10. CASE /\ InboundGains(d, FALSE) /\ TasksGain(d, FALSE)
            /\ HandlerGains(d, FALSE) /\ CommandsGain(d, FALSE)
            /\ OutboundGains(d, FALSE)
  BY <1>1, <1>10 DEF Held
<1> QED
  BY <1>2, <1>3, <1>4, <1>5, <1>6, <1>7, <1>8, <1>9, <1>10, OtherMoves

LEMMA OutstandingSource ==
  ASSUME [Next]_vars, NEW d \in outstanding',
         \A c \in Consumers, m \in Messages : Deliver(c, m) => d # Sent(c, m)
  PROVE  d \in outstanding
<1>1. \/ \E c \in Consumers, m \in Messages : Deliver(c, m)
      \/ Settle
      \/ outstanding' = {}
      \/ UNCHANGED outstanding
  BY StepCases
     DEF LinkBreaks, SwapCommands, ThreadExits, RunCommand, DrainDone, Connect,
         NoConnection, StartConsumer, ReceiveMessage, ReceiveError, PumpDone,
         CheckDisconnect, TakeTask, HandlerReturns, RegisterConsumerHandler,
         UnregisterConsumerHandler, RequestStop, JoinDriver, PoolDone, vars,
         brokerVars, DropConnection, RequeueAll
<1>2. ASSUME NEW c \in Consumers, NEW m \in Messages, Deliver(c, m)
      PROVE  d \in outstanding
  BY <1>2 DEF Deliver, Sent
<1>3. CASE Settle BY <1>3 DEF Settle
<1> QED
  BY <1>1, <1>2, <1>3

-----------------------------------------------------------------------------
(* The numbers of deliveries, and each in one place.                       *)

(* No delivery is from a later connection or has a tag not yet used.       *)
NumberInv ==
  \A d \in Delivery :
    Around(d) => /\ d.epoch <= epoch
                 /\ d.epoch = epoch => d.tag <= lastTag[d.consumer]

(* Connection, consumer and tag determine a delivery.                      *)
KeyInv ==
  \A d, e \in Delivery :
    /\ Around(d) /\ Around(e)
    /\ d.consumer = e.consumer /\ d.tag = e.tag /\ d.epoch = e.epoch
    => d = e

OnceInv == \A d \in Delivery : HeldOnce(d)

(* While the connection is good, nothing is lost from sight.               *)
KeptInv ==
  link = "up" /\ ~pendingDisconnect /\ ~StopRequested
  => \A d \in outstanding : Held(d)

PlaceInv == BaseInv /\ NumberInv /\ KeyInv /\ OnceInv /\ KeptInv

LEMMA InitPlaceInv == Init => PlaceInv
<1> SUFFICES ASSUME Init PROVE PlaceInv
  OBVIOUS
<1>1. \A d : ~Held(d) /\ HeldOnce(d)
  <2>1. \A X : /\ ~Occurs(inbound, X) /\ AtMostOnce(inbound, X)
               /\ ~Occurs(tasks, X) /\ AtMostOnce(tasks, X)
               /\ ~Occurs(commands, X) /\ AtMostOnce(commands, X)
               /\ ~Occurs(outbound, X) /\ AtMostOnce(outbound, X)
    BY EmptyOccurs DEF Init
  <2>2. \A w \in Workers : worker[w].at # "handler"
    BY DEF Init, Idle
  <2> QED
    BY <2>1, <2>2
       DEF Held, HeldOnce, InInbound, InTasks, InHandler, InCommands, InOutbound,
           OnceInbound, OnceTasks, OnceHandler, OnceCommands, OnceOutbound, Handles
<1>2. outstanding = {}
  BY DEF Init
<1> QED
  BY <1>1, <1>2, InitBaseInv
     DEF PlaceInv, NumberInv, KeyInv, OnceInv, KeptInv, Around

(* A delivery the broker sends is new. *)
LEMMA SentIsNew ==
  ASSUME BaseInv, NumberInv, NEW c \in Consumers, NEW m \in Messages, Deliver(c, m),
         NEW d \in Delivery, d.consumer = c, d.tag = lastTag[c] + 1, d.epoch = epoch
  PROVE  ~Around(d)
<1>1. lastTag[c] \in Nat
  BY DeliveryAssumption DEF BaseInv, TypeOK
<1>2. ~(d.tag <= lastTag[d.consumer])
  BY <1>1
<1> QED
  BY <1>2 DEF NumberInv

LEMMA AroundSource ==
  ASSUME BaseInv, [Next]_vars, NEW d \in Delivery, Around(d)',
         \A c \in Consumers, m \in Messages : Deliver(c, m) => d # Sent(c, m)
  PROVE  Around(d)
BY HeldSource, OutstandingSource DEF Around

LEMMA DeliverSource ==
  ASSUME BaseInv, NEW c \in Consumers, NEW m \in Messages, Deliver(c, m),
         NEW d \in Delivery, Around(d)'
  PROVE  Around(d) \/ d = Sent(c, m)
<1>1. \A x \in Consumers, n \in Messages : Deliver(x, n) => Sent(x, n) = Sent(c, m)
  <2> SUFFICES ASSUME NEW x \in Consumers, NEW n \in Messages, Deliver(x, n)
               PROVE  Sent(x, n) = Sent(c, m)
    OBVIOUS
  <2>1. /\ inbound' = Append(inbound, Sent(x, n))
        /\ inbound' = Append(inbound, Sent(c, m))
        /\ Sent(x, n) \in Frame /\ Sent(c, m) \in Frame
        /\ inbound \in Seq(Frame)
    BY SentType, FrameCases DEF BaseInv, TypeOK
  <2>2. /\ Append(inbound, Sent(x, n))[Len(inbound) + 1] = Sent(x, n)
        /\ Append(inbound, Sent(c, m))[Len(inbound) + 1] = Sent(c, m)
    BY <2>1, AppendProperties
  <2> QED
    BY <2>1, <2>2
<1>2. [Next]_vars
  BY DEF Next
<1> QED
  BY <1>1, <1>2, AroundSource

LEMMA NextNumberInv ==
  ASSUME BaseInv, NumberInv, [Next]_vars
  PROVE  NumberInv'
<1> SUFFICES ASSUME NEW d \in Delivery, Around(d)'
             PROVE  /\ d.epoch <= epoch'
                    /\ d.epoch = epoch' => d.tag <= lastTag'[d.consumer]
  BY DEF NumberInv, Delivery
<1>1. /\ d.epoch \in Nat /\ d.tag \in Nat /\ d.consumer \in Consumers
      /\ epoch \in Nat /\ lastTag \in [Consumers -> Nat]
  BY DeliveryAssumption DEF Delivery, BaseInv, TypeOK
<1>2. ASSUME NEW c \in Consumers, NEW m \in Messages, Deliver(c, m)
      PROVE  /\ d.epoch <= epoch'
             /\ d.epoch = epoch' => d.tag <= lastTag'[d.consumer]
  <2>1. epoch' = epoch /\ lastTag' = [lastTag EXCEPT ![c] = @ + 1]
    BY <1>2 DEF Deliver
  <2>2. CASE d = Sent(c, m)
    BY <1>1, <2>1, <2>2 DEF Sent
  <2>3. CASE Around(d)
    BY <1>1, <2>1, <2>3 DEF NumberInv
  <2> QED
    BY <1>2, <2>2, <2>3, DeliverSource
<1>3. CASE ~\E c \in Consumers, m \in Messages : Deliver(c, m)
  <2>1. Around(d)
    BY <1>3, AroundSource
  <2>2. CASE Connect
    BY <1>1, <2>1, <2>2 DEF Connect, NumberInv
  <2>3. CASE UNCHANGED <<epoch, lastTag>>
    BY <2>1, <2>3 DEF NumberInv
  <2>4. Connect \/ UNCHANGED <<epoch, lastTag>>
    BY <1>3, StepCases
       DEF Settle, LinkBreaks, SwapCommands, ThreadExits, RunCommand, DrainDone,
           NoConnection, StartConsumer, ReceiveMessage, ReceiveError, PumpDone,
           CheckDisconnect, TakeTask, HandlerReturns, RegisterConsumerHandler,
           UnregisterConsumerHandler, RequestStop, JoinDriver, PoolDone, vars,
           brokerVars, linkVars, DropConnection
  <2> QED
    BY <2>2, <2>3, <2>4
<1> QED
  BY <1>2, <1>3

LEMMA NextKeyInv ==
  ASSUME BaseInv, NumberInv, KeyInv, [Next]_vars
  PROVE  KeyInv'
<1> SUFFICES ASSUME NEW d \in Delivery, NEW e \in Delivery, Around(d)', Around(e)',
                    d.consumer = e.consumer, d.tag = e.tag, d.epoch = e.epoch
             PROVE  d = e
  BY DEF KeyInv, Delivery
<1>1. CASE Around(d) /\ Around(e)
  BY <1>1 DEF KeyInv
<1>2. ASSUME NEW c \in Consumers, NEW m \in Messages, Deliver(c, m)
      PROVE  d = e
  <2>1. (Around(d) \/ d = Sent(c, m)) /\ (Around(e) \/ e = Sent(c, m))
    BY <1>2, DeliverSource
  <2>2. ~(d = Sent(c, m) /\ Around(e)) /\ ~(e = Sent(c, m) /\ Around(d))
    BY <1>2, SentIsNew DEF Sent
  <2> QED
    BY <1>1, <2>1, <2>2
<1>3. CASE ~\E c \in Consumers, m \in Messages : Deliver(c, m)
  BY <1>1, <1>3, AroundSource
<1> QED
  BY <1>2, <1>3

LEMMA NextOnceInv ==
  ASSUME BaseInv, NumberInv, OnceInv, [Next]_vars
  PROVE  OnceInv'
<1> SUFFICES ASSUME NEW d \in Delivery PROVE HeldOnce(d)'
  BY DEF OnceInv, Delivery
<1>1. \A c \in Consumers, m \in Messages : Deliver(c, m) /\ d = Sent(c, m) => ~Held(d)
  BY SentIsNew DEF Sent, Around
<1> QED
  BY <1>1, NextHeldOnce DEF OnceInv

(* While the connection is good, whoever has a delivery the broker wants   *)
(* settled hands it on or keeps it.                                        *)
LEMMA NextKeptInv ==
  ASSUME BaseInv, KeptInv, [Next]_vars
  PROVE  KeptInv'
<1> SUFFICES ASSUME link' = "up", ~pendingDisconnect', ~StopRequested',
                    NEW d \in outstanding'
             PROVE  Held(d)'
  BY DEF KeptInv
<1> DEFINE Good == link = "up" /\ ~pendingDisconnect /\ ~StopRequested
<1>1. d \in Delivery
  BY NextBaseInv DEF BaseInv, TypeOK
<1>2. Held(d)' <=> \/ InInbound(d)' \/ InTasks(d)' \/ InHandler(d)'
                   \/ InCommands(d)' \/ InOutbound(d)'
  BY DEF Held
<1>3. ~StopRequested
  <2>1. phase' = phase \/ phase' # "running"
    BY StepCases
       DEF Deliver, Settle, LinkBreaks, SwapCommands, ThreadExits, RunCommand,
           DrainDone, Connect, NoConnection, StartConsumer, ReceiveMessage,
           ReceiveError, PumpDone, CheckDisconnect, TakeTask, HandlerReturns,
           RegisterConsumerHandler, UnregisterConsumerHandler, RequestStop,
           JoinDriver, PoolDone, vars
  <2> QED
    BY <2>1 DEF StopRequested
<1> USE DEF InboundGains, InboundLoses, TasksGain, TasksLose, HandlerGains,
            HandlerLoses, CommandsGain, CommandsLose, OutboundGains,
            OutboundLoses, Grows
<1>4. ASSUME NEW c \in Consumers, NEW m \in Messages, Deliver(c, m)
      PROVE  Held(d)'
  <2>1. Good
    BY <1>3, <1>4 DEF Deliver, linkVars
  <2>2. d \in outstanding \/ d = Sent(c, m)
    BY <1>4 DEF Deliver, Sent
  <2>3. Held(d) \/ d = Sent(c, m)
    BY <2>1, <2>2 DEF KeptInv
  <2> QED
    BY <1>1, <1>2, <1>4, <2>3, DeliverMoves DEF Held
<1>5. ASSUME d \in outstanding, link = "up", ~pendingDisconnect PROVE Held(d)
  BY <1>3, <1>5 DEF KeptInv
<1>6. CASE Settle
  <2> DEFINE f == Head(outbound)
             known == {e \in Unsettled(f.d.consumer) : e.tag = f.d.tag}
  <2>1. d \in outstanding /\ link = "up" /\ ~pendingDisconnect
    BY <1>6 DEF Settle
  <2>2. d # f.d
    <3> SUFFICES ASSUME d = f.d PROVE FALSE
      OBVIOUS
    <3>1. d \in known /\ d.consumer \in serving
      BY <2>1 DEF Unsettled, BaseInv, LinkInv
    <3> QED
      BY <1>6, <3>1 DEF Settle
  <2> QED
    BY <1>1, <1>2, <1>5, <1>6, <2>1, <2>2, SettleMoves DEF Held
<1>7. CASE RunCommand
  <2>1. d \in outstanding /\ link = "up" /\ ~pendingDisconnect
    BY <1>7 DEF RunCommand, brokerVars
  <2>2. channel[d.consumer] = "open"
    BY <2>1 DEF BaseInv, LinkInv, TypeOK
  <2> QED
    BY <1>1, <1>2, <1>5, <1>7, <2>1, <2>2, RunCommandMoves DEF Held
<1>8. CASE ReceiveMessage
  <2>1. /\ d \in outstanding /\ link = "up" /\ ~pendingDisconnect
        /\ d.consumer \notin AutoAck
    BY <1>8 DEF ReceiveMessage, brokerVars, BaseInv, LinkInv
  <2> QED
    BY <1>1, <1>2, <1>3, <1>5, <1>8, <2>1, ReceiveMoves DEF Held
<1>9. ASSUME NEW w \in Workers, TakeTask(w) PROVE Held(d)'
  <2>1. d \in outstanding /\ link = "up" /\ ~pendingDisconnect
    BY <1>9 DEF TakeTask, brokerVars, linkVars
  <2> QED
    BY <1>1, <1>2, <1>5, <1>9, <2>1, TakeTaskMoves DEF Held
<1>10. ASSUME NEW w \in Workers, NEW a \in Actions, HandlerReturns(w, a)
       PROVE  Held(d)'
  <2>1. /\ d \in outstanding /\ link = "up" /\ ~pendingDisconnect
        /\ d.consumer \notin AutoAck
    BY <1>10 DEF HandlerReturns, brokerVars, linkVars, BaseInv, LinkInv
  <2> QED
    BY <1>1, <1>2, <1>3, <1>5, <1>10, <2>1, ReturnMoves DEF Held
<1>11. CASE DropConnection BY <1>11 DEF DropConnection
<1>12. CASE ReceiveError BY <1>12 DEF ReceiveError
<1>13. CASE Connect
  <2>1. outstanding' = {}
    BY <1>13 DEF Connect, BaseInv, LinkInv
  <2> QED
    BY <2>1
<1>14. CASE /\ UNCHANGED <<outstanding, link, pendingDisconnect>>
            /\ UNCHANGED <<inbound, tasks, worker, commands, outbound>>
  <2>1. Held(d)
    BY <1>5, <1>14
  <2> QED
    BY <1>2, <1>14, <2>1, Kept DEF Held
<1>15. LinkBreaks \/ SwapCommands \/ ThreadExits \/ DrainDone \/ NoConnection
       \/ (\E c \in Consumers : StartConsumer(c)) \/ PumpDone \/ CheckDisconnect
       \/ (\E c \in Consumers :
             RegisterConsumerHandler(c) \/ UnregisterConsumerHandler(c))
       \/ RequestStop \/ JoinDriver \/ PoolDone \/ UNCHANGED vars
         => \/ DropConnection
            \/ /\ UNCHANGED <<outstanding, link, pendingDisconnect>>
               /\ UNCHANGED <<inbound, tasks, worker, commands, outbound>>
  BY DEF LinkBreaks, SwapCommands, ThreadExits, DrainDone, NoConnection,
         StartConsumer, PumpDone, CheckDisconnect, RegisterConsumerHandler,
         UnregisterConsumerHandler, RequestStop, JoinDriver, PoolDone, vars,
         brokerVars, linkVars, threadVars, poolVars
<1> QED
  BY <1>4, <1>6, <1>7, <1>8, <1>9, <1>10, <1>11, <1>12, <1>13, <1>14, <1>15,
     StepCases

LEMMA NextPlaceInv ==
  ASSUME PlaceInv, [Next]_vars
  PROVE  PlaceInv'
BY NextBaseInv, NextNumberInv, NextKeyInv, NextOnceInv, NextKeptInv DEF PlaceInv

(* The elements of X in s have one position, or none.                      *)
LEMMA PositionsOf ==
  ASSUME NEW s, NEW X, AtMostOnce(s, X)
  PROVE  /\ ~Occurs(s, X) => {i \in DOMAIN s : s[i] \in X} = {}
         /\ Occurs(s, X) => \E i : {j \in DOMAIN s : s[j] \in X} = {i}
BY DEF AtMostOnce, Occurs

LEMMA HoldersByPlace ==
  ASSUME TypeOK, NEW d \in Delivery
  PROVE  Holders(d) =
           ({"inbound"} \X {i \in DOMAIN inbound : inbound[i] \in {d}})
           \cup ({"task"} \X {i \in DOMAIN tasks : tasks[i] \in TaskWith(d)})
           \cup ({"worker"} \X {w \in Workers : Handles(w, d)})
           \cup ({"command"} \X {i \in DOMAIN commands : commands[i] \in CommandWith(d)})
           \cup ({"outbound"} \X {i \in DOMAIN outbound : outbound[i] \in FrameWith(d)})
<1>1. {i \in DOMAIN inbound : inbound[i] = d}
        = {i \in DOMAIN inbound : inbound[i] \in {d}}
  OBVIOUS
<1>2. {i \in DOMAIN tasks : tasks[i].d = d}
        = {i \in DOMAIN tasks : tasks[i] \in TaskWith(d)}
  <2>1. \A i \in DOMAIN tasks : tasks[i] \in Task
    BY LenProperties, ElementOfSeq DEF TypeOK
  <2> QED
    BY <2>1 DEF TaskWith
<1>3. {i \in DOMAIN commands : commands[i].d = d}
        = {i \in DOMAIN commands : commands[i] \in CommandWith(d)}
  <2>1. \A i \in DOMAIN commands : commands[i] \in Command
    BY LenProperties, ElementOfSeq DEF TypeOK
  <2> QED
    BY <2>1 DEF CommandWith
<1>4. {i \in DOMAIN outbound : outbound[i].d = d}
        = {i \in DOMAIN outbound : outbound[i] \in FrameWith(d)}
  <2>1. \A i \in DOMAIN outbound : outbound[i] \in Settlement
    BY LenProperties, ElementOfSeq DEF TypeOK
  <2> QED
    BY <2>1 DEF FrameWith
<1> QED
  BY <1>1, <1>2, <1>3, <1>4 DEF Holders, Positions, Handles

LEMMA HeldOnceIsOne ==
  ASSUME TypeOK, NEW d \in Delivery, HeldOnce(d), Held(d)
  PROVE  Cardinality(Holders(d)) = 1
<1> DEFINE I == {i \in DOMAIN inbound : inbound[i] \in {d}}
           T == {i \in DOMAIN tasks : tasks[i] \in TaskWith(d)}
           W == {w \in Workers : Handles(w, d)}
           C == {i \in DOMAIN commands : commands[i] \in CommandWith(d)}
           O == {i \in DOMAIN outbound : outbound[i] \in FrameWith(d)}
           H == ({"inbound"} \X I) \cup ({"task"} \X T) \cup ({"worker"} \X W)
                \cup ({"command"} \X C) \cup ({"outbound"} \X O)
<1>1. (~InInbound(d) => I = {}) /\ (InInbound(d) => \E i : I = {i})
  BY PositionsOf DEF HeldOnce, OnceInbound, InInbound
<1>2. (~InTasks(d) => T = {}) /\ (InTasks(d) => \E i : T = {i})
  BY PositionsOf DEF HeldOnce, OnceTasks, InTasks
<1>3. (~InHandler(d) => W = {}) /\ (InHandler(d) => \E w : W = {w})
  BY DEF HeldOnce, OnceHandler, InHandler
<1>4. (~InCommands(d) => C = {}) /\ (InCommands(d) => \E i : C = {i})
  BY PositionsOf DEF HeldOnce, OnceCommands, InCommands
<1>5. (~InOutbound(d) => O = {}) /\ (InOutbound(d) => \E i : O = {i})
  BY PositionsOf DEF HeldOnce, OnceOutbound, InOutbound
<1>6. Holders(d) = H
  BY HoldersByPlace
<1> HIDE DEF I, T, W, C, O
<1>7. \E h : H = {h}
  <2>1. CASE InInbound(d)
    <3>1. T = {} /\ W = {} /\ C = {} /\ O = {}
      BY <1>2, <1>3, <1>4, <1>5, <2>1 DEF HeldOnce
    <3>2. PICK i : I = {i}
      BY <1>1, <2>1
    <3>3. H = {<<"inbound", i>>}
      BY <3>1, <3>2
    <3> QED
      BY <3>3
  <2>2. CASE InTasks(d)
    <3>1. I = {} /\ W = {} /\ C = {} /\ O = {}
      BY <1>1, <1>3, <1>4, <1>5, <2>2 DEF HeldOnce
    <3>2. PICK i : T = {i}
      BY <1>2, <2>2
    <3>3. H = {<<"task", i>>}
      BY <3>1, <3>2
    <3> QED
      BY <3>3
  <2>3. CASE InHandler(d)
    <3>1. I = {} /\ T = {} /\ C = {} /\ O = {}
      BY <1>1, <1>2, <1>4, <1>5, <2>3 DEF HeldOnce
    <3>2. PICK w : W = {w}
      BY <1>3, <2>3
    <3>3. H = {<<"worker", w>>}
      BY <3>1, <3>2
    <3> QED
      BY <3>3
  <2>4. CASE InCommands(d)
    <3>1. I = {} /\ T = {} /\ W = {} /\ O = {}
      BY <1>1, <1>2, <1>3, <1>5, <2>4 DEF HeldOnce
    <3>2. PICK i : C = {i}
      BY <1>4, <2>4
    <3>3. H = {<<"command", i>>}
      BY <3>1, <3>2
    <3> QED
      BY <3>3
  <2>5. CASE InOutbound(d)
    <3>1. I = {} /\ T = {} /\ W = {} /\ C = {}
      BY <1>1, <1>2, <1>3, <1>4, <2>5 DEF HeldOnce
    <3>2. PICK i : O = {i}
      BY <1>5, <2>5
    <3>3. H = {<<"outbound", i>>}
      BY <3>1, <3>2
    <3> QED
      BY <3>3
  <2> QED
    BY <2>1, <2>2, <2>3, <2>4, <2>5 DEF Held
<1> QED
  BY <1>6, <1>7, FS_Singleton

(* While the connection is good, every delivery the broker wants settled   *)
(* is in exactly one hand of the client: it is neither forgotten nor       *)
(* settled twice, whatever the interleaving of driver, workers and broker. *)
THEOREM DeliveriesHaveOneHolder == Spec => []OneHolder
<1>1. PlaceInv => OneHolder
  <2> SUFFICES ASSUME PlaceInv, link = "up", ~pendingDisconnect, ~StopRequested,
                      NEW d \in outstanding
               PROVE  Cardinality(Holders(d)) = 1
    BY DEF OneHolder
  <2>1. d \in Delivery /\ Held(d)
    BY DEF PlaceInv, BaseInv, TypeOK, KeptInv
  <2>2. HeldOnce(d)
    BY <2>1 DEF PlaceInv, OnceInv
  <2> QED
    BY <2>1, <2>2, HeldOnceIsOne DEF PlaceInv, BaseInv
<1> QED
  BY <1>1, InitPlaceInv, NextPlaceInv, PTL DEF Spec

-----------------------------------------------------------------------------
(* On the first connection a frame settles the delivery it is about, for   *)
(* tags are only used again after a reconnect.                             *)

LEMMA FirstFrame ==
  ASSUME BaseInv, Settle
  PROVE  /\ Head(outbound) \in Settlement
         /\ Head(outbound).d \in Delivery
         /\ Occurs(outbound, {Head(outbound)})
         /\ InOutbound(Head(outbound).d)
<1>1. outbound \in Seq(Settlement) /\ outbound # <<>>
  BY DEF Settle, BaseInv, TypeOK
<1>2. Head(outbound) \in Settlement /\ Head(outbound).d \in Delivery
  <2>1. Head(outbound) \in Settlement
    BY <1>1, HeadTailProperties
  <2> QED
    BY <2>1 DEF Settlement
<1>3. \A X : Head(outbound) \in X => Occurs(outbound, X)
  BY <1>1, TailOccurs
<1>4. Head(outbound) \in {Head(outbound)}
  OBVIOUS
<1>5. Head(outbound) \in FrameWith(Head(outbound).d)
  BY <1>2 DEF FrameWith
<1> QED
  BY <1>2, <1>3, <1>4, <1>5 DEF InOutbound

LEMMA SettlesItsOwn ==
  ASSUME PlaceInv, epoch <= 1, Settle, NEW e \in Unsettled(Head(outbound).d.consumer),
         e.tag = Head(outbound).d.tag
  PROVE  e = Head(outbound).d
<1> DEFINE d == Head(outbound).d
<1>1. d \in Delivery /\ Around(d)
  BY FirstFrame DEF PlaceInv, Around, Held
<1>2. /\ e \in Delivery /\ Around(e) /\ e.consumer = d.consumer
      /\ e.epoch = epoch
  BY DEF Unsettled, PlaceInv, BaseInv, TypeOK, LinkInv, Around
<1>3. d.epoch <= epoch /\ d.epoch >= 1 /\ d.epoch \in Nat /\ epoch \in Nat
  BY <1>1, DeliveryAssumption DEF PlaceInv, NumberInv, Delivery, BaseInv, TypeOK
<1>4. d.epoch = e.epoch
  BY <1>2, <1>3
<1> QED
  BY <1>1, <1>2, <1>4 DEF PlaceInv, KeyInv

(* What is on its way to the broker was said by a handler; a refused       *)
(* message is only given back.                                             *)
SaidInv ==
  /\ \A k \in Command :
       Occurs(commands, {k}) => k.action = "Requeue" \/ <<k.d.msg, k.action>> \in said
  /\ \A f \in Settlement :
       Occurs(outbound, {f}) => f.action = "Requeue" \/ <<f.d.msg, f.action>> \in said

LEMMA NextSaidInv ==
  ASSUME BaseInv, SaidInv, [Next]_vars
  PROVE  SaidInv'
<1> USE DEF brokerVars, linkVars, threadVars, poolVars
<1>1. said \subseteq said'
  BY StepCases
     DEF Deliver, Settle, LinkBreaks, SwapCommands, ThreadExits, RunCommand,
         DrainDone, Connect, NoConnection, StartConsumer, ReceiveMessage,
         ReceiveError, PumpDone, CheckDisconnect, TakeTask, HandlerReturns,
         RegisterConsumerHandler, UnregisterConsumerHandler, RequestStop,
         JoinDriver, PoolDone, vars
<1>2. ASSUME \A k \in Command : Occurs(commands, {k})' => Occurs(commands, {k}),
             \A f \in Settlement : Occurs(outbound, {f})' => Occurs(outbound, {f})
      PROVE  SaidInv'
  BY <1>1, <1>2 DEF SaidInv, Command, Settlement
<1>3. CASE Settle
  <2>1. \A f \in Settlement : Occurs(outbound, {f})' => Occurs(outbound, {f})
    BY <1>3, TailOccurs DEF Settle, BaseInv, TypeOK
  <2>2. commands' = commands
    BY <1>3 DEF Settle
  <2> QED
    BY <1>2, <2>1, <2>2
<1>4. CASE RunCommand
  <2> DEFINE k == Head(commands)
             g == [d |-> k.d, action |-> k.action]
  <2>1. /\ k \in Command /\ commands \in Seq(Command) /\ commands # <<>>
        /\ commands' = Tail(commands)
    BY <1>4, FirstCommand DEF BaseInv, TypeOK
  <2>2. /\ \A j \in Command : Occurs(commands', {j}) => Occurs(commands, {j})
        /\ Occurs(commands, {k})
    BY <2>1, TailOccurs
  <2>3. g \in Settlement /\ g.d = k.d /\ g.action = k.action
    BY <2>1 DEF Command, Settlement
  <2>4. outbound' = outbound \/ outbound' = Append(outbound, g)
    BY <1>4 DEF RunCommand, CompleteBody
  <2>5. \A f \in Settlement : Occurs(outbound', {f}) => Occurs(outbound, {f}) \/ f = g
    <3>1. outbound \in Seq(Settlement)
      BY DEF BaseInv, TypeOK
    <3> HIDE DEF g
    <3>2. \A X : Occurs(Append(outbound, g), X) => Occurs(outbound, X) \/ g \in X
      BY <2>3, <3>1, AppendOccurs
    <3> QED
      BY <2>4, <3>2
  <2>6. k.action = "Requeue" \/ <<k.d.msg, k.action>> \in said'
    BY <1>1, <2>1, <2>2 DEF SaidInv
  <2> QED
    BY <1>1, <2>2, <2>3, <2>5, <2>6 DEF SaidInv
<1>5. ASSUME NEW k \in Command, commands' = Append(commands, k), outbound' = outbound,
             k.action = "Requeue" \/ <<k.d.msg, k.action>> \in said'
      PROVE  SaidInv'
  <2>1. \A j \in Command : Occurs(commands', {j}) => Occurs(commands, {j}) \/ j = k
    BY <1>5, AppendOccurs DEF BaseInv, TypeOK
  <2> QED
    BY <1>1, <1>5, <2>1 DEF SaidInv
<1>6. CASE ReceiveMessage
  <2> DEFINE k == [d |-> Head(inbound), action |-> "Requeue", by |-> Driver]
  <2>1. outbound' = outbound
    BY <1>6 DEF ReceiveMessage
  <2>2. CASE commands' = Append(commands, k)
    <3>1. k \in Command /\ k.action = "Requeue"
      BY <1>6 DEF ReceiveMessage, Command, Actions
    <3> QED
      BY <1>5, <2>1, <2>2, <3>1
  <2>3. CASE commands' = commands
    BY <1>2, <2>1, <2>3
  <2> QED
    BY <1>6, <2>2, <2>3 DEF ReceiveMessage, Submit
<1>7. ASSUME NEW w \in Workers, NEW a \in Actions, HandlerReturns(w, a)
      PROVE  SaidInv'
  <2> DEFINE d == worker[w].d
             k == [d |-> d, action |-> a, by |-> w]
  <2>1. d \in Delivery /\ outbound' = outbound /\ <<d.msg, a>> \in said'
    BY <1>7, WorkerCases DEF HandlerReturns, BaseInv, TypeOK
  <2>2. CASE commands' = Append(commands, k)
    <3>1. k \in Command /\ k.action = a /\ k.d = d
      BY <2>1 DEF Command
    <3> QED
      BY <1>5, <2>1, <2>2, <3>1
  <2>3. CASE commands' = commands
    BY <1>2, <2>1, <2>3
  <2> QED
    BY <1>7, <2>2, <2>3 DEF HandlerReturns
<1>8. CASE DropConnection /\ UNCHANGED commands
  <2>1. \A f : ~Occurs(outbound, {f})'
    BY <1>8, EmptyOccurs DEF DropConnection
  <2> QED
    BY <1>2, <1>8, <2>1
<1>9. CASE UNCHANGED <<commands, outbound>>
  BY <1>2, <1>9
<1>10. \/ Settle \/ RunCommand \/ ReceiveMessage
       \/ \E w \in Workers, a \in Actions : HandlerReturns(w, a)
       \/ DropConnection /\ UNCHANGED commands
       \/ UNCHANGED <<commands, outbound>>
  BY StepCases
     DEF Deliver, LinkBreaks, SwapCommands, ThreadExits, DrainDone,
         Connect, NoConnection, StartConsumer, ReceiveError, PumpDone,
         CheckDisconnect, TakeTask, RegisterConsumerHandler,
         UnregisterConsumerHandler, RequestStop, JoinDriver, PoolDone, vars
<1> QED
  BY <1>3, <1>4, <1>6, <1>7, <1>8, <1>9, <1>10

FirstSettledInv == epoch <= 1 => SettledAsSaid

LEMMA NextSettled ==
  ASSUME PlaceInv, SaidInv, FirstSettledInv, [Next]_vars
  PROVE  FirstSettledInv'
<1> SUFFICES ASSUME epoch' <= 1, NEW m \in Messages, settled'[m] \in {"Ack", "Reject"}
             PROVE  <<m, settled'[m]>> \in said'
  BY DEF FirstSettledInv, SettledAsSaid
<1>1. said \subseteq said' /\ (epoch' = epoch \/ epoch' = epoch + 1)
  BY StepCases
     DEF Deliver, Settle, LinkBreaks, SwapCommands, ThreadExits, RunCommand,
         DrainDone, Connect, NoConnection, StartConsumer, ReceiveMessage,
         ReceiveError, PumpDone, CheckDisconnect, TakeTask, HandlerReturns,
         RegisterConsumerHandler, UnregisterConsumerHandler, RequestStop,
         JoinDriver, PoolDone, vars, linkVars, poolVars, DropConnection
<1>2. epoch <= 1
  <2>1. epoch \in Nat
    BY DeliveryAssumption DEF PlaceInv, BaseInv, TypeOK
  <2> QED
    BY <1>1, <2>1
<1>3. CASE settled'[m] = settled[m]
  BY <1>1, <1>2, <1>3 DEF FirstSettledInv, SettledAsSaid
<1>4. CASE Settle /\ settled'[m] # settled[m]
  <2> DEFINE f == Head(outbound)
             known == {e \in Unsettled(f.d.consumer) : e.tag = f.d.tag}
  <2>1. m \in MessagesOf(known) /\ settled'[m] = f.action /\ f.action # "Requeue"
    BY <1>4 DEF Settle, PlaceInv, BaseInv, TypeOK
  <2>2. PICK e \in known : e.msg = m
    BY <2>1 DEF MessagesOf
  <2>3. e = f.d
    BY <1>2, <1>4, <2>2, SettlesItsOwn
  <2>4. <<f.d.msg, f.action>> \in said
    BY <1>4, <2>1, FirstFrame DEF SaidInv, PlaceInv
  <2> QED
    BY <1>1, <2>1, <2>2, <2>3, <2>4
<1>5. ASSUME NEW c \in Consumers, NEW n \in Messages, Deliver(c, n)
      PROVE  settled'[m] = settled[m]
  BY <1>5 DEF Deliver, PlaceInv, BaseInv, TypeOK
<1>6. \/ \E c \in Consumers, n \in Messages : Deliver(c, n)
      \/ Settle
      \/ UNCHANGED settled
  BY StepCases
     DEF LinkBreaks, SwapCommands, ThreadExits, RunCommand,
         DrainDone, Connect, NoConnection, StartConsumer, ReceiveMessage,
         ReceiveError, PumpDone, CheckDisconnect, TakeTask, HandlerReturns,
         RegisterConsumerHandler, UnregisterConsumerHandler, RequestStop,
         JoinDriver, PoolDone, vars, brokerVars, DropConnection
<1> QED
  BY <1>3, <1>4, <1>5, <1>6

(* As long as no reconnect has happened, the broker acknowledges or        *)
(* rejects only what a handler said so about. The driver gives up this     *)
(* guarantee with the first reconnect: see the run delivery_stale_tag.     *)
THEOREM FirstLinkSettlesAsSaid == Spec => [](epoch <= 1 => SettledAsSaid)
<1>1. Init => PlaceInv /\ SaidInv /\ FirstSettledInv
  <2>1. Init => SaidInv
    BY EmptyOccurs DEF Init, SaidInv
  <2>2. Init => FirstSettledInv
    BY DEF Init, FirstSettledInv, SettledAsSaid
  <2> QED
    BY <2>1, <2>2, InitPlaceInv
<1>2. PlaceInv /\ SaidInv /\ FirstSettledInv /\ [Next]_vars
        => (PlaceInv /\ SaidInv /\ FirstSettledInv)'
  BY NextPlaceInv, NextSaidInv, NextSettled DEF PlaceInv
<1> QED
  BY <1>1, <1>2, PTL DEF Spec, FirstSettledInv
-----------------------------------------------------------------------------
(* On the first connection what the client has not completed is among what *)
(* the broker waits for, which prefetch bounds.                            *)

(* The delivery is on its way to a handler, in it, or in the completion    *)
(* that the driver thread has not executed.                                *)
Pending(d) == InInbound(d) \/ InTasks(d) \/ InHandler(d) \/ InCommands(d)

Hand(c) == {d \in Delivery : d.consumer = c /\ d.epoch = epoch /\ Pending(d)}

(* A channel that is not open yet has brought nothing.                     *)
HandInv ==
  epoch <= 1 =>
    \A c \in Consumers \ AutoAck :
      /\ link = "up" /\ c \in serving => Hand(c) \subseteq Unsettled(c)
      /\ link = "up" /\ channel[c] = "none" => Hand(c) = {}

Bounded(S) == IsFiniteSet(S) /\ Cardinality(S) <= Prefetch

PrefetchInv ==
  epoch <= 1 /\ Prefetch # 0 =>
    \A c \in Consumers \ AutoAck : Bounded(Unsettled(c)) /\ Bounded(Hand(c))

LEMMA PendingSource ==
  ASSUME BaseInv, [Next]_vars, NEW d \in Delivery, Pending(d)',
         \A c \in Consumers, m \in Messages : Deliver(c, m) => d # Sent(c, m)
  PROVE  Pending(d)
<1>1. InInbound(d)' \/ InTasks(d)' \/ InHandler(d)' \/ InCommands(d)'
  BY DEF Pending
<1> USE DEF InboundGains, InboundLoses, TasksGain, TasksLose, HandlerGains,
            HandlerLoses, CommandsGain, CommandsLose, OutboundGains,
            OutboundLoses, Grows
<1>2. ASSUME NEW c \in Consumers, NEW m \in Messages, Deliver(c, m)
      PROVE  Pending(d)
  BY <1>1, <1>2, DeliverMoves DEF Pending
<1>3. CASE Settle BY <1>1, <1>3, SettleMoves DEF Pending
<1>4. CASE RunCommand BY <1>1, <1>4, RunCommandMoves DEF Pending
<1>5. CASE ReceiveMessage BY <1>1, <1>5, ReceiveMoves DEF Pending
<1>6. CASE ReceiveError BY <1>1, <1>6, ErrorMoves DEF Pending
<1>7. ASSUME NEW w \in Workers, TakeTask(w) PROVE Pending(d)
  BY <1>1, <1>7, TakeTaskMoves DEF Pending
<1>8. ASSUME NEW w \in Workers, NEW a \in Actions, HandlerReturns(w, a)
      PROVE  Pending(d)
  BY <1>1, <1>8, ReturnMoves DEF Pending
<1>9. CASE DropConnection /\ UNCHANGED <<commands, tasks, worker>>
  BY <1>1, <1>9, DropMoves DEF Pending
<1>10. CASE /\ InboundGains(d, FALSE) /\ TasksGain(d, FALSE)
            /\ HandlerGains(d, FALSE) /\ CommandsGain(d, FALSE)
            /\ OutboundGains(d, FALSE)
  BY <1>1, <1>10 DEF Pending
<1> QED
  BY <1>2, <1>3, <1>4, <1>5, <1>6, <1>7, <1>8, <1>9, <1>10, OtherMoves

(* Only Deliver adds to what is in hand of the connection.                 *)
LEMMA HandShrinks ==
  ASSUME BaseInv, [Next]_vars, epoch' = epoch, NEW c \in Consumers,
         \A m \in Messages : ~Deliver(c, m)
  PROVE  Hand(c)' \subseteq Hand(c)
<1> SUFFICES ASSUME NEW d \in Delivery, d.consumer = c, d.epoch = epoch, Pending(d)'
             PROVE  Pending(d)
  BY DEF Hand
<1>1. \A x \in Consumers, m \in Messages : Deliver(x, m) => d # Sent(x, m)
  BY DEF Sent
<1> QED
  BY <1>1, PendingSource

LEMMA HandGrows ==
  ASSUME BaseInv, NEW x \in Consumers, NEW m \in Messages, Deliver(x, m),
         NEW c \in Consumers
  PROVE  /\ Hand(c)' \subseteq Hand(c) \cup {Sent(x, m)}
         /\ x # c => Hand(c)' \subseteq Hand(c)
<1>1. epoch' = epoch
  BY DEF Deliver, linkVars
<1>2. ASSUME NEW d \in Delivery, d.consumer = c, d.epoch = epoch, Pending(d)',
             d # Sent(x, m)
      PROVE  Pending(d)
  BY <1>2, DeliverMoves
     DEF Pending, InboundGains, TasksGain, HandlerGains, CommandsGain, Grows
<1>3. Sent(x, m).consumer = x
  BY DEF Sent
<1> QED
  BY <1>1, <1>2, <1>3 DEF Hand

(* A new connection starts with nothing in hand.                           *)
LEMMA HandStartsEmpty ==
  ASSUME PlaceInv, Connect, NEW c \in Consumers
  PROVE  Hand(c)' = {}
<1> SUFFICES ASSUME NEW d \in Delivery, d.epoch = epoch', Pending(d)' PROVE FALSE
  BY DEF Hand
<1>1. [Next]_vars /\ \A x \in Consumers, m \in Messages : ~Deliver(x, m)
  <2>1. epoch \in Nat /\ epoch' = epoch + 1
    BY DeliveryAssumption DEF Connect, PlaceInv, BaseInv, TypeOK
  <2>2. epoch' # epoch
    BY <2>1
  <2> QED
    BY <2>2 DEF Next, DriverStep, Deliver
<1>2. Pending(d)
  BY <1>1, PendingSource DEF PlaceInv
<1>3. d.epoch <= epoch
  BY <1>2 DEF Pending, Held, Around, PlaceInv, NumberInv
<1>4. epoch \in Nat /\ epoch' = epoch + 1
  BY DeliveryAssumption DEF Connect, PlaceInv, BaseInv, TypeOK
<1> QED
  BY <1>3, <1>4

LEMMA NotDelivered ==
  ASSUME TypeOK, lastTag' = lastTag
  PROVE  \A c \in Consumers, m \in Messages : ~Deliver(c, m)
<1> SUFFICES ASSUME NEW c \in Consumers, NEW m \in Messages, Deliver(c, m)
             PROVE  FALSE
  OBVIOUS
<1>1. lastTag[c] \in Nat /\ lastTag'[c] = lastTag[c] + 1
  BY DeliveryAssumption DEF Deliver, TypeOK
<1> QED
  BY <1>1

LEMMA NextHandInv ==
  ASSUME PlaceInv, HandInv, [Next]_vars
  PROVE  HandInv'
<1> SUFFICES ASSUME epoch' <= 1, NEW c \in Consumers \ AutoAck, link' = "up"
             PROVE  /\ c \in serving' => Hand(c)' \subseteq Unsettled(c)'
                    /\ channel'[c] = "none" => Hand(c)' = {}
  BY DEF HandInv
<1> USE DEF brokerVars, linkVars, threadVars, poolVars
<1>0. TypeOK /\ BaseInv /\ epoch \in Nat
  BY DeliveryAssumption DEF PlaceInv, BaseInv, TypeOK
<1>1. CASE Connect
  BY <1>1, HandStartsEmpty
<1>2. ASSUME NEW x \in Consumers, NEW m \in Messages, Deliver(x, m)
      PROVE  /\ c \in serving' => Hand(c)' \subseteq Unsettled(c)'
             /\ channel'[c] = "none" => Hand(c)' = {}
  <2>1. /\ link = "up" /\ epoch <= 1 /\ serving' = serving /\ channel' = channel
        /\ x \in serving
    BY <1>2 DEF Deliver
  <2>2. outstanding \subseteq outstanding'
    BY <1>2 DEF Deliver
  <2>3. CASE x = c
    <3>1. outstanding' = outstanding \cup {Sent(c, m)} /\ Sent(c, m).consumer = c
      BY <1>2, <2>3 DEF Deliver, Sent
    <3>2. Hand(c)' \subseteq Hand(c) \cup {Sent(c, m)}
      BY <1>0, <1>2, <2>3, HandGrows
    <3>3. channel[c] = "open" /\ Hand(c) \subseteq Unsettled(c)
      BY <1>0, <2>1, <2>3 DEF HandInv, TypeOK
    <3> QED
      BY <2>1, <3>1, <3>2, <3>3 DEF Unsettled
  <2>4. CASE x # c
    <3>1. Hand(c)' \subseteq Hand(c)
      BY <1>0, <1>2, <2>4, HandGrows
    <3> QED
      BY <2>1, <2>2, <3>1 DEF HandInv, Unsettled
  <2> QED
    BY <2>3, <2>4
<1>3. ASSUME epoch' = epoch, lastTag' = lastTag
      PROVE  Hand(c)' \subseteq Hand(c)
  BY <1>0, <1>3, NotDelivered, HandShrinks
<1>4. CASE Settle
  <2> DEFINE f == Head(outbound)
             x == f.d.consumer
             known == {e \in Unsettled(x) : e.tag = f.d.tag}
  <2>1. /\ link = "up" /\ epoch' = epoch /\ channel' = channel
        /\ Hand(c)' \subseteq Hand(c)
    BY <1>3, <1>4 DEF Settle
  <2>2. channel'[c] = "none" => Hand(c)' = {}
    BY <2>1 DEF HandInv
  <2>3. ASSUME c \in serving', NEW d \in Hand(c)' PROVE d \in Unsettled(c)'
    <3>1. c \in serving
      BY <1>4, <2>3 DEF Settle
    <3>2. d \in Unsettled(c) /\ d \in Hand(c) /\ d \in Delivery
      BY <2>1, <2>3, <3>1 DEF HandInv, Hand
    <3>3. d \notin known
      <4> SUFFICES ASSUME d \in known PROVE FALSE
        OBVIOUS
      <4>1. d = f.d
        BY <1>4, <2>1, SettlesItsOwn
      <4>2. InOutbound(d)
        BY <1>0, <1>4, <4>1, FirstFrame
      <4>3. HeldOnce(d) /\ Pending(d)
        BY <3>2 DEF PlaceInv, OnceInv, Hand
      <4> QED
        BY <4>2, <4>3 DEF HeldOnce, Pending
    <3>4. \/ outstanding' = outstanding \ known
          \/ outstanding' = outstanding \ Unsettled(x) /\ x \notin serving'
          \/ outstanding' = outstanding
      BY <1>4 DEF Settle
    <3> QED
      BY <2>3, <3>2, <3>3, <3>4 DEF Unsettled
  <2> QED
    BY <2>2, <2>3
<1>5. ASSUME NEW x \in Consumers, StartConsumer(x)
      PROVE  /\ c \in serving' => Hand(c)' \subseteq Unsettled(c)'
             /\ channel'[c] = "none" => Hand(c)' = {}
  <2>1. /\ link = "up" /\ epoch <= 1 /\ outstanding' = outstanding
        /\ Hand(c)' \subseteq Hand(c)
        /\ channel[x] = "none" /\ serving' = serving \cup {x}
        /\ channel' = [channel EXCEPT ![x] = "open"]
    BY <1>3, <1>5 DEF StartConsumer
  <2>2. CASE x = c
    BY <1>0, <2>1, <2>2 DEF HandInv, TypeOK
  <2>3. CASE x # c
    <3>1. channel'[c] = channel[c] /\ (c \in serving' <=> c \in serving)
      BY <1>0, <2>1, <2>3 DEF TypeOK
    <3> QED
      BY <2>1, <3>1 DEF HandInv, Unsettled
  <2> QED
    BY <2>2, <2>3
<1>6. CASE /\ UNCHANGED <<link, epoch, lastTag, serving, outstanding>>
           /\ channel'[c] = "none" => channel[c] = "none"
  <2>1. Hand(c)' \subseteq Hand(c)
    BY <1>3, <1>6
  <2> QED
    BY <1>6, <2>1 DEF HandInv, Unsettled
<1>7. ReceiveError => /\ UNCHANGED <<link, epoch, lastTag, serving, outstanding>>
                      /\ channel'[c] = "none" => channel[c] = "none"
  BY <1>0 DEF ReceiveError, TypeOK
<1>8. \/ \E x \in Consumers, m \in Messages : Deliver(x, m)
      \/ Settle \/ Connect \/ \E x \in Consumers : StartConsumer(x)
      \/ ReceiveError
      \/ UNCHANGED <<link, epoch, lastTag, serving, outstanding, channel>>
  BY StepCases
     DEF LinkBreaks, SwapCommands, ThreadExits, RunCommand, DrainDone,
         NoConnection, ReceiveMessage, PumpDone, CheckDisconnect, TakeTask,
         HandlerReturns, RegisterConsumerHandler, UnregisterConsumerHandler,
         RequestStop, JoinDriver, PoolDone, vars, DropConnection
<1> QED
  BY <1>1, <1>2, <1>4, <1>5, <1>6, <1>7, <1>8

LEMMA BoundedSubset ==
  ASSUME NEW S, NEW T, Bounded(S), T \subseteq S
  PROVE  Bounded(T)
<1>1. IsFiniteSet(T) /\ Cardinality(T) <= Cardinality(S)
  BY FS_Subset DEF Bounded
<1>2. Cardinality(T) \in Nat /\ Cardinality(S) \in Nat /\ Prefetch \in Nat
  BY <1>1, FS_CardinalityType, DeliveryAssumption DEF Bounded
<1> QED
  BY <1>1, <1>2 DEF Bounded

LEMMA NextPrefetchInv ==
  ASSUME PlaceInv, HandInv, HandInv', PrefetchInv, [Next]_vars
  PROVE  PrefetchInv'
<1> SUFFICES ASSUME epoch' <= 1, Prefetch # 0, NEW c \in Consumers \ AutoAck
             PROVE  Bounded(Unsettled(c))' /\ Bounded(Hand(c))'
  BY DEF PrefetchInv
<1> USE DEF brokerVars, linkVars, threadVars, poolVars
<1>0. TypeOK /\ BaseInv /\ epoch \in Nat
  BY DeliveryAssumption DEF PlaceInv, BaseInv, TypeOK
<1>1. epoch <= 1
  <2>1. epoch' = epoch \/ epoch' = epoch + 1
    BY StepCases
       DEF Deliver, Settle, LinkBreaks, SwapCommands, ThreadExits, RunCommand,
           DrainDone, Connect, NoConnection, StartConsumer, ReceiveMessage,
           ReceiveError, PumpDone, CheckDisconnect, TakeTask, HandlerReturns,
           RegisterConsumerHandler, UnregisterConsumerHandler, RequestStop,
           JoinDriver, PoolDone, vars, DropConnection
  <2> QED
    BY <1>0, <2>1
<1>2. Bounded(Unsettled(c)) /\ Bounded(Hand(c))
  BY <1>1 DEF PrefetchInv
<1>3. ASSUME NEW m \in Messages, Deliver(c, m)
      PROVE  Bounded(Unsettled(c))' /\ Bounded(Hand(c))'
  <2>1. /\ Unsettled(c)' = Unsettled(c) \cup {Sent(c, m)}
        /\ Cardinality(Unsettled(c)) < Prefetch
        /\ link' = "up" /\ c \in serving'
    BY <1>3 DEF Deliver, Unsettled, Sent
  <2>2. /\ IsFiniteSet(Unsettled(c) \cup {Sent(c, m)})
        /\ Cardinality(Unsettled(c) \cup {Sent(c, m)}) <= Cardinality(Unsettled(c)) + 1
        /\ Cardinality(Unsettled(c)) \in Nat
    <3>1. IsFiniteSet(Unsettled(c)) /\ Cardinality(Unsettled(c)) \in Nat
      BY <1>2, FS_CardinalityType DEF Bounded
    <3>2. /\ IsFiniteSet(Unsettled(c) \cup {Sent(c, m)})
          /\ \/ Cardinality(Unsettled(c) \cup {Sent(c, m)}) = Cardinality(Unsettled(c))
             \/ Cardinality(Unsettled(c) \cup {Sent(c, m)}) = Cardinality(Unsettled(c)) + 1
      BY <3>1, FS_AddElement
    <3> QED
      BY <3>1, <3>2
  <2>3. Bounded(Unsettled(c) \cup {Sent(c, m)})
    <3>1. Cardinality(Unsettled(c) \cup {Sent(c, m)}) \in Nat
      BY <2>2, FS_CardinalityType
    <3> QED
      BY <2>1, <2>2, <3>1, DeliveryAssumption DEF Bounded
  <2>4. Hand(c)' \subseteq Unsettled(c)'
    BY <2>1 DEF HandInv
  <2> QED
    BY <2>1, <2>3, <2>4, BoundedSubset DEF Bounded
<1>4. CASE \A m \in Messages : ~Deliver(c, m)
  <2>1. Unsettled(c)' \subseteq Unsettled(c)
    <3>1. \A x \in Consumers, m \in Messages : Deliver(x, m) => Sent(x, m).consumer # c
      BY <1>4 DEF Sent
    <3> QED
      BY <3>1, OutstandingSource DEF Unsettled
  <2>2. Hand(c)' \subseteq Hand(c)
    <3>1. CASE epoch' = epoch
      BY <1>0, <1>4, <3>1, HandShrinks
    <3>2. CASE Connect
      BY <3>2, HandStartsEmpty
    <3>3. epoch' = epoch \/ Connect
      BY StepCases
         DEF Deliver, Settle, LinkBreaks, SwapCommands, ThreadExits, RunCommand,
             DrainDone, NoConnection, StartConsumer, ReceiveMessage,
             ReceiveError, PumpDone, CheckDisconnect, TakeTask, HandlerReturns,
             RegisterConsumerHandler, UnregisterConsumerHandler, RequestStop,
             JoinDriver, PoolDone, vars, DropConnection
    <3> QED
      BY <3>1, <3>2, <3>3
  <2>3. Bounded(Unsettled(c)') /\ Bounded(Hand(c)')
    BY <1>2, <2>1, <2>2, BoundedSubset
  <2> QED
    BY <2>3 DEF Bounded
<1> QED
  BY <1>3, <1>4

(* What the pool has in hand of a consumer are as many deliveries.         *)
LEMMA HandCoversPool ==
  ASSUME PlaceInv, NEW c \in Consumers, IsFiniteSet(Hand(c))
  PROVE  IsFiniteSet(InHand(c)) /\ Cardinality(InHand(c)) <= Cardinality(Hand(c))
<1> DEFINE T == {i \in DOMAIN tasks : tasks[i].d.consumer = c /\ tasks[i].d.epoch = epoch}
           W == {w \in Workers : /\ worker[w] # Idle
                                 /\ worker[w].d.consumer = c
                                 /\ worker[w].d.epoch = epoch}
           P == {<<"task", i>> : i \in T} \cup {<<"worker", w>> : w \in W}
           about == [h \in P |-> IF h[1] = "task" THEN tasks[h[2]].d ELSE worker[h[2]].d]
<1>1. InHand(c) = P
  BY DEF InHand, Positions
<1>2. ASSUME NEW i \in T
      PROVE  /\ tasks[i].d \in Hand(c) /\ InTasks(tasks[i].d)
             /\ tasks[i] \in TaskWith(tasks[i].d)
  <2>1. tasks[i] \in Task
    BY <1>2, LenProperties, ElementOfSeq DEF PlaceInv, BaseInv, TypeOK
  <2>2. tasks[i].d \in Delivery /\ tasks[i] \in TaskWith(tasks[i].d)
    BY <2>1 DEF Task, TaskWith
  <2>3. InTasks(tasks[i].d)
    BY <1>2, <2>2 DEF InTasks, Occurs
  <2> QED
    BY <1>2, <2>2, <2>3 DEF Hand, Pending
<1>3. ASSUME NEW w \in W
      PROVE  /\ worker[w].d \in Hand(c)
             /\ \/ Handles(w, worker[w].d)
                \/ \E i \in DOMAIN commands : /\ commands[i].by = w
                                              /\ commands[i] \in CommandWith(worker[w].d)
  <2>1. /\ worker[w].at \in {"handler", "waiting"} /\ worker[w].d \in Delivery
    BY <1>3, WorkerCases DEF PlaceInv, BaseInv, TypeOK
  <2>2. CASE worker[w].at = "handler"
    BY <1>3, <2>1, <2>2 DEF Hand, Pending, InHandler, Handles
  <2>3. CASE worker[w].at = "waiting"
    <3>1. PICK i \in DOMAIN commands : commands[i] \in CommandBy(w)
      BY <2>3 DEF PlaceInv, BaseInv, CallerInv, Occurs
    <3>2. commands[i] \in Command /\ commands[i].by = w
      BY <3>1 DEF CommandBy
    <3>3. Occurs(commands, {commands[i]}) /\ commands[i].by # Driver
      BY <3>2, DeliveryAssumption DEF Occurs
    <3>4. worker[w].d = commands[i].d
      BY <3>2, <3>3 DEF PlaceInv, BaseInv, CallerInv
    <3>5. commands[i] \in CommandWith(worker[w].d)
      BY <3>2, <3>4 DEF CommandWith
    <3> QED
      BY <1>3, <2>1, <3>2, <3>5 DEF Hand, Pending, InCommands, Occurs
  <2> QED
    BY <2>1, <2>2, <2>3
<1>4. \A d \in Hand(c) : d \in Delivery /\ HeldOnce(d)
  BY DEF Hand, PlaceInv, OnceInv
<1>5. ASSUME NEW i \in T, NEW j \in T, tasks[i].d = tasks[j].d PROVE i = j
  BY <1>2, <1>4, <1>5 DEF HeldOnce, OnceTasks, AtMostOnce
<1>6. ASSUME NEW i \in T, NEW w \in W PROVE tasks[i].d # worker[w].d
  BY <1>2, <1>3, <1>4 DEF HeldOnce, InHandler, InCommands, Occurs
<1>7. ASSUME NEW v \in W, NEW w \in W, worker[v].d = worker[w].d PROVE v = w
  <2>1. HeldOnce(worker[w].d)
    BY <1>3, <1>4
  <2>2. CASE Handles(v, worker[w].d) /\ Handles(w, worker[w].d)
    BY <2>1, <2>2 DEF HeldOnce, OnceHandler
  <2>3. CASE InHandler(worker[w].d) /\ ~(Handles(v, worker[w].d) /\ Handles(w, worker[w].d))
    BY <1>3, <1>7, <2>1, <2>3 DEF HeldOnce, InCommands, Occurs
  <2>4. CASE ~InHandler(worker[w].d)
    BY <1>3, <1>7, <2>1, <2>4 DEF HeldOnce, OnceCommands, AtMostOnce, InHandler
  <2> QED
    BY <2>2, <2>3, <2>4 DEF InHandler
<1> HIDE DEF T, W
<1>8. about \in [P -> Hand(c)]
  BY <1>2, <1>3
<1>9. ASSUME NEW g \in P, NEW h \in P, about[g] = about[h] PROVE g = h
  BY <1>5, <1>6, <1>7, <1>9
<1> HIDE DEF P, about
<1>10. about \in Injection(P, Hand(c))
  BY <1>8, <1>9 DEF Injection, IsInjective
<1> QED
  BY <1>1, <1>10, FS_Injection

(* As long as no reconnect has happened, the pool never has more of a      *)
(* consumer in hand, queued or with a worker, than its prefetch count.     *)
THEOREM FirstLinkPrefetchBoundsPool == Spec => [](epoch <= 1 => PrefetchBoundsPool)
<1>1. Init => PlaceInv /\ HandInv /\ PrefetchInv
  <2> SUFFICES ASSUME Init PROVE PlaceInv /\ HandInv /\ PrefetchInv
    OBVIOUS
  <2>1. PlaceInv
    BY InitPlaceInv
  <2>2. \A c \in Consumers : Hand(c) = {} /\ Unsettled(c) = {}
    <3>1. epoch = 0 /\ outstanding = {}
      BY DEF Init
    <3>2. \A d \in Delivery : d.epoch # 0
      BY DeliveryAssumption DEF Delivery
    <3> QED
      BY <3>1, <3>2 DEF Hand, Unsettled
  <2>3. Bounded({})
    BY FS_EmptySet, DeliveryAssumption DEF Bounded
  <2> QED
    BY <2>1, <2>2, <2>3 DEF HandInv, PrefetchInv
<1>2. PlaceInv /\ HandInv /\ PrefetchInv /\ [Next]_vars
        => (PlaceInv /\ HandInv /\ PrefetchInv)'
  BY NextPlaceInv, NextHandInv, NextPrefetchInv
<1>3. PlaceInv /\ PrefetchInv => (epoch <= 1 => PrefetchBoundsPool)
  <2> SUFFICES ASSUME PlaceInv, PrefetchInv, epoch <= 1, Prefetch # 0,
                      NEW c \in Consumers \ AutoAck
               PROVE  Cardinality(InHand(c)) <= Prefetch
    BY DEF PrefetchBoundsPool
  <2>1. Bounded(Hand(c))
    BY DEF PrefetchInv
  <2>2. Cardinality(InHand(c)) <= Cardinality(Hand(c)) /\ IsFiniteSet(InHand(c))
    BY <2>1, HandCoversPool DEF Bounded
  <2>3. Cardinality(InHand(c)) \in Nat /\ Cardinality(Hand(c)) \in Nat /\ Prefetch \in Nat
    BY <2>1, <2>2, FS_CardinalityType, DeliveryAssumption DEF Bounded
  <2> QED
    BY <2>1, <2>2, <2>3 DEF Bounded
<1> QED
  BY <1>1, <1>2, <1>3, PTL DEF Spec

-----------------------------------------------------------------------------
(* The first connection implements MessageService.                         *)

(* Each message is in one place of the broker: its queue, one delivery, or *)
(* settled.                                                                *)
MessageInv ==
  /\ \A m \in queued : settled[m] = "no"
  /\ \A d \in outstanding : settled[d.msg] = "no" /\ d.msg \notin queued
  /\ \A d, e \in outstanding : d.msg = e.msg => d = e
  /\ \A m \in Messages :
       settled[m] = "no" /\ m \notin queued => \E d \in outstanding : d.msg = m

(* Nothing is said of what is acknowledged automatically.                  *)
ManualInv ==
  \A d \in Delivery : d.consumer \in AutoAck => ~InCommands(d) /\ ~InOutbound(d)

(* On the first connection the broker closes no channel, since what the    *)
(* client holds is still to be settled.                                    *)
FirstLinkInv ==
  epoch <= 1 =>
    /\ ~Occurs(inbound, Frame \ Delivery)
    /\ link = "up" => \A d \in Delivery :
                        Held(d) /\ d.consumer \notin AutoAck => d \in outstanding

ServiceInv == PlaceInv /\ MessageInv /\ ManualInv /\ FirstLinkInv

LEMMA InitServiceInv == Init => ServiceInv
<1> SUFFICES ASSUME Init PROVE ServiceInv
  OBVIOUS
<1>1. \A X : /\ ~Occurs(inbound, X) /\ ~Occurs(tasks, X)
             /\ ~Occurs(commands, X) /\ ~Occurs(outbound, X)
  BY EmptyOccurs DEF Init
<1>2. MessageInv /\ link # "up"
  BY DEF Init, MessageInv
<1> QED
  BY <1>1, <1>2, InitPlaceInv
     DEF ServiceInv, ManualInv, FirstLinkInv, InCommands, InOutbound

(* A step moves messages between the broker's places only so.              *)
LEMMA NextMessageInv ==
  ASSUME TypeOK, MessageInv, [Next]_vars
  PROVE  MessageInv'
<1> USE DEF brokerVars
<1>1. CASE UNCHANGED <<queued, outstanding, settled>>
  BY <1>1 DEF MessageInv
<1>2. CASE RequeueAll /\ UNCHANGED settled
  BY <1>2 DEF RequeueAll, MessagesOf, MessageInv
<1>3. ASSUME NEW c \in Consumers, NEW m \in Messages, Deliver(c, m)
      PROVE  MessageInv'
  <2>1. queued' = queued \ {m} /\ settled[m] = "no" /\ \A d \in outstanding : d.msg # m
    BY <1>3 DEF Deliver, MessageInv
  <2>2. CASE c \in AutoAck
    <3>1. outstanding' = outstanding /\ settled' = [settled EXCEPT ![m] = "auto"]
      BY <1>3, <2>2 DEF Deliver
    <3>2. \A n \in Messages : settled'[n] = IF n = m THEN "auto" ELSE settled[n]
      BY <3>1 DEF TypeOK
    <3>3. queued \subseteq Messages /\ \A d \in outstanding : d.msg \in Messages
      BY DEF TypeOK, Delivery
    <3> QED
      BY <2>1, <3>1, <3>2, <3>3 DEF MessageInv
  <2>3. CASE c \notin AutoAck
    <3>1. outstanding' = outstanding \cup {Sent(c, m)} /\ settled' = settled
      BY <1>3, <2>3 DEF Deliver, Sent
    <3>2. Sent(c, m).msg = m
      BY DEF Sent
    <3> HIDE DEF Sent
    <3> QED
      BY <2>1, <3>1, <3>2 DEF MessageInv
  <2> QED
    BY <2>2, <2>3
<1>4. CASE Settle
  <2> DEFINE f == Head(outbound)
             K == {d \in Unsettled(f.d.consumer) : d.tag = f.d.tag}
             U == Unsettled(f.d.consumer)
  <2>1. /\ K \subseteq outstanding /\ U \subseteq outstanding
        /\ queued \subseteq Messages /\ \A d \in outstanding : d.msg \in Messages
    BY DEF Unsettled, TypeOK, Delivery
  <2>2. \/ /\ outstanding' = outstanding \ K
           /\ queued' = queued \cup MessagesOf(K) /\ settled' = settled
        \/ /\ outstanding' = outstanding \ K
           /\ settled' = [m \in Messages |-> IF m \in MessagesOf(K) THEN f.action
                                                                    ELSE settled[m]]
           /\ f.action # "no" /\ queued' = queued
        \/ /\ outstanding' = outstanding \ U
           /\ queued' = queued \cup MessagesOf(U) /\ settled' = settled
        \/ UNCHANGED <<queued, outstanding, settled>>
    <3>1. f.action # "no"
      <4>1. outbound \in Seq(Settlement) /\ outbound # <<>>
        BY <1>4 DEF Settle, TypeOK
      <4>2. f \in Settlement
        BY <4>1, HeadTailProperties
      <4> QED
        BY <4>2 DEF Settlement, Actions
    <3> HIDE DEF f
    <3> QED
      BY <1>4, <3>1 DEF Settle, f
  <2> HIDE DEF f, K, U
  <2>3. ASSUME NEW S, S \subseteq outstanding, outstanding' = outstanding \ S,
               queued' = queued \cup MessagesOf(S), settled' = settled
        PROVE  MessageInv'
    BY <2>3, <2>1 DEF MessageInv, MessagesOf
  <2>4. ASSUME outstanding' = outstanding \ K, queued' = queued, f.action # "no",
               settled' = [m \in Messages |-> IF m \in MessagesOf(K) THEN f.action
                                                                     ELSE settled[m]]
        PROVE  MessageInv'
    BY <2>1, <2>4 DEF MessageInv, MessagesOf
  <2> QED
    BY <1>1, <2>1, <2>2, <2>3, <2>4
<1>5. \/ \E c \in Consumers, m \in Messages : Deliver(c, m)
      \/ Settle
      \/ RequeueAll /\ UNCHANGED settled
      \/ UNCHANGED <<queued, outstanding, settled>>
  BY StepCases
     DEF LinkBreaks, SwapCommands, ThreadExits, RunCommand, DrainDone, Connect,
         NoConnection, StartConsumer, ReceiveMessage, ReceiveError, PumpDone,
         CheckDisconnect, TakeTask, HandlerReturns, RegisterConsumerHandler,
         UnregisterConsumerHandler, RequestStop, JoinDriver, PoolDone, vars,
         DropConnection
<1> QED
  BY <1>1, <1>2, <1>3, <1>4, <1>5

LEMMA NextManualInv ==
  ASSUME BaseInv, ManualInv, [Next]_vars
  PROVE  ManualInv'
<1> SUFFICES ASSUME NEW d \in Delivery, d.consumer \in AutoAck
             PROVE  ~InCommands(d)' /\ ~InOutbound(d)'
  BY DEF ManualInv, Delivery
<1>0. ~InCommands(d) /\ ~InOutbound(d)
  BY DEF ManualInv
<1> USE DEF InboundGains, InboundLoses, TasksGain, TasksLose, HandlerGains,
            HandlerLoses, CommandsGain, CommandsLose, OutboundGains,
            OutboundLoses, Grows
<1>2. ASSUME NEW c \in Consumers, NEW m \in Messages, Deliver(c, m)
      PROVE  ~InCommands(d)' /\ ~InOutbound(d)'
  BY <1>0, <1>2, DeliverMoves
<1>3. CASE Settle BY <1>0, <1>3, SettleMoves
<1>4. CASE RunCommand BY <1>0, <1>4, RunCommandMoves
<1>5. CASE ReceiveMessage
  <2>1. CASE d = Head(inbound)
    <3>1. UNCHANGED <<commands, outbound>>
      BY <1>5, <2>1 DEF ReceiveMessage, Submit, threadVars
    <3> QED
      BY <1>0, <3>1, Kept
  <2>2. CASE d # Head(inbound)
    BY <1>0, <1>5, <2>2, ReceiveMoves
  <2> QED
    BY <2>1, <2>2
<1>6. CASE ReceiveError BY <1>0, <1>6, ErrorMoves
<1>7. ASSUME NEW w \in Workers, TakeTask(w)
      PROVE  ~InCommands(d)' /\ ~InOutbound(d)'
  BY <1>0, <1>7, TakeTaskMoves
<1>8. ASSUME NEW w \in Workers, NEW a \in Actions, HandlerReturns(w, a)
      PROVE  ~InCommands(d)' /\ ~InOutbound(d)'
  BY <1>0, <1>8, ReturnMoves
<1>9. CASE DropConnection /\ UNCHANGED <<commands, tasks, worker>>
  BY <1>0, <1>9, DropMoves
<1>10. CASE /\ InboundGains(d, FALSE) /\ TasksGain(d, FALSE)
            /\ HandlerGains(d, FALSE) /\ CommandsGain(d, FALSE)
            /\ OutboundGains(d, FALSE)
  BY <1>0, <1>10
<1> QED
  BY <1>2, <1>3, <1>4, <1>5, <1>6, <1>7, <1>8, <1>9, <1>10, OtherMoves

(* What a frame of the first connection says, it says of a delivery the    *)
(* broker knows by its tag, and of no other.                               *)
LEMMA FirstLinkKnows ==
  ASSUME ServiceInv, epoch <= 1, Settle
  PROVE  /\ Head(outbound).d \in outstanding
         /\ Head(outbound).d.consumer \in serving
         /\ {e \in Unsettled(Head(outbound).d.consumer) : e.tag = Head(outbound).d.tag}
              = {Head(outbound).d}
<1> DEFINE d == Head(outbound).d
<1>1. d \in Delivery /\ InOutbound(d)
  BY FirstFrame DEF ServiceInv, PlaceInv
<1>2. d \in outstanding
  BY <1>1 DEF ServiceInv, ManualInv, FirstLinkInv, Held, Settle
<1>3. d.consumer \in serving
  BY <1>2 DEF ServiceInv, PlaceInv, BaseInv, LinkInv
<1>4. d \in Unsettled(d.consumer)
  BY <1>2 DEF Unsettled
<1>5. \A e \in Unsettled(d.consumer) : e.tag = d.tag => e = d
  BY SettlesItsOwn DEF ServiceInv
<1> QED
  BY <1>2, <1>3, <1>4, <1>5

(* The frame that the broker settles was the only place of its delivery.   *)
LEMMA SettledIsGone ==
  ASSUME ServiceInv, Settle, NEW d \in Delivery, d = Head(outbound).d
  PROVE  ~Held(d)'
<1>1. InOutbound(d) /\ HeldOnce(d)
  BY FirstFrame DEF ServiceInv, PlaceInv, OnceInv
<1>2. /\ OutboundLoses(d, d = Head(outbound).d)
      /\ InboundGains(d, FALSE) /\ TasksGain(d, FALSE)
      /\ HandlerGains(d, FALSE) /\ CommandsGain(d, FALSE)
  BY SettleMoves DEF ServiceInv, PlaceInv
<1> QED
  BY <1>1, <1>2
     DEF Held, HeldOnce, OutboundLoses, InboundGains, TasksGain, HandlerGains,
         CommandsGain, Grows

LEMMA NextFirstLinkInv ==
  ASSUME ServiceInv, [Next]_vars
  PROVE  FirstLinkInv'
<1> DEFINE Closed == Frame \ Delivery
<1>0. /\ TypeOK /\ BaseInv /\ PlaceInv /\ inbound \in Seq(Frame) /\ epoch \in Nat
      /\ Closed' = Closed
  BY DeliveryAssumption DEF ServiceInv, PlaceInv, BaseInv, TypeOK
<1> SUFFICES ASSUME epoch' <= 1
             PROVE  /\ ~Occurs(inbound', Closed)
                    /\ link' = "up" => \A d \in Delivery :
                         Held(d)' /\ d.consumer \notin AutoAck => d \in outstanding'
  <2>1. FirstLinkInv' <=>
          (epoch' <= 1 =>
             /\ ~Occurs(inbound', Closed')
             /\ link' = "up" => \A d \in Delivery :
                   Held(d)' /\ d.consumer \notin AutoAck => d \in outstanding')
    BY DEF FirstLinkInv, Delivery
  <2> HIDE DEF Closed
  <2> QED
    BY <1>0, <2>1
<1> USE DEF brokerVars, linkVars, threadVars, poolVars
<1>1. epoch' = epoch \/ (Connect /\ epoch' = epoch + 1)
  BY StepCases
     DEF Deliver, Settle, LinkBreaks, SwapCommands, ThreadExits, RunCommand,
         DrainDone, Connect, NoConnection, StartConsumer, ReceiveMessage,
         ReceiveError, PumpDone, CheckDisconnect, TakeTask, HandlerReturns,
         RegisterConsumerHandler, UnregisterConsumerHandler, RequestStop,
         JoinDriver, PoolDone, vars, DropConnection
<1>2. epoch <= 1
  BY <1>0, <1>1
<1>3. ~Occurs(inbound, Closed)
  BY <1>2 DEF ServiceInv, FirstLinkInv
<1>4. \A d \in Delivery : link = "up" /\ Held(d) /\ d.consumer \notin AutoAck => d \in outstanding
  BY <1>2 DEF ServiceInv, FirstLinkInv
<1> HIDE DEF Closed
<1>5. CASE Settle
  <2> DEFINE d == Head(outbound).d
  <2>1. /\ d \in outstanding /\ d.consumer \in serving
        /\ {e \in Unsettled(d.consumer) : e.tag = d.tag} = {d}
    BY <1>2, <1>5, FirstLinkKnows
  <2>2. inbound' = inbound /\ outstanding' = outstanding \ {d} /\ link = "up"
    BY <1>5, <2>1 DEF Settle
  <2>3. ASSUME NEW e \in Delivery, Held(e)', e.consumer \notin AutoAck
        PROVE  e \in outstanding'
    <3>1. e # d
      <4> SUFFICES ASSUME e = Head(outbound).d PROVE FALSE
        OBVIOUS
      <4> QED
        BY <1>5, <2>3, SettledIsGone
    <3>2. Held(e)
      <4>1. \A c \in Consumers, m \in Messages : ~Deliver(c, m)
        <5>1. lastTag' = lastTag
          BY <1>5 DEF Settle
        <5> QED
          BY <1>0, <5>1, NotDelivered
      <4> QED
        BY <1>0, <2>3, <4>1, HeldSource
    <3> QED
      BY <1>4, <2>2, <2>3, <3>1, <3>2
  <2> QED
    BY <1>3, <2>2, <2>3
<1>6. ASSUME NEW c \in Consumers, NEW m \in Messages, Deliver(c, m)
      PROVE  /\ ~Occurs(inbound', Closed)
             /\ \A d \in Delivery :
                  Held(d)' /\ d.consumer \notin AutoAck => d \in outstanding'
  <2> DEFINE s == Sent(c, m)
  <2>1. /\ s \in Delivery /\ s.consumer = c /\ inbound' = Append(inbound, s)
        /\ outstanding' = IF c \in AutoAck THEN outstanding ELSE outstanding \cup {s}
        /\ link = "up"
    <3>1. s \in Delivery /\ s.consumer = c
      <4>1. s \in Delivery
        BY <1>0, <1>6, SentType DEF BaseInv
      <4> QED
        BY <4>1 DEF Sent
    <3>2. s = [consumer |-> c, tag |-> lastTag[c] + 1, msg |-> m, epoch |-> epoch]
      BY DEF Sent
    <3> HIDE DEF s
    <3> QED
      BY <1>6, <3>1, <3>2 DEF Deliver
  <2>2. s \in Frame /\ s \notin Closed
    BY <2>1, FrameCases DEF Closed
  <2> HIDE DEF s
  <2>3. ~Occurs(inbound', Closed)
    BY <1>0, <1>3, <2>1, <2>2, AppendOccurs
  <2>4. ASSUME NEW d \in Delivery, Held(d)', d.consumer \notin AutoAck
        PROVE  d \in outstanding'
    <3>1. Around(d) \/ d = s
      BY <1>0, <1>6, <2>4, DeliverSource DEF Around, s
    <3> QED
      BY <1>4, <2>1, <2>4, <3>1 DEF Around
  <2> QED
    BY <2>3, <2>4
<1>7. CASE Connect
  <2>1. epoch = 0 /\ inbound' = inbound
    BY <1>0, <1>7 DEF Connect
  <2>2. ASSUME NEW d \in Delivery, Held(d)' PROVE FALSE
    <3>1. Held(d)
      <4>1. \A c \in Consumers, m \in Messages : ~Deliver(c, m)
        <5>1. epoch' # epoch
          BY <1>0, <1>7 DEF Connect
        <5> QED
          BY <5>1 DEF Deliver
      <4> QED
        BY <1>0, <2>2, <4>1, HeldSource
    <3>2. d.epoch <= epoch
      BY <1>0, <3>1 DEF PlaceInv, NumberInv, Around
    <3>3. d.epoch \in 1 .. MaxLinks /\ MaxLinks \in Nat
      BY DeliveryAssumption DEF Delivery
    <3> QED
      BY <2>1, <3>2, <3>3
  <2> QED
    BY <1>3, <2>1, <2>2
<1>8. ASSUME outstanding' = outstanding, link' = link, lastTag' = lastTag,
             inbound' = inbound \/ (inbound # <<>> /\ inbound' = Tail(inbound))
      PROVE  /\ ~Occurs(inbound', Closed)
             /\ link' = "up" => \A d \in Delivery :
                  Held(d)' /\ d.consumer \notin AutoAck => d \in outstanding'
  <2>1. ~Occurs(inbound', Closed)
    BY <1>0, <1>3, <1>8, TailOccurs
  <2>2. \A d \in Delivery : Held(d)' => Held(d)
    BY <1>0, <1>8, NotDelivered, HeldSource
  <2> QED
    BY <1>4, <1>8, <2>1, <2>2
<1>9. CASE LinkBreaks
  BY <1>3, <1>9 DEF LinkBreaks
<1>10. CASE DropConnection
  <2>1. ~Occurs(<<>>, Closed)
    BY EmptyOccurs
  <2> QED
    BY <1>10, <2>1 DEF DropConnection
<1>11. \/ \E c \in Consumers, m \in Messages : Deliver(c, m)
       \/ Settle \/ LinkBreaks \/ Connect \/ DropConnection
       \/ /\ UNCHANGED <<outstanding, link, lastTag>>
          /\ inbound' = inbound \/ (inbound # <<>> /\ inbound' = Tail(inbound))
  BY StepCases
     DEF SwapCommands, ThreadExits, RunCommand, DrainDone,
         NoConnection, StartConsumer, ReceiveMessage, ReceiveError, PumpDone,
         CheckDisconnect, TakeTask, HandlerReturns, RegisterConsumerHandler,
         UnregisterConsumerHandler, RequestStop, JoinDriver, PoolDone, vars
<1> QED
  BY <1>5, <1>6, <1>7, <1>8, <1>9, <1>10, <1>11

LEMMA ServiceInvHolds == Spec => []ServiceInv
<1>1. ServiceInv /\ [Next]_vars => ServiceInv'
  BY NextPlaceInv, NextMessageInv, NextManualInv, NextFirstLinkInv
     DEF ServiceInv, PlaceInv, BaseInv
<1> QED
  BY <1>1, InitServiceInv, PTL DEF Spec

-----------------------------------------------------------------------------
(* What is said of a delivery, by the commands and frames under way.       *)
CommandSaying(d, a) == {k \in Command : k.d = d /\ k.action = a}
FrameSaying(d, a) == {f \in Settlement : f.d = d /\ f.action = a}
SaysIn(cs, fs, d, a) ==
  Occurs(cs, CommandSaying(d, a)) \/ Occurs(fs, FrameSaying(d, a))
Says(d, a) == SaysIn(commands, outbound, d, a)

WordsIn(cs, fs, D, m) ==
  {x.action : x \in {y \in Range(cs) \cup Range(fs) : y.d \in D /\ y.d.msg = m}}

LEMMA WordsInAre ==
  ASSUME NEW cs \in Seq(Command), NEW fs \in Seq(Settlement), NEW D, NEW m
  PROVE  WordsIn(cs, fs, D, m)
           = {a \in Actions : \E d \in D : d.msg = m /\ SaysIn(cs, fs, d, a)}
<1> DEFINE X == {y \in Range(cs) \cup Range(fs) : y.d \in D /\ y.d.msg = m}
<1>1. /\ \A k \in Range(cs) : k \in Command
      /\ \A f \in Range(fs) : f \in Settlement
  BY ElementOfSeq DEF Range
<1>2. ASSUME NEW x \in X
      PROVE  /\ x.action \in Actions /\ x.d \in D /\ x.d.msg = m
             /\ SaysIn(cs, fs, x.d, x.action)
  BY <1>1 DEF SaysIn, Occurs, CommandSaying, FrameSaying, Range, Command, Settlement
<1>3. ASSUME NEW a \in Actions, NEW d \in D, d.msg = m, SaysIn(cs, fs, d, a)
      PROVE  \E x \in X : x.action = a
  BY <1>3 DEF SaysIn, Occurs, CommandSaying, FrameSaying, Range
<1> HIDE DEF X
<1>4. {x.action : x \in X} = {a \in Actions : \E d \in D : d.msg = m /\ SaysIn(cs, fs, d, a)}
  BY <1>2, <1>3
<1> QED
  BY <1>4 DEF X, WordsIn

LEMMA WordsAre ==
  ASSUME TypeOK
  PROVE  /\ words = [m \in Messages |-> words[m]]
         /\ \A m \in Messages :
              words[m] = {a \in Actions : \E d \in outstanding : d.msg = m /\ Says(d, a)}
<1>1. words = [m \in Messages |-> WordsIn(commands, outbound, outstanding, m)]
  BY DEF words, WordsIn
<1>2. \A m \in Messages :
        WordsIn(commands, outbound, outstanding, m)
          = {a \in Actions : \E d \in outstanding : d.msg = m /\ Says(d, a)}
  BY WordsInAre DEF TypeOK, Says
<1> QED
  BY <1>1, <1>2

LEMMA NextWordsAre ==
  ASSUME TypeOK'
  PROVE  /\ words' = [m \in Messages |-> words'[m]]
         /\ \A m \in Messages :
              words'[m] = {a \in Actions : \E d \in outstanding' : d.msg = m /\ Says(d, a)'}
<1>1. commands' \in Seq(Command) /\ outbound' \in Seq(Settlement)
  BY DEF TypeOK, Command, Settlement, Delivery, Actions, Driver
<1>2. \A d, a : Says(d, a)' <=> SaysIn(commands', outbound', d, a)
  BY DEF Says, SaysIn, CommandSaying, FrameSaying, Command, Settlement, Delivery,
         Actions, Driver
<1>3. words' = [m \in Messages |-> WordsIn(commands', outbound', outstanding', m)]
  BY DEF words, WordsIn
<1>4. \A m \in Messages :
        WordsIn(commands', outbound', outstanding', m)
          = {a \in Actions : \E d \in outstanding' : d.msg = m /\ Says(d, a)'}
  BY <1>1, <1>2, WordsInAre
<1> QED
  BY <1>3, <1>4

LEMMA SameWords ==
  ASSUME TypeOK, TypeOK', NEW m \in Messages,
         \A a \in Actions : (\E d \in outstanding' : d.msg = m /\ Says(d, a)')
                            <=> \E d \in outstanding : d.msg = m /\ Says(d, a)
  PROVE  words'[m] = words[m]
<1>1. {a \in Actions : \E d \in outstanding' : d.msg = m /\ Says(d, a)'}
        = {a \in Actions : \E d \in outstanding : d.msg = m /\ Says(d, a)}
  OBVIOUS
<1> QED
  BY <1>1, WordsAre, NextWordsAre

(* Nothing is said of a delivery that a frame or a handler still has.      *)
LEMMA NothingSaidYet ==
  ASSUME TypeOK, MessageInv, NEW d \in outstanding, ~InCommands(d), ~InOutbound(d)
  PROVE  place[d.msg] = "out" /\ words[d.msg] = {} /\ d.msg \in Messages
<1>1. d.msg \in Messages /\ settled[d.msg] = "no" /\ d.msg \notin queued
  BY DEF TypeOK, Delivery, MessageInv
<1>2. place[d.msg] = "out"
  BY <1>1 DEF place
<1>3. \A e \in outstanding : e.msg = d.msg => e = d
  BY DEF MessageInv
<1>4. \A a : ~Says(d, a)
  BY DEF Says, SaysIn, InCommands, InOutbound, Occurs, CommandSaying, FrameSaying,
         CommandWith, FrameWith
<1> QED
  BY <1>1, <1>2, <1>3, <1>4, WordsAre

(* A command that is added says its word.                                  *)
LEMMA AddedSays ==
  ASSUME ServiceInv, TypeOK', NEW k \in Command, commands' = Append(commands, k),
         UNCHANGED <<queued, outstanding, settled, link, outbound>>,
         ~InCommands(k.d), ~InOutbound(k.d)
  PROVE  [Service!Next]_(Service!vars)
<1>0. /\ TypeOK /\ MessageInv /\ commands \in Seq(Command)
      /\ k.action \in Actions
  BY DEF ServiceInv, PlaceInv, BaseInv, TypeOK, Command
<1>1. place' = place /\ connected' = connected
  BY DEF place, connected
<1>2. \A d, a : Says(d, a)' <=> Says(d, a) \/ (d = k.d /\ a = k.action)
  <2>1. \A X : Occurs(Append(commands, k), X) <=> Occurs(commands, X) \/ k \in X
    BY <1>0, AppendOccurs
  <2> QED
    BY <2>1 DEF Says, SaysIn, CommandSaying, FrameSaying, Command, Settlement
<1>3. \A m \in Messages :
        words'[m] = {a \in Actions : \E d \in outstanding : d.msg = m /\ Says(d, a)'}
  BY NextWordsAre
<1>4. \A m \in Messages :
        words[m] = {a \in Actions : \E d \in outstanding : d.msg = m /\ Says(d, a)}
  BY <1>0, WordsAre
<1>7. words = [m \in Messages |-> words[m]] /\ words' = [m \in Messages |-> words'[m]]
  BY <1>0, WordsAre, NextWordsAre
<1>5. CASE k.d \notin outstanding
  <2>1. \A m \in Messages : words'[m] = words[m]
    BY <1>0, <1>2, <1>5, SameWords
  <2>2. words' = words
    BY <1>7, <2>1, Zenon
  <2> QED
    BY <1>1, <2>2 DEF Service!vars
<1>6. CASE k.d \in outstanding
  <2> DEFINE n == k.d.msg
  <2>1. place[n] = "out" /\ words[n] = {} /\ n \in Messages
    BY <1>0, <1>6, NothingSaidYet
  <2>2. \A d \in outstanding : d.msg = n <=> d = k.d
    BY <1>0, <1>6 DEF MessageInv
  <2>3. \A m \in Messages : words'[m] = IF m = n THEN {k.action} ELSE words[m]
    <3>1. words'[n] = {k.action}
      <4>1. \A a \in Actions : ~\E d \in outstanding : d.msg = n /\ Says(d, a)
        BY <1>4, <2>1
      <4> HIDE DEF n
      <4>2. \A a \in Actions : (\E d \in outstanding : d.msg = n /\ Says(d, a)')
                                <=> a = k.action
        BY <1>2, <1>6, <2>2, <4>1
      <4> QED
        BY <1>0, <1>3, <2>1, <4>2
    <3>2. \A m \in Messages : m # n => words'[m] = words[m]
      BY <1>0, <1>2, SameWords
    <3> QED
      BY <3>1, <3>2
  <2>4. words' = [words EXCEPT ![n] = {k.action}]
    BY <1>7, <2>3
  <2>5. connected
    BY <1>6 DEF connected, ServiceInv, PlaceInv, BaseInv, LinkInv
  <2>6. Service!Say(n, k.action) /\ k.action \in Service!Actions
    BY <1>0, <1>1, <2>1, <2>4, <2>5 DEF Service!Say, Service!Actions, Actions
  <2> QED
    BY <2>1, <2>6 DEF Service!Next
<1> QED
  BY <1>5, <1>6

LEMMA RunKeepsWords ==
  ASSUME ServiceInv, TypeOK', RunCommand
  PROVE  UNCHANGED Service!vars
<1> DEFINE k == Head(commands)
           f == [d |-> k.d, action |-> k.action]
<1>0. /\ TypeOK /\ commands \in Seq(Command) /\ outbound \in Seq(Settlement)
      /\ commands # <<>> /\ commands' = Tail(commands) /\ k \in Command
      /\ UNCHANGED <<queued, outstanding, settled, link>>
  BY FirstCommand DEF ServiceInv, PlaceInv, BaseInv, TypeOK, RunCommand, brokerVars
<1>1. f \in Settlement
  BY <1>0 DEF Command, Settlement
<1>2. ASSUME NEW d \in outstanding, NEW a PROVE Says(d, a)' <=> Says(d, a)
  <2>1. \A X : Occurs(commands, X) <=> Occurs(commands', X) \/ k \in X
    BY <1>0, TailOccurs
  <2>2. \A X : Occurs(Append(outbound, f), X) <=> Occurs(outbound, X) \/ f \in X
    BY <1>0, <1>1, AppendOccurs
  <2>3. k \in CommandSaying(d, a) <=> f \in FrameSaying(d, a)
    BY <1>0, <1>1 DEF CommandSaying, FrameSaying
  <2>4. k \in CommandSaying(d, a) => channel[k.d.consumer] = "open"
    <3>1. channel[d.consumer] = "open"
      BY <1>0 DEF ServiceInv, PlaceInv, BaseInv, LinkInv, TypeOK
    <3> QED
      BY <3>1 DEF CommandSaying
  <2>5. outbound' = IF channel[k.d.consumer] = "open" THEN Append(outbound, f) ELSE outbound
    BY DEF RunCommand, CompleteBody
  <2>6. Says(d, a)' <=> \/ Occurs(commands', CommandSaying(d, a))
                        \/ Occurs(outbound', FrameSaying(d, a))
    BY DEF Says, SaysIn, CommandSaying, FrameSaying, Command, Settlement
  <2> HIDE DEF k, f
  <2> QED
    BY <2>1, <2>2, <2>3, <2>4, <2>5, <2>6 DEF Says, SaysIn
<1>3. \A m \in Messages : words'[m] = words[m]
  BY <1>0, <1>2, SameWords
<1>4. words' = words
  BY <1>0, <1>3, WordsAre, NextWordsAre, Zenon
<1> QED
  BY <1>0, <1>4 DEF place, connected, Service!vars

(* The message leaves the queue; nothing is said of the new delivery.      *)
LEMMA DeliverIsSend ==
  ASSUME ServiceInv, TypeOK', NEW c \in Consumers, NEW m \in Messages, Deliver(c, m)
  PROVE  Service!Next
<1> DEFINE s == Sent(c, m)
<1>0. /\ TypeOK /\ BaseInv /\ NumberInv /\ s \in Delivery /\ s.msg = m
      /\ link = "up" /\ m \in queued /\ settled[m] = "no" /\ queued' = queued \ {m}
      /\ UNCHANGED <<link, commands, outbound>>
  <2>1. TypeOK /\ BaseInv /\ NumberInv /\ MessageInv
    BY DEF ServiceInv, PlaceInv, BaseInv
  <2>2. s \in Delivery
    BY <2>1, SentType DEF BaseInv
  <2>3. /\ link = "up" /\ m \in queued /\ queued' = queued \ {m}
        /\ UNCHANGED <<link, commands, outbound>>
    BY DEF Deliver, threadVars
  <2> QED
    BY <2>1, <2>2, <2>3 DEF MessageInv, Sent
<1>1. \/ outstanding' = outstanding /\ settled' = [settled EXCEPT ![m] = "auto"]
      \/ outstanding' = outstanding \cup {s} /\ settled' = settled
  BY DEF Deliver, Sent
<1>2. ~Held(s)
  BY <1>0, SentIsNew DEF Sent, Around
<1> HIDE DEF s
<1>3. \A a : ~Says(s, a)
  BY <1>0, <1>2 DEF Held, InCommands, InOutbound, Says, SaysIn, Occurs, CommandSaying,
                    FrameSaying, CommandWith, FrameWith
<1>4. \A d, a : Says(d, a)' <=> Says(d, a)
  BY <1>0 DEF Says, SaysIn, CommandSaying, FrameSaying, Command, Settlement
<1>5. \A n \in Messages : words'[n] = words[n]
  BY <1>0, <1>1, <1>3, <1>4, SameWords
<1>6. words' = words
  BY <1>0, <1>5, WordsAre, NextWordsAre, Zenon
<1>7. \E p \in {"out", "auto"} : place' = [place EXCEPT ![m] = p]
  <2>1. settled \in [Messages -> {"no", "auto", "Ack", "Reject"}]
    BY <1>0 DEF TypeOK
  <2>2. CASE settled' = [settled EXCEPT ![m] = "auto"]
    <3>1. place' = [place EXCEPT ![m] = "auto"]
      BY <1>0, <2>1, <2>2 DEF place
    <3> QED
      BY <3>1
  <2>3. CASE settled' = settled
    <3>1. place' = [place EXCEPT ![m] = "out"]
      BY <1>0, <2>1, <2>3 DEF place
    <3> QED
      BY <3>1
  <2> QED
    BY <1>1, <2>2, <2>3
<1>8. Service!Send(m)
  BY <1>0, <1>6, <1>7 DEF Service!Send, place, connected
<1> QED
  BY <1>8 DEF Service!Next

(* The broker settles a message by the word of its delivery.               *)
LEMMA SettleIsSettle ==
  ASSUME ServiceInv, TypeOK', epoch <= 1, Settle
  PROVE  Service!Next
<1> DEFINE f == Head(outbound)
           d == f.d
           m == d.msg
<1>0. /\ TypeOK /\ MessageInv /\ f \in Settlement /\ d \in Delivery /\ m \in Messages
      /\ outbound \in Seq(Settlement) /\ outbound # <<>> /\ outbound' = Tail(outbound)
      /\ link = "up" /\ link' = link /\ commands' = commands /\ f.action \in Actions
      /\ d \in outstanding /\ settled[m] = "no" /\ m \notin queued
  <2>1. TypeOK /\ MessageInv /\ f \in Settlement /\ d \in Delivery /\ d \in outstanding
    BY FirstFrame, FirstLinkKnows DEF ServiceInv, PlaceInv, BaseInv
  <2>2. /\ outbound # <<>> /\ outbound' = Tail(outbound) /\ link = "up"
        /\ link' = link /\ commands' = commands
    BY DEF Settle, threadVars
  <2> QED
    BY <2>1, <2>2 DEF TypeOK, MessageInv, Settlement, Delivery
<1>1. /\ outstanding' = outstanding \ {d}
      /\ \/ /\ f.action = "Requeue" /\ queued' = queued \cup {m} /\ settled' = settled
         \/ /\ f.action # "Requeue" /\ queued' = queued
            /\ settled' = [settled EXCEPT ![m] = f.action]
  <2> DEFINE K == {e \in Unsettled(d.consumer) : e.tag = d.tag}
  <2>1. K = {d} /\ d.consumer \in serving
    BY FirstLinkKnows
  <2>2. MessagesOf(K) = {m}
    BY <2>1 DEF MessagesOf
  <2>3. /\ outstanding' = outstanding \ K
        /\ IF f.action = "Requeue"
           THEN queued' = queued \cup MessagesOf(K) /\ UNCHANGED settled
           ELSE /\ settled' = [n \in Messages |-> IF n \in MessagesOf(K) THEN f.action
                                                                         ELSE settled[n]]
                /\ UNCHANGED queued
    BY <2>1 DEF Settle
  <2>4. [settled EXCEPT ![m] = f.action]
          = [n \in Messages |-> IF n = m THEN f.action ELSE settled[n]]
    <3> HIDE DEF m, f
    <3> QED
      BY <1>0 DEF TypeOK
  <2> HIDE DEF K, d, m, f
  <2> QED
    BY <2>1, <2>2, <2>3, <2>4
<1>2. \A e \in outstanding : e.msg = m <=> e = d
  BY <1>0 DEF MessageInv
<1>3. \A X : Occurs(outbound, X) <=> Occurs(outbound', X) \/ f \in X
  BY <1>0, TailOccurs
<1>4. words[m] = {f.action}
  <2>1. f \in FrameSaying(d, f.action)
    BY <1>0 DEF FrameSaying
  <2>2. Says(d, f.action)
    BY <1>3, <2>1 DEF Says, SaysIn
  <2>3. ASSUME NEW a \in Actions, Says(d, a) PROVE a = f.action
    <3>1. HeldOnce(d) /\ InOutbound(d)
      BY <1>0, FirstFrame DEF ServiceInv, PlaceInv, OnceInv
    <3>2. ~InCommands(d) /\ OnceOutbound(d)
      BY <3>1 DEF HeldOnce
    <3>3. PICK i \in DOMAIN outbound : outbound[i] \in FrameSaying(d, a)
      BY <2>3, <3>2 DEF Says, SaysIn, InCommands, Occurs, CommandSaying, CommandWith
    <3>4. PICK j \in DOMAIN outbound : outbound[j] = f
      <4>1. Occurs(outbound, {f})
        BY FirstFrame DEF ServiceInv, PlaceInv
      <4> HIDE DEF f
      <4> QED
        BY <4>1 DEF Occurs
    <3>5. i = j
      BY <1>0, <3>2, <3>3, <3>4
         DEF OnceOutbound, AtMostOnce, FrameSaying, FrameWith
    <3> QED
      BY <3>3, <3>4, <3>5 DEF FrameSaying
  <2> HIDE DEF f, d, m
  <2>4. \A a \in Actions : (\E e \in outstanding : e.msg = m /\ Says(e, a)) <=> a = f.action
    BY <1>0, <1>2, <2>2, <2>3
  <2> QED
    BY <1>0, <2>4, WordsAre
<1> HIDE DEF f, d, m
<1>5. words' = [words EXCEPT ![m] = {}]
  <2>1. words'[m] = {}
    BY <1>0, <1>1, <1>2, NextWordsAre
  <2>2. ASSUME NEW n \in Messages, n # m PROVE words'[n] = words[n]
    <3>1. ASSUME NEW e \in outstanding, e.msg = n, NEW a
          PROVE  e \in outstanding' /\ (Says(e, a)' <=> Says(e, a))
      <4>1. f \notin FrameSaying(e, a) /\ e # d
        BY <1>2, <2>2, <3>1 DEF FrameSaying, d
      <4>2. Says(e, a)' <=> \/ Occurs(commands', CommandSaying(e, a))
                            \/ Occurs(outbound', FrameSaying(e, a))
        BY DEF Says, SaysIn, CommandSaying, FrameSaying, Command, Settlement
      <4> QED
        BY <1>0, <1>1, <1>3, <4>1, <4>2 DEF Says, SaysIn
    <3> QED
      BY <1>0, <1>1, <2>2, <3>1, SameWords
  <2>3. words' = [n \in Messages |-> words'[n]] /\ words = [n \in Messages |-> words[n]]
    BY <1>0, WordsAre, NextWordsAre
  <2> QED
    BY <2>1, <2>2, <2>3
<1>6. place[m] = "out"
  BY <1>0 DEF place
<1>7. place' = [place EXCEPT ![m] = IF f.action = "Requeue" THEN "ready" ELSE f.action]
  <2>1. settled \in [Messages -> {"no", "auto", "Ack", "Reject"}] /\ f.action # "no"
    BY <1>0 DEF TypeOK, Actions
  <2> QED
    BY <1>0, <1>1, <2>1 DEF place
<1>8. Service!Settle(m, f.action)
  BY <1>0, <1>4, <1>5, <1>6, <1>7 DEF Service!Settle, connected
<1> QED
  BY <1>0, <1>8 DEF Service!Next, Service!Actions, Actions

LEMMA RequeueIsLose ==
  ASSUME ServiceInv, TypeOK', RequeueAll, settled' = settled, link' # "up"
  PROVE  [Service!Next]_(Service!vars)
<1>0. TypeOK /\ MessageInv /\ LinkInv
  BY DEF ServiceInv, PlaceInv, BaseInv
<1>1. words' = [m \in Messages |-> {}]
  <2>1. outstanding' = {}
    BY DEF RequeueAll
  <2>2. \A m \in Messages : words'[m] = {}
    BY <2>1, NextWordsAre
  <2> QED
    BY <2>2, NextWordsAre
<1>2. \A m \in Messages :
        m \in queued' <=> m \in queued \/ (settled[m] = "no" /\ m \notin queued)
  BY <1>0 DEF RequeueAll, MessagesOf, MessageInv
<1>3. place' = [m \in Messages |-> IF place[m] = "out" THEN "ready" ELSE place[m]]
  <2>1. settled \in [Messages -> {"no", "auto", "Ack", "Reject"}]
    BY <1>0 DEF TypeOK
  <2> QED
    BY <1>2, <2>1 DEF place
<1>4. CASE link = "up"
  BY <1>1, <1>3, <1>4 DEF Service!Next, Service!Lose, connected
<1>5. CASE link # "up"
  <2>1. outstanding = {} /\ queued' = queued
    BY <1>0, <1>5 DEF LinkInv, RequeueAll, MessagesOf
  <2>2. words = [m \in Messages |-> {}]
    <3>1. \A m \in Messages : words[m] = {}
      BY <1>0, <2>1, WordsAre
    <3> QED
      BY <1>0, <3>1, WordsAre
  <2> QED
    BY <1>1, <1>5, <2>1, <2>2 DEF Service!vars, place, connected
<1> QED
  BY <1>4, <1>5

LEMMA StepIsService ==
  ASSUME ServiceInv, TypeOK', epoch' <= 1, [Next]_vars
  PROVE  [Service!Next]_(Service!vars)
<1>0. BaseInv /\ TypeOK /\ epoch \in Nat
  <2>1. BaseInv /\ TypeOK
    BY DEF ServiceInv, PlaceInv, BaseInv
  <2>2. epoch \in Nat
    BY <2>1, DeliveryAssumption DEF TypeOK
  <2> QED
    BY <2>1, <2>2
<1> USE DEF brokerVars, linkVars, threadVars, poolVars
<1>1. epoch <= 1
  <2>1. epoch' = epoch \/ epoch' = epoch + 1
    BY StepCases
       DEF Deliver, Settle, LinkBreaks, SwapCommands, ThreadExits, RunCommand,
           DrainDone, Connect, NoConnection, StartConsumer, ReceiveMessage,
           ReceiveError, PumpDone, CheckDisconnect, TakeTask, HandlerReturns,
           RegisterConsumerHandler, UnregisterConsumerHandler, RequestStop,
           JoinDriver, PoolDone, vars, DropConnection
  <2> QED
    BY <1>0, <2>1
<1>2. ASSUME NEW c \in Consumers, NEW m \in Messages, Deliver(c, m) PROVE Service!Next
  BY <1>2, DeliverIsSend
<1>3. CASE Settle
  BY <1>1, <1>3, SettleIsSettle
<1>4. CASE RunCommand
  BY <1>4, RunKeepsWords
<1>5. CASE RequeueAll /\ settled' = settled /\ link' # "up"
  BY <1>5, RequeueIsLose
<1>6. CASE Connect
  <2>1. link = "down" /\ UNCHANGED <<place, words>>
    BY <1>0, <1>6 DEF Connect, BaseInv, LinkInv, place, words
  <2> QED
    BY <1>6, <2>1 DEF Connect, Service!Next, Service!Link, connected
<1>7. CASE ReceiveMessage
  <2> DEFINE d == Head(inbound)
             k == [d |-> d, action |-> "Requeue", by |-> Driver]
  <2>1. UNCHANGED <<queued, outstanding, settled, link, outbound>> /\ d \in Delivery
    BY <1>7 DEF ReceiveMessage
  <2>2. CASE commands' = commands
    BY <2>1, <2>2 DEF Service!vars, place, words, connected
  <2>3. CASE commands' = Append(commands, k)
    <3>1. k \in Command /\ k.d = d
      BY <2>1 DEF Command, Actions
    <3>2. InInbound(d) /\ HeldOnce(d)
      <4>1. inbound \in Seq(Frame) /\ inbound # <<>> /\ d \in {d}
        BY <1>0, <1>7 DEF ReceiveMessage, TypeOK
      <4> QED
        BY <2>1, <4>1, TailOccurs DEF InInbound, ServiceInv, PlaceInv, OnceInv
    <3>3. ~InCommands(d) /\ ~InOutbound(d)
      BY <3>2 DEF HeldOnce
    <3> HIDE DEF k, d
    <3> QED
      BY <2>1, <2>3, <3>1, <3>3, AddedSays
  <2> QED
    BY <1>7, <2>2, <2>3 DEF ReceiveMessage, Submit
<1>8. ASSUME NEW w \in Workers, NEW a \in Actions, HandlerReturns(w, a)
      PROVE  [Service!Next]_(Service!vars)
  <2> DEFINE d == worker[w].d
             k == [d |-> d, action |-> a, by |-> w]
  <2>1. /\ UNCHANGED <<queued, outstanding, settled, link, outbound>>
        /\ d \in Delivery /\ Handles(w, d)
    BY <1>0, <1>8, WorkerCases DEF HandlerReturns, TypeOK, Handles
  <2>2. CASE commands' = commands
    BY <2>1, <2>2 DEF Service!vars, place, words, connected
  <2>3. CASE commands' = Append(commands, k)
    <3>1. k \in Command /\ k.d = d
      BY <2>1 DEF Command
    <3>2. ~InCommands(d) /\ ~InOutbound(d)
      BY <2>1 DEF InHandler, HeldOnce, ServiceInv, PlaceInv, OnceInv
    <3> HIDE DEF k, d
    <3> QED
      BY <2>1, <2>3, <3>1, <3>2, AddedSays
  <2> QED
    BY <1>8, <2>2, <2>3 DEF HandlerReturns
<1>9. CASE UNCHANGED <<queued, outstanding, settled, link, outbound, commands>>
  BY <1>9 DEF Service!vars, place, words, connected
<1>10. \/ \E c \in Consumers, m \in Messages : Deliver(c, m)
       \/ Settle \/ RunCommand \/ Connect \/ ReceiveMessage
       \/ \E w \in Workers, a \in Actions : HandlerReturns(w, a)
       \/ RequeueAll /\ settled' = settled /\ link' # "up"
       \/ UNCHANGED <<queued, outstanding, settled, link, outbound, commands>>
  BY StepCases
     DEF LinkBreaks, SwapCommands, ThreadExits, DrainDone, NoConnection,
         StartConsumer, ReceiveError, PumpDone, CheckDisconnect, TakeTask,
         RegisterConsumerHandler, UnregisterConsumerHandler, RequestStop,
         JoinDriver, PoolDone, vars, DropConnection
<1> QED
  BY <1>2, <1>3, <1>4, <1>5, <1>6, <1>7, <1>8, <1>9, <1>10

(* As long as no reconnect has happened, the delivery path implements      *)
(* MessageService: a message is acknowledged, rejected or taken back by    *)
(* the one word that was said of this delivery, or with its connection.    *)
THEOREM FirstLinkImplementsService == Spec => FirstLinkService
<1>1. Init => Service!Init
  <2> SUFFICES ASSUME Init PROVE Service!Init
    OBVIOUS
  <2>1. place = [m \in Messages |-> "ready"] /\ connected = FALSE
    BY DEF Init, place, connected
  <2>2. words = [m \in Messages |-> {}]
    BY DEF Init, words
  <2> QED
    BY <2>1, <2>2 DEF Service!Init
<1>2. ServiceInv /\ TypeOK' /\ [Next]_vars
        => [epoch' <= 1 => [Service!Next]_(Service!vars)]_vars
  BY StepIsService
<1>3. ServiceInv => TypeOK
  BY DEF ServiceInv, PlaceInv, BaseInv
<1> QED
  BY <1>1, <1>2, <1>3, ServiceInvHolds, PTL DEF Spec, FirstLinkService
=============================================================================

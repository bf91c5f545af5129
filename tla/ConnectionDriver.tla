-------------------------- MODULE ConnectionDriver --------------------------
(***************************************************************************)
(* RabbitMqConnectionDriver: client threads queue commands under the       *)
(* driver's mutex and block on a promise; one driver thread drains the     *)
(* queue, keeps the connection to the broker, rebuilds the topology after  *)
(* every (re)connect, and answers the promises; Stop ends the thread.      *)
(*                                                                         *)
(* The driver thread's control point is the variable thread:               *)
(*   top -> swap -> drain <-> drainFlush -> link -> flush -> pump          *)
(*       -> flushAgain -> check -> (disconnect -> settle) -> top           *)
(*   top -> finish -> finishSettle -> exited            (once stopping)    *)
(* The mutex is held inside single actions only.                           *)
(***************************************************************************)
EXTENDS Naturals, Integers, Sequences, SequencesExt

CONSTANTS
  Clients,              (* threads that call the driver: application threads
                           and the worker pool                             *)
  TopologySteps,        (* exchanges, queues and bindings of the config     *)
  ConsumerSteps,        (* consumers of the config                          *)
  ReconnectModes,       (* the values connection.reconnect.enabled may have *)
  SocketSystemReliable, (* FALSE: WSAStartup may fail (Windows)             *)
  MaxCalls,             (* bound: calls accepted in a behaviour             *)
  MaxFaults             (* bound: faults of the network and of the broker   *)

ASSUME DriverAssumption ==
  /\ TopologySteps \in Nat
  /\ ConsumerSteps \in Nat
  /\ ReconnectModes \subseteq BOOLEAN
  /\ SocketSystemReliable \in BOOLEAN
  /\ MaxCalls \in Nat
  /\ MaxFaults \in Nat

VARIABLES
  op,                   (* op[c]: the operation of client c's current call  *)
  result,               (* result[c]: its promise; NoCall while c is idle   *)
  ticket,               (* ticket[c]: rank of its call among those accepted *)
  accepted,             (* number of calls accepted so far                  *)
  reconnect,            (* config_.connection.reconnect.enabled             *)
  lifecycle,            (* where Start and Stop of the driver have got to   *)
  thread,               (* control point of the driver thread               *)
  state,                (* state_, what GetConnectionState returns          *)
  commands,             (* commands_, clients whose command is queued       *)
  local,                (* local_commands of DrainCommands                  *)
  inflight,             (* clients whose declaration awaits the broker      *)
  outbound,             (* outbound_, as the tickets of the buffered frames *)
  wire,                 (* history: the tickets handed to the socket        *)
  connected, ready, handshake, pendingDisconnect,
  boot,                 (* replies the topology rebuild has got so far      *)
  faults                (* faults so far                                    *)

lifeVars == <<lifecycle, reconnect>>
clientVars == <<op, result, ticket, accepted>>
linkVars == <<connected, ready, handshake, pendingDisconnect, boot>>
queueVars == <<commands, local, inflight>>
bufferVars == <<outbound, wire>>
vars == <<clientVars, lifeVars, thread, state, queueVars, bufferVars,
          linkVars, faults>>

-----------------------------------------------------------------------------
(* "declare" stands for DeclareExchange, DeclareQueue and BindQueue, which *)
(* differ in the frame they send; "complete" is CompleteDelivery.          *)
Ops == {"publish", "declare", "complete"}
Answers == {"ok", "disconnected", "failed"}
NoCall == "none"
Unanswered == "waiting"

ConnectionState ==
  {"Created", "Connecting", "Connected", "Reconnecting", "Stopped", "Error"}
Lifecycle == {"created", "running", "stopping", "joined", "stopped"}
ThreadPoints ==
  {"unstarted", "starting", "top", "swap", "drain", "drainFlush", "link",
   "flush", "pump", "flushAgain", "check", "disconnect", "settle", "finish",
   "finishSettle", "exited"}

TotalSteps == TopologySteps + ConsumerSteps
Aborted == -1           (* the rebuild got an error reply and goes no further *)

Idle(c) == result[c] = NoCall
Waiting(c) == result[c] = Unanswered

TypeOK ==
  /\ op \in [Clients -> Ops \cup {NoCall}]
  /\ result \in [Clients -> Answers \cup {NoCall, Unanswered}]
  /\ ticket \in [Clients -> Nat]
  /\ accepted \in Nat
  /\ reconnect \in BOOLEAN
  /\ lifecycle \in Lifecycle
  /\ thread \in ThreadPoints
  /\ state \in ConnectionState
  /\ commands \in Seq(Clients)
  /\ local \in Seq(Clients)
  /\ inflight \in Seq(Clients)
  /\ outbound \in Seq(Nat)
  /\ wire \in Seq(Nat)
  /\ connected \in BOOLEAN
  /\ ready \in BOOLEAN
  /\ handshake \in BOOLEAN
  /\ pendingDisconnect \in BOOLEAN
  /\ boot \in Aborted .. TotalSteps
  /\ faults \in Nat

Init ==
  /\ op = [c \in Clients |-> NoCall]
  /\ result = [c \in Clients |-> NoCall]
  /\ ticket = [c \in Clients |-> 0]
  /\ accepted = 0
  /\ reconnect \in ReconnectModes
  /\ lifecycle = "created"
  /\ thread = "unstarted"
  /\ state = "Created"
  /\ commands = <<>> /\ local = <<>> /\ inflight = <<>>
  /\ outbound = <<>> /\ wire = <<>>
  /\ connected = FALSE /\ ready = FALSE /\ handshake = FALSE
  /\ pendingDisconnect = FALSE
  /\ boot = 0
  /\ faults = 0

-----------------------------------------------------------------------------
(* Start and Stop, called by the module's OnStart and OnStop.              *)

StartDriver ==
  /\ lifecycle = "created"
  /\ lifecycle' = "running"
  /\ thread' = "starting"
  /\ state' = "Connecting"
  /\ UNCHANGED <<clientVars, reconnect, queueVars, bufferVars, linkVars,
                 faults>>

RequestStop ==
  /\ lifecycle = "running"
  /\ lifecycle' = "stopping"
  /\ UNCHANGED <<clientVars, reconnect, thread, state, queueVars, bufferVars,
                 linkVars, faults>>

JoinThread ==
  /\ lifecycle = "stopping"
  /\ thread = "exited"
  /\ lifecycle' = "joined"
  /\ UNCHANGED <<clientVars, reconnect, thread, state, queueVars, bufferVars,
                 linkVars, faults>>

StopDone ==
  /\ lifecycle = "joined"
  /\ lifecycle' = "stopped"
  /\ state' = "Stopped"
  /\ UNCHANGED <<clientVars, reconnect, thread, queueVars, bufferVars, linkVars,
                 faults>>

StopRequested == lifecycle \in {"stopping", "joined", "stopped"}

-----------------------------------------------------------------------------
(* The calling threads: EnqueueCommand under the mutex, then the wait for  *)
(* the promise.                                                            *)

CanEnqueue == lifecycle = "running"

Enqueue(c, o) ==
  /\ CanEnqueue
  /\ Idle(c)
  /\ accepted < MaxCalls
  /\ op' = [op EXCEPT ![c] = o]
  /\ result' = [result EXCEPT ![c] = Unanswered]
  /\ ticket' = [ticket EXCEPT ![c] = accepted + 1]
  /\ accepted' = accepted + 1
  /\ commands' = Append(commands, c)
  /\ UNCHANGED <<lifeVars, thread, state, local, inflight, bufferVars,
                 linkVars, faults>>

(* Mutant of Return: a wait that gives up before the answer.               *)
ReturnUnanswered(c) ==
  /\ ~Idle(c)
  /\ result' = [result EXCEPT ![c] = NoCall]
  /\ op' = [op EXCEPT ![c] = NoCall]
  /\ ticket' = [ticket EXCEPT ![c] = 0]
  /\ UNCHANGED <<accepted, lifeVars, thread, state, queueVars,
                 bufferVars, linkVars, faults>>

(* WaitPendingResult returns the value of the promise to the caller.       *)
Return(c) ==
  /\ result[c] \in Answers
  /\ result' = [result EXCEPT ![c] = NoCall]
  /\ op' = [op EXCEPT ![c] = NoCall]
  /\ ticket' = [ticket EXCEPT ![c] = 0]
  /\ UNCHANGED <<accepted, lifeVars, thread, state, queueVars,
                 bufferVars, linkVars, faults>>

-----------------------------------------------------------------------------
(* CompletePendingResult for a set of calls: the first answer stays.       *)
AnswerAll(S, answer) ==
  result' = [c \in Clients |-> IF c \in S /\ Waiting(c) THEN answer
                                                         ELSE result[c]]

IsReady == connected /\ ready

(* consumer_runtimes_ holds the channel of consumer k once the rebuild has *)
(* reached it.                                                             *)
HasRuntime(k) == handshake /\ boot >= TopologySteps + k - 1

GoTo(point) == thread' = point

(* ThreadMain up to the loop; off Windows SocketSystemScope always is ok.  *)
ThreadStarts ==
  /\ thread = "starting"
  /\ \/ GoTo("top") /\ UNCHANGED state
     \/ /\ ~SocketSystemReliable
        /\ GoTo("exited")
        /\ state' = "Error"
  /\ UNCHANGED <<clientVars, lifeVars, queueVars, bufferVars, linkVars,
                 faults>>

(* Mutants of TestStop: the loop never sees the stop, or the thread ends    *)
(* without its last HandleDisconnect.                                      *)
IgnoreStop ==
  /\ thread = "top"
  /\ GoTo("swap")
  /\ UNCHANGED <<clientVars, lifeVars, state, queueVars, bufferVars,
                 linkVars, faults>>

ExitAtStop ==
  /\ thread = "top"
  /\ GoTo(IF StopRequested THEN "exited" ELSE "swap")
  /\ UNCHANGED <<clientVars, lifeVars, state, queueVars, bufferVars,
                 linkVars, faults>>

TestStop ==
  /\ thread = "top"
  /\ GoTo(IF StopRequested THEN "finish" ELSE "swap")
  /\ UNCHANGED <<clientVars, lifeVars, state, queueVars, bufferVars,
                 linkVars, faults>>

(* Mutant of SwapCommands: the batch is drained from its back.              *)
SwapReversed ==
  /\ thread = "swap"
  /\ local' = Reverse(commands)
  /\ commands' = <<>>
  /\ GoTo("drain")
  /\ UNCHANGED <<clientVars, lifeVars, state, inflight, bufferVars,
                 linkVars, faults>>

SwapCommands ==
  /\ thread = "swap"
  /\ local' = commands
  /\ commands' = <<>>
  /\ GoTo("drain")
  /\ UNCHANGED <<clientVars, lifeVars, state, inflight, bufferVars,
                 linkVars, faults>>

DrainDone ==
  /\ thread = "drain"
  /\ local = <<>>
  /\ GoTo("link")
  /\ UNCHANGED <<clientVars, lifeVars, state, queueVars, bufferVars,
                 linkVars, faults>>

Send(c) == outbound' = Append(outbound, ticket[c])

(* The body of Publish's command. The broker confirms nothing: ok says the *)
(* frame is in outbound_. "failed": the headers cannot be converted, or    *)
(* the channel rejects the frame.                                          *)
PublishBody(c) ==
  \/ /\ ~IsReady
     /\ AnswerAll({c}, "disconnected")
     /\ UNCHANGED <<outbound, inflight>>
  \/ /\ IsReady
     /\ \/ AnswerAll({c}, "failed") /\ UNCHANGED outbound
        \/ AnswerAll({c}, "ok") /\ Send(c)
     /\ UNCHANGED inflight

(* The body of DeclareExchange's, DeclareQueue's and BindQueue's command:  *)
(* the answer waits for the broker's reply.                                *)
DeclareBody(c) ==
  \/ /\ ~IsReady
     /\ AnswerAll({c}, "disconnected")
     /\ UNCHANGED <<outbound, inflight>>
  \/ /\ IsReady
     /\ \/ AnswerAll({c}, "failed") /\ UNCHANGED <<outbound, inflight>>
        \/ /\ Send(c)
           /\ inflight' = Append(inflight, c)
           /\ UNCHANGED result

(* The body of CompleteDelivery's command, for a delivery of consumer k:   *)
(* it asks for the consumer's channel only, not for ready_.                *)
CompleteBody(c) ==
  \E k \in 1 .. ConsumerSteps :
    /\ \/ /\ ~HasRuntime(k)
          /\ AnswerAll({c}, "disconnected")
          /\ UNCHANGED outbound
       \/ /\ HasRuntime(k)
          /\ \/ AnswerAll({c}, "failed") /\ UNCHANGED outbound
             \/ AnswerAll({c}, "ok") /\ Send(c)
    /\ UNCHANGED inflight

RunCommand ==
  /\ thread = "drain"
  /\ local # <<>>
  /\ local' = Tail(local)
  /\ GoTo("drainFlush")
  /\ LET c == Head(local) IN
       \/ op[c] = "publish" /\ PublishBody(c)
       \/ op[c] = "declare" /\ DeclareBody(c)
       \/ op[c] = "complete" /\ CompleteBody(c)
  /\ UNCHANGED <<op, ticket, accepted, lifeVars, state, commands, wire,
                 linkVars, faults>>

-----------------------------------------------------------------------------
(* FlushOutboundData: after every command, and around PumpIncomingData.    *)

FlushExit ==
  CASE thread = "drainFlush" -> "drain"
    [] thread = "flush"      -> "pump"
    [] thread = "flushAgain" -> "check"

AtFlush == thread \in {"drainFlush", "flush", "flushAgain"}

(* Mutant of SendFirst: the buffer is cleared after a partial send.         *)
SendAndClear(n) ==
  /\ wire' = wire \o SubSeq(outbound, 1, n)
  /\ outbound' = <<>>

(* send() takes the first n frames of the buffer.                          *)
SendFirst(n) ==
  /\ wire' = wire \o SubSeq(outbound, 1, n)
  /\ outbound' = SubSeq(outbound, n + 1, Len(outbound))

(* It sends, until the socket would block or nothing is left.              *)
FlushSome ==
  /\ AtFlush
  /\ connected
  /\ \E n \in 1 .. Len(outbound) : SendFirst(n)
  /\ GoTo(FlushExit)
  /\ UNCHANGED <<clientVars, lifeVars, state, queueVars, linkVars, faults>>

FlushNothing ==
  /\ AtFlush
  /\ GoTo(FlushExit)
  /\ UNCHANGED <<clientVars, lifeVars, state, queueVars, bufferVars,
                 linkVars, faults>>

(* It sends, until send() fails with something left.                       *)
FlushFails ==
  /\ AtFlush
  /\ connected
  /\ \E n \in 0 .. Len(outbound) - 1 : SendFirst(n)
  /\ faults < MaxFaults
  /\ faults' = faults + 1
  /\ pendingDisconnect' = TRUE
  /\ GoTo(FlushExit)
  /\ UNCHANGED <<clientVars, lifeVars, state, queueVars, connected, ready,
                 handshake, boot>>

-----------------------------------------------------------------------------
(* The disconnected half of the loop: reconnect when it is time to.        *)

(* Mutants of MayConnect: the rule for disabled reconnecting is used for    *)
(* every configuration, or the other way round.                            *)
FirstAttemptOnly == ~StopRequested /\ state = "Connecting"
AnyAttempt == ~StopRequested

MayConnect == reconnect \/ (~StopRequested /\ state = "Connecting")

ConnectSucceeds ==
  /\ thread = "link"
  /\ ~connected /\ MayConnect
  /\ connected' = TRUE
  /\ ready' = FALSE /\ handshake' = FALSE /\ pendingDisconnect' = FALSE
  /\ boot' = 0
  /\ outbound' = <<>>
  /\ state' = "Connecting"
  /\ GoTo("top")
  /\ UNCHANGED <<clientVars, lifeVars, queueVars, wire, faults>>

(* The state after a failed attempt and after a lost connection.           *)
DownState == IF reconnect THEN "Reconnecting" ELSE "Error"

(* ConnectSocket fails and ApplyReconnectBackoff is called.                *)
ConnectFails ==
  /\ thread = "link"
  /\ ~connected /\ MayConnect
  /\ faults < MaxFaults
  /\ faults' = faults + 1
  /\ state' = DownState
  /\ GoTo("top")
  /\ UNCHANGED <<clientVars, lifeVars, queueVars, bufferVars, linkVars>>

(* next_reconnect_at_ is ahead, or reconnecting is not allowed.            *)
NoAttempt ==
  /\ thread = "link"
  /\ ~connected
  /\ reconnect \/ ~MayConnect
  /\ GoTo("top")
  /\ UNCHANGED <<clientVars, lifeVars, state, queueVars, bufferVars,
                 linkVars, faults>>

ServeLink ==
  /\ thread = "link"
  /\ connected
  /\ GoTo("flush")
  /\ UNCHANGED <<clientVars, lifeVars, state, queueVars, bufferVars,
                 linkVars, faults>>

-----------------------------------------------------------------------------
(* PumpIncomingData: frames of the broker and the callbacks they cause. A  *)
(* frame leaves the thread at "pump": one read may hold several.           *)

AtPump == thread = "pump" /\ connected

(* Mutant of BootstrapReached: ready_ is set before the consumers start.    *)
ReadyBeforeConsumers(n) ==
  /\ boot' = n
  /\ ready' = (n >= TopologySteps)
  /\ state' = IF n >= TopologySteps THEN "Connected" ELSE state

(* BootstrapConsumers past the last consumer publishes Connected.          *)
BootstrapReached(n) ==
  /\ boot' = n
  /\ ready' = (n = TotalSteps)
  /\ state' = IF n = TotalSteps THEN "Connected" ELSE state

(* onReady and StartBootstrap. *)
HandshakeDone ==
  /\ AtPump
  /\ ~handshake /\ boot = 0
  /\ handshake' = TRUE
  /\ BootstrapReached(0)
  /\ UNCHANGED <<clientVars, lifeVars, thread, queueVars, bufferVars,
                 connected, pendingDisconnect, faults>>

(* Mutant of Rebuilding: the index is compared with > instead of >=.        *)
RebuildingTooFar == handshake /\ boot \in 0 .. TotalSteps

Rebuilding == handshake /\ boot \in 0 .. TotalSteps - 1

BootstrapReply ==
  /\ AtPump
  /\ Rebuilding
  /\ BootstrapReached(boot + 1)
  /\ UNCHANGED <<clientVars, lifeVars, thread, queueVars, bufferVars,
                 connected, handshake, pendingDisconnect, faults>>

(* The broker refuses a declaration of the rebuild, or its arguments       *)
(* cannot be converted.                                                    *)
BootstrapRefused ==
  /\ AtPump
  /\ Rebuilding
  /\ faults < MaxFaults
  /\ faults' = faults + 1
  /\ boot' = Aborted
  /\ pendingDisconnect' = TRUE
  /\ UNCHANGED <<clientVars, lifeVars, thread, state, queueVars, bufferVars,
                 connected, ready, handshake>>

(* The broker answers in order, and only what it was sent. *)
AwaitsReply ==
  inflight # <<>> /\ ticket[Head(inflight)] \in ToSet(wire)

DeclareConfirmed ==
  /\ AtPump
  /\ AwaitsReply
  /\ AnswerAll({Head(inflight)}, "ok")
  /\ inflight' = Tail(inflight)
  /\ UNCHANGED <<op, ticket, accepted, lifeVars, thread, state, commands,
                 local, bufferVars, linkVars, faults>>

(* Mutant of FailInflight: the connection is dropped without failing it.    *)
ForgetInflight ==
  /\ inflight' = <<>>
  /\ UNCHANGED result

(* connection_->fail(), or the channel's error: every declaration that     *)
(* awaits a reply gets its onError.                                        *)
FailInflight ==
  /\ AnswerAll(ToSet(inflight), "failed")
  /\ inflight' = <<>>

(* A refused declaration closes the admin channel, whose onError asks for  *)
(* the disconnect.                                                         *)
DeclareRefused ==
  /\ AtPump
  /\ AwaitsReply
  /\ FailInflight
  /\ pendingDisconnect' = TRUE
  /\ UNCHANGED <<op, ticket, accepted, lifeVars, thread, state, commands,
                 local, bufferVars, connected, ready, handshake, boot, faults>>

(* onError and onClosed of the connection.                                 *)
ConnectionError ==
  /\ AtPump
  /\ faults < MaxFaults
  /\ faults' = faults + 1
  /\ FailInflight
  /\ boot' = IF ready THEN boot ELSE Aborted
  /\ pendingDisconnect' = TRUE
  /\ UNCHANGED <<op, ticket, accepted, lifeVars, thread, state, commands,
                 local, bufferVars, connected, ready, handshake>>

(* A consumer's channel fails or its consumer is cancelled, select or recv *)
(* fails, or the broker closes the socket.                                 *)
LinkFault ==
  /\ AtPump
  /\ faults < MaxFaults
  /\ faults' = faults + 1
  /\ pendingDisconnect' = TRUE
  /\ UNCHANGED <<clientVars, lifeVars, thread, state, queueVars, bufferVars,
                 connected, ready, handshake, boot>>

PumpDone ==
  /\ thread = "pump"
  /\ GoTo("flushAgain")
  /\ UNCHANGED <<clientVars, lifeVars, state, queueVars, bufferVars,
                 linkVars, faults>>

CheckDisconnect ==
  /\ thread = "check"
  /\ GoTo(IF pendingDisconnect THEN "disconnect" ELSE "top")
  /\ UNCHANGED <<clientVars, lifeVars, state, queueVars, bufferVars,
                 linkVars, faults>>

-----------------------------------------------------------------------------
(* HandleDisconnect, called in the loop and once after it: first the       *)
(* connection is failed and cleared, then, under the mutex, state_ is set. *)

DropConnection ==
  /\ thread \in {"disconnect", "finish"}
  /\ FailInflight
  /\ connected' = FALSE /\ ready' = FALSE /\ handshake' = FALSE
  /\ pendingDisconnect' = FALSE
  /\ boot' = 0
  /\ outbound' = <<>>
  /\ GoTo(IF thread = "disconnect" THEN "settle" ELSE "finishSettle")
  /\ UNCHANGED <<op, ticket, accepted, lifeVars, state, commands, local,
                 wire, faults>>

SettleState ==
  /\ thread \in {"settle", "finishSettle"}
  /\ state' = IF StopRequested THEN "Stopped" ELSE DownState
  /\ GoTo(IF thread = "settle" THEN "top" ELSE "exited")
  /\ UNCHANGED <<clientVars, lifeVars, queueVars, bufferVars, linkVars,
                 faults>>

-----------------------------------------------------------------------------
PumpFrame ==
  \/ HandshakeDone \/ BootstrapReply \/ BootstrapRefused
  \/ DeclareConfirmed \/ DeclareRefused \/ ConnectionError \/ LinkFault

DriverStep ==
  \/ ThreadStarts \/ TestStop
  \/ SwapCommands \/ RunCommand \/ DrainDone
  \/ FlushSome \/ FlushNothing \/ FlushFails
  \/ ConnectSucceeds \/ ConnectFails \/ NoAttempt \/ ServeLink
  \/ PumpFrame \/ PumpDone
  \/ CheckDisconnect \/ DropConnection \/ SettleState

StopStep == JoinThread \/ StopDone

Next ==
  \/ StartDriver \/ RequestStop \/ StopStep
  \/ \E c \in Clients : Return(c) \/ \E o \in Ops : Enqueue(c, o)
  \/ DriverStep

Spec == Init /\ [][Next]_vars

-----------------------------------------------------------------------------
(* Safety.                                                                 *)

(* A blocked caller's command is in exactly one place: the queue, the      *)
(* batch being drained, or the declarations that await the broker; and     *)
(* nothing there belongs to a caller that is not blocked. So every drain,  *)
(* reply and disconnect answers each command once and drops none.          *)
CallInOnePlace ==
  /\ \A c \in Clients :
       Waiting(c) <=> c \in ToSet(commands) \cup ToSet(local) \cup ToSet(inflight)
  /\ IsInjective(commands) /\ IsInjective(local) /\ IsInjective(inflight)
  /\ ToSet(commands) \cap ToSet(local) = {}
  /\ ToSet(commands) \cap ToSet(inflight) = {}
  /\ ToSet(local) \cap ToSet(inflight) = {}

(* Connected, as GetConnectionState reports it, says that the whole        *)
(* topology was rebuilt on the connection in use; only between the two     *)
(* halves of HandleDisconnect may it be out of date.                       *)
ConnectedIsUsable ==
  /\ ready => connected /\ handshake /\ boot = TotalSteps
  /\ state = "Connected" <=>
       ready \/ (state = "Connected" /\ thread \in {"settle", "finishSettle"})

(* Declarations await the broker only on a connection whose topology was   *)
(* rebuilt: no promise is carried over a reconnect, nor does one mix with  *)
(* the replies of the rebuild.                                             *)
InflightOnlyWhenReady == inflight # <<>> => connected /\ ready

(* Frames leave in the order the calls were accepted and none twice,       *)
(* over disconnects too: what was sent, what is buffered and what is still *)
(* queued are in increasing order of acceptance.                           *)
SendOrder ==
  LET tickets(s) == [i \in DOMAIN s |-> ticket[s[i]]]
      all == wire \o outbound \o tickets(local) \o tickets(commands)
  IN \A i, j \in DOMAIN all : i < j => all[i] < all[j]

(* When the thread has ended, only commands that were never drained can    *)
(* still block their callers: HandleDisconnect answered all others. And it *)
(* says so: whoever finds a driver that will run no command can read it in *)
(* the state, also where Start had succeeded.                              *)
OnlyQueuedCallsStrand ==
  thread = "exited" =>
    /\ local = <<>> /\ inflight = <<>> /\ ~connected
    /\ state \in {"Error", "Stopped"}

(* Stopped and Error are final: no later step of the thread brings the     *)
(* driver back to Connecting, Connected or Reconnecting, and with          *)
(* reconnecting disabled the first lost or failed connection is the last.  *)
EndStatesAreFinal ==
  [][/\ state = "Stopped" => state' = "Stopped"
     /\ state = "Error" => state' \in {"Error", "Stopped"} /\ ~connected']_vars

(* Publish answers ok for a frame in outbound_, which the broker never     *)
(* confirms. Only the end of the connection takes such a frame away: a     *)
(* send that fails, is partial or would block keeps what it did not take.  *)
OnlyDisconnectLoses ==
  [][\/ IsPrefix(wire \o outbound, wire' \o outbound')
     \/ connected /\ ~connected']_vars

(* The inductive strengthening the proofs use: where each control point of *)
(* the thread leaves the connection, the batch and the state.              *)
LinkInv ==
  /\ ready => connected /\ handshake /\ boot = TotalSteps
  /\ ready => state = "Connected"
  /\ state = "Connected" => ready \/ thread \in {"settle", "finishSettle"}
  /\ handshake => connected
  /\ inflight # <<>> => ready
  /\ local # <<>> => thread \in {"drain", "drainFlush"}
  /\ connected => thread \notin {"unstarted", "starting", "settle",
                                "finishSettle", "exited"}
  /\ thread = "unstarted" <=> lifecycle = "created"
  /\ thread = "unstarted" => state = "Created"
  /\ lifecycle \in {"joined", "stopped"} => thread = "exited"
  /\ thread \in {"finish", "finishSettle"} => StopRequested
  /\ thread = "exited" => state \in {"Error", "Stopped"}
  /\ state = "Stopped" =>
       /\ StopRequested /\ ~connected
       /\ thread \in {"top", "finish", "finishSettle", "exited"}
  /\ state = "Error" =>
       ~connected /\ (thread = "exited" \/ ~reconnect)

(* Refinement: what the callers see is the abstract service.               *)
CallMap ==
  [c \in Clients |-> IF Idle(c) THEN "idle"
                     ELSE IF Waiting(c) THEN "accepted" ELSE "answered"]

ThreadAlive == thread \notin {"unstarted", "exited"}

Service == INSTANCE CommandService
  WITH call <- CallMap,
       accepting <- CanEnqueue,
       alive <- ThreadAlive

ServiceSpec == Service!Spec

-----------------------------------------------------------------------------
(* Fairness. The loop of ThreadMain never blocks for good (select has a    *)
(* timeout, the mutex is held briefly), so the thread always takes its     *)
(* next step, and a caller whose promise is set wakes up. The socket       *)
(* accepts bytes, a reconnect is due and the broker replies in finitely    *)
(* many rounds of the loop: these steps are enabled once per round only,   *)
(* hence the strong fairness. Nobody is obliged to call or to stop.        *)
Fairness ==
  /\ WF_vars(DriverStep)
  /\ WF_vars(StopStep)
  /\ \A c \in Clients : WF_vars(Return(c))
  /\ SF_vars(FlushSome)
  /\ SF_vars(ConnectSucceeds)
  /\ SF_vars(HandshakeDone)
  /\ SF_vars(BootstrapReply)
  /\ SF_vars(DeclareConfirmed)

FairSpec == Spec /\ Fairness

(* While the driver is not stopped, every accepted call returns.           *)
AnsweredUnlessStopped ==
  \A c \in Clients : Waiting(c) ~> (Idle(c) \/ StopRequested)

(* After the last fault the connection is up for good, or the driver was   *)
(* stopped: no order of faults leaves it disconnected for ever.            *)
Recovers ==
  lifecycle = "running" ~> [](state = "Connected" \/ StopRequested)

(* Stop returns, whatever the thread is doing when it is called.           *)
StopCompletes == StopRequested ~> (lifecycle = "stopped" /\ state = "Stopped")

(* IMessageBusService.h:30 documents that a call returns Ok or an error;   *)
(* so does every other operation of the service.                           *)
EveryCallReturns == \A c \in Clients : Waiting(c) ~> Idle(c)

=============================================================================

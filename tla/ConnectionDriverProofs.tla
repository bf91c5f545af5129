----------------------- MODULE ConnectionDriverProofs -----------------------
(***************************************************************************)
(* Theorems about ConnectionDriver, for every set of clients, every        *)
(* configuration and every bound.                                          *)
(***************************************************************************)
EXTENDS ConnectionDriver, SequenceLemmas, TLAPS

-----------------------------------------------------------------------------
(* Type correctness.                                                       *)

LEMMA StepCases ==
  ASSUME [Next]_vars
  PROVE  \/ StartDriver \/ RequestStop \/ JoinThread \/ StopDone
         \/ \E c \in Clients : Return(c)
         \/ \E c \in Clients, o \in Ops : Enqueue(c, o)
         \/ ThreadStarts \/ TestStop \/ SwapCommands \/ RunCommand
         \/ DrainDone \/ FlushSome \/ FlushNothing \/ FlushFails
         \/ ConnectSucceeds \/ ConnectFails \/ NoAttempt \/ ServeLink
         \/ HandshakeDone \/ BootstrapReply \/ BootstrapRefused
         \/ DeclareConfirmed \/ DeclareRefused \/ ConnectionError
         \/ LinkFault \/ PumpDone \/ CheckDisconnect \/ DropConnection
         \/ SettleState
         \/ UNCHANGED vars
BY DEF Next, DriverStep, StopStep, PumpFrame

LEMMA AnswerAllType ==
  ASSUME TypeOK, NEW S, NEW a \in Answers, AnswerAll(S, a)
  PROVE  result' \in [Clients -> Answers \cup {NoCall, Unanswered}]
BY DEF TypeOK, AnswerAll

(* The values a cleared queue, buffer and rebuild have are in their types. *)
LEMMA ClearedType ==
  /\ <<>> \in Seq(Clients)
  /\ <<>> \in Seq(Nat)
  /\ 0 \in Aborted .. TotalSteps
  /\ Aborted \in Aborted .. TotalSteps
<1>1. <<>> \in Seq(Clients) /\ <<>> \in Seq(Nat)
  BY EmptySeq
<1>2. TotalSteps \in Nat
  BY DriverAssumption DEF TotalSteps
<1> QED
  BY <1>1, <1>2 DEF Aborted

(* What send() took and what it left are sequences of tickets.             *)
LEMMA SendFirstType ==
  ASSUME TypeOK, NEW n \in Nat, n <= Len(outbound), SendFirst(n)
  PROVE  outbound' \in Seq(Nat) /\ wire' \in Seq(Nat)
<1>1. Len(outbound) \in Nat /\ \A i \in 1 .. Len(outbound) : outbound[i] \in Nat
  BY LenProperties, ElementOfSeq DEF TypeOK
<1>2. SubSeq(outbound, 1, n) \in Seq(Nat)
  BY <1>1, SubSeqProperties
<1>3. SubSeq(outbound, n + 1, Len(outbound)) \in Seq(Nat)
  BY <1>1, SubSeqProperties
<1>4. wire \o SubSeq(outbound, 1, n) \in Seq(Nat)
  BY <1>2, ConcatProperties DEF TypeOK
<1> QED
  BY <1>3, <1>4 DEF SendFirst

LEMMA InitTypeOK == Init => TypeOK
<1> SUFFICES ASSUME Init PROVE TypeOK
  OBVIOUS
<1>1. /\ op \in [Clients -> Ops \cup {NoCall}]
      /\ result \in [Clients -> Answers \cup {NoCall, Unanswered}]
      /\ ticket \in [Clients -> Nat]
      /\ accepted \in Nat /\ faults \in Nat
  BY DEF Init
<1>2. /\ lifecycle \in Lifecycle
      /\ thread \in ThreadPoints
      /\ state \in ConnectionState
  BY DEF Init, Lifecycle, ThreadPoints, ConnectionState
<1>3. /\ commands \in Seq(Clients) /\ local \in Seq(Clients)
      /\ inflight \in Seq(Clients)
      /\ outbound \in Seq(Nat) /\ wire \in Seq(Nat)
      /\ boot \in Aborted .. TotalSteps
  BY ClearedType DEF Init
<1>4. reconnect \in BOOLEAN
  BY DriverAssumption DEF Init
<1> QED
  BY <1>1, <1>2, <1>3, <1>4 DEF Init, TypeOK

(* A step keeps every variable in its type.                                *)
LEMMA NextTypeOK ==
  ASSUME TypeOK, [Next]_vars
  PROVE  TypeOK'
<1> USE DriverAssumption
    DEF clientVars, lifeVars, linkVars, queueVars, bufferVars, GoTo,
        Lifecycle, ThreadPoints, ConnectionState
<1>1. CASE StartDriver BY <1>1 DEF StartDriver, TypeOK
<1>2. CASE RequestStop BY <1>2 DEF RequestStop, TypeOK
<1>3. CASE JoinThread BY <1>3 DEF JoinThread, TypeOK
<1>4. CASE StopDone BY <1>4 DEF StopDone, TypeOK
<1>5. ASSUME NEW c \in Clients, Return(c) PROVE TypeOK'
  BY <1>5 DEF Return, TypeOK
<1>6. ASSUME NEW c \in Clients, NEW o \in Ops, Enqueue(c, o) PROVE TypeOK'
  <2>1. commands' \in Seq(Clients)
    BY <1>6, AppendProperties DEF Enqueue, TypeOK
  <2> QED
    BY <1>6, <2>1 DEF Enqueue, TypeOK
<1>7. CASE ThreadStarts BY <1>7 DEF ThreadStarts, TypeOK
<1>8. CASE TestStop BY <1>8 DEF TestStop, TypeOK
<1>9. CASE SwapCommands BY <1>9, EmptySeq DEF SwapCommands, TypeOK
<1>10. CASE RunCommand
  <2> DEFINE c == Head(local)
  <2>1. c \in Clients /\ local' \in Seq(Clients)
    BY <1>10, HeadTailProperties DEF RunCommand, TypeOK
  <2>2. ticket[c] \in Nat
    BY <2>1 DEF TypeOK
  <2>3. /\ result' \in [Clients -> Answers \cup {NoCall, Unanswered}]
        /\ inflight' \in Seq(Clients)
        /\ outbound' \in Seq(Nat)
    <3>1. Append(outbound, ticket[c]) \in Seq(Nat)
      BY <2>2, AppendProperties DEF TypeOK
    <3>2. Append(inflight, c) \in Seq(Clients)
      BY <2>1, AppendProperties DEF TypeOK
    <3>3. CASE PublishBody(c)
      BY <3>1, <3>3, AnswerAllType DEF PublishBody, Send, TypeOK, Answers
    <3>4. CASE DeclareBody(c)
      BY <3>1, <3>2, <3>4, AnswerAllType
         DEF DeclareBody, Send, TypeOK, Answers
    <3>5. CASE CompleteBody(c)
      BY <3>1, <3>5, AnswerAllType DEF CompleteBody, Send, TypeOK, Answers
    <3> QED
      BY <1>10, <3>3, <3>4, <3>5 DEF RunCommand
  <2> QED
    BY <1>10, <2>1, <2>3 DEF RunCommand, TypeOK
<1>11. CASE DrainDone BY <1>11 DEF DrainDone, TypeOK
<1>12. CASE FlushSome
  <2>1. PICK n \in 1 .. Len(outbound) : SendFirst(n)
    BY <1>12 DEF FlushSome
  <2>2. outbound' \in Seq(Nat) /\ wire' \in Seq(Nat)
    BY <2>1, LenProperties, SendFirstType DEF TypeOK
  <2> QED
    BY <1>12, <2>2 DEF FlushSome, FlushExit, AtFlush, TypeOK
<1>13. CASE FlushNothing
  BY <1>13 DEF FlushNothing, FlushExit, AtFlush, TypeOK
<1>14. CASE FlushFails
  <2>1. PICK n \in 0 .. Len(outbound) - 1 : SendFirst(n)
    BY <1>14 DEF FlushFails
  <2>2. outbound' \in Seq(Nat) /\ wire' \in Seq(Nat)
    BY <2>1, LenProperties, SendFirstType DEF TypeOK
  <2>3. thread' \in ThreadPoints
    BY <1>14 DEF FlushFails, FlushExit, AtFlush, GoTo, ThreadPoints
  <2>4. faults' \in Nat
    BY <1>14 DEF FlushFails, TypeOK
  <2> QED
    BY <1>14, <2>2, <2>3, <2>4 DEF FlushFails, TypeOK, clientVars, queueVars
<1>15. CASE ConnectSucceeds
  BY <1>15, ClearedType DEF ConnectSucceeds, TypeOK
<1>16. CASE ConnectFails BY <1>16 DEF ConnectFails, DownState, TypeOK
<1>17. CASE NoAttempt BY <1>17 DEF NoAttempt, TypeOK
<1>18. CASE ServeLink BY <1>18 DEF ServeLink, TypeOK
<1>19. CASE HandshakeDone
  BY <1>19 DEF HandshakeDone, BootstrapReached, TypeOK, Aborted, TotalSteps
<1>20. CASE BootstrapReply
  BY <1>20
     DEF BootstrapReply, Rebuilding, BootstrapReached, TypeOK, Aborted,
         TotalSteps
<1>21. CASE BootstrapRefused
  BY <1>21, ClearedType DEF BootstrapRefused, TypeOK
<1>22. CASE DeclareConfirmed
  <2>1. inflight' \in Seq(Clients)
    BY <1>22, HeadTailProperties DEF DeclareConfirmed, AwaitsReply, TypeOK
  <2>2. result' \in [Clients -> Answers \cup {NoCall, Unanswered}]
    BY <1>22, AnswerAllType DEF DeclareConfirmed, Answers
  <2> QED
    BY <1>22, <2>1, <2>2 DEF DeclareConfirmed, TypeOK
<1>23. FailInflight =>
         /\ result' \in [Clients -> Answers \cup {NoCall, Unanswered}]
         /\ inflight' \in Seq(Clients)
  BY AnswerAllType, EmptySeq DEF FailInflight, Answers
<1>24. CASE DeclareRefused BY <1>23, <1>24 DEF DeclareRefused, TypeOK
<1>25. CASE ConnectionError
  BY <1>23, <1>25, ClearedType DEF ConnectionError, TypeOK
<1>26. CASE LinkFault BY <1>26 DEF LinkFault, TypeOK
<1>27. CASE PumpDone BY <1>27 DEF PumpDone, TypeOK
<1>28. CASE CheckDisconnect BY <1>28 DEF CheckDisconnect, TypeOK
<1>29. CASE DropConnection
  BY <1>23, <1>29, ClearedType DEF DropConnection, TypeOK
<1>30. CASE SettleState BY <1>30 DEF SettleState, DownState, TypeOK
<1>31. CASE UNCHANGED vars BY <1>31 DEF vars, TypeOK
<1> QED
  BY <1>1, <1>2, <1>3, <1>4, <1>5, <1>6, <1>7, <1>8, <1>9, <1>10, <1>11,
     <1>12, <1>13, <1>14, <1>15, <1>16, <1>17, <1>18, <1>19, <1>20, <1>21,
     <1>22, <1>24, <1>25, <1>26, <1>27, <1>28, <1>29, <1>30, <1>31,
     StepCases

(* Every variable of the driver keeps its type in every behaviour.         *)
THEOREM TypeCorrect == Spec => []TypeOK
BY InitTypeOK, NextTypeOK, PTL DEF Spec

-----------------------------------------------------------------------------
(* The connection: which parts of it are valid at each control point of    *)
(* the thread. LinkInv is inductive given the types.                       *)

LEMMA InitLinkInv == Init => LinkInv
BY DEF Init, LinkInv, StopRequested

LEMMA NextLinkInv ==
  ASSUME TypeOK, LinkInv, [Next]_vars
  PROVE  LinkInv'
<1> USE DEF clientVars, lifeVars, linkVars, queueVars, bufferVars, GoTo, LinkInv,
            StopRequested
<1>1. CASE StartDriver BY <1>1 DEF StartDriver
<1>2. CASE RequestStop BY <1>2 DEF RequestStop
<1>3. CASE JoinThread BY <1>3 DEF JoinThread
<1>4. CASE StopDone BY <1>4 DEF StopDone
<1>5. ASSUME NEW c \in Clients, Return(c) PROVE LinkInv'
  BY <1>5 DEF Return
<1>6. ASSUME NEW c \in Clients, NEW o \in Ops, Enqueue(c, o) PROVE LinkInv'
  BY <1>6 DEF Enqueue
<1>7. CASE ThreadStarts BY <1>7 DEF ThreadStarts
<1>8. CASE TestStop BY <1>8 DEF TestStop
<1>9. CASE SwapCommands BY <1>9 DEF SwapCommands
<1>10. CASE RunCommand
  <2>1. inflight' # <<>> => inflight # <<>> \/ ready
    BY <1>10 DEF RunCommand, PublishBody, DeclareBody, CompleteBody, IsReady
  <2> QED
    BY <1>10, <2>1 DEF RunCommand
<1>11. CASE DrainDone BY <1>11 DEF DrainDone
<1>12. CASE FlushSome BY <1>12 DEF FlushSome, FlushExit, AtFlush
<1>13. CASE FlushNothing BY <1>13 DEF FlushNothing, FlushExit, AtFlush
<1>14. CASE FlushFails BY <1>14 DEF FlushFails, FlushExit, AtFlush
<1>15. CASE ConnectSucceeds BY <1>15 DEF ConnectSucceeds, MayConnect
<1>16. CASE ConnectFails BY <1>16 DEF ConnectFails, DownState, MayConnect
<1>17. CASE NoAttempt BY <1>17 DEF NoAttempt
<1>18. CASE ServeLink BY <1>18 DEF ServeLink
<1>19. CASE HandshakeDone BY <1>19 DEF HandshakeDone, BootstrapReached, AtPump
<1>20. CASE BootstrapReply
  <2>1. boot + 1 \in Int /\ TotalSteps \in Int
    BY DriverAssumption DEF TypeOK, TotalSteps, Aborted
  <2>2. ~ready /\ handshake /\ connected
    BY <1>20, <2>1 DEF BootstrapReply, Rebuilding, AtPump
  <2> QED
    BY <1>20, <2>1, <2>2 DEF BootstrapReply, BootstrapReached, AtPump
<1>21. CASE BootstrapRefused BY <1>21 DEF BootstrapRefused, Rebuilding, AtPump
<1>22. CASE DeclareConfirmed BY <1>22 DEF DeclareConfirmed, AwaitsReply, AtPump
<1>23. CASE DeclareRefused BY <1>23 DEF DeclareRefused, FailInflight, AtPump
<1>24. CASE ConnectionError BY <1>24 DEF ConnectionError, FailInflight, AtPump
<1>25. CASE LinkFault BY <1>25 DEF LinkFault, AtPump
<1>26. CASE PumpDone BY <1>26 DEF PumpDone
<1>27. CASE CheckDisconnect BY <1>27 DEF CheckDisconnect
<1>28. CASE DropConnection BY <1>28 DEF DropConnection, FailInflight
<1>29. CASE SettleState BY <1>29 DEF SettleState, DownState
<1>30. CASE UNCHANGED vars BY <1>30 DEF vars
<1> QED
  BY <1>1, <1>2, <1>3, <1>4, <1>5, <1>6, <1>7, <1>8, <1>9, <1>10, <1>11,
     <1>12, <1>13, <1>14, <1>15, <1>16, <1>17, <1>18, <1>19, <1>20, <1>21,
     <1>22, <1>23, <1>24, <1>25, <1>26, <1>27, <1>28, <1>29, <1>30,
     StepCases

THEOREM LinkCorrect == Spec => [](TypeOK /\ LinkInv)
<1>1. Init => TypeOK /\ LinkInv
  BY InitTypeOK, InitLinkInv
<1>2. TypeOK /\ LinkInv /\ [Next]_vars => (TypeOK /\ LinkInv)'
  BY NextTypeOK, NextLinkInv
<1> QED
  BY <1>1, <1>2, PTL DEF Spec

(* A driver that reports Connected has its whole topology rebuilt on the   *)
(* connection in use, outside the two halves of HandleDisconnect.          *)
THEOREM ConnectedImpliesUsable == Spec => []ConnectedIsUsable
<1>1. TypeOK /\ LinkInv => ConnectedIsUsable
  BY DEF LinkInv, ConnectedIsUsable
<1> QED
  BY <1>1, LinkCorrect, PTL

(* No declaration awaits its reply on a connection that is not rebuilt.    *)
THEOREM InflightImpliesReady == Spec => []InflightOnlyWhenReady
<1>1. TypeOK /\ LinkInv => InflightOnlyWhenReady
  BY DEF LinkInv, InflightOnlyWhenReady
<1> QED
  BY <1>1, LinkCorrect, PTL

(* The thread leaves no drained and no sent command unanswered behind, and *)
(* its end shows in the published state, stopped or not.                   *)
THEOREM ExitLeavesOnlyQueue == Spec => []OnlyQueuedCallsStrand
<1>1. TypeOK /\ LinkInv => OnlyQueuedCallsStrand
  BY DEF LinkInv, OnlyQueuedCallsStrand
<1> QED
  BY <1>1, LinkCorrect, PTL

-----------------------------------------------------------------------------
(* The calls: each blocked caller's command is in exactly one queue.       *)

LEMMA InitCallInOnePlace == Init => CallInOnePlace
BY EmptyToSet DEF Init, CallInOnePlace, Waiting, Unanswered, NoCall

(* Answering exactly the elements of the queue of declarations.            *)
LEMMA FailInflightKeepsCalls ==
  ASSUME TypeOK, CallInOnePlace, FailInflight, UNCHANGED <<commands, local>>
  PROVE  CallInOnePlace'
<1>1. ToSet(inflight') = {} /\ IsInjective(inflight')
  BY EmptyToSet DEF FailInflight
<1>2. \A c \in Clients :
        Waiting(c)' <=> Waiting(c) /\ c \notin ToSet(inflight)
  BY DEF FailInflight, AnswerAll, Waiting, Unanswered, TypeOK
<1> QED
  BY <1>1, <1>2 DEF CallInOnePlace

LEMMA NextCallInOnePlace ==
  ASSUME TypeOK, LinkInv, CallInOnePlace, [Next]_vars
  PROVE  CallInOnePlace'
<1> USE DEF clientVars, lifeVars, linkVars, queueVars, bufferVars
<1>1. ASSUME UNCHANGED <<result, queueVars>>
      PROVE  CallInOnePlace'
  BY <1>1 DEF CallInOnePlace, Waiting
<1>2. ASSUME NEW c \in Clients, Return(c) PROVE CallInOnePlace'
  <2>1. \A d \in Clients : Waiting(d)' <=> Waiting(d)
    BY <1>2 DEF Return, Waiting, Answers, Unanswered, NoCall, TypeOK
  <2> QED
    BY <1>2, <2>1 DEF Return, CallInOnePlace
<1>3. ASSUME NEW c \in Clients, NEW o \in Ops, Enqueue(c, o)
      PROVE  CallInOnePlace'
  <2>1. ~Waiting(c)
    BY <1>3 DEF Enqueue, Idle, Waiting, NoCall, Unanswered
  <2>2. /\ c \notin ToSet(commands)
        /\ c \notin ToSet(local)
        /\ c \notin ToSet(inflight)
    BY <2>1 DEF CallInOnePlace
  <2>3. /\ ToSet(commands') = ToSet(commands) \cup {c}
        /\ IsInjective(commands')
    BY <1>3, <2>2, AppendToSet, AppendDistinct
       DEF Enqueue, TypeOK, CallInOnePlace
  <2>4. \A d \in Clients : Waiting(d)' <=> Waiting(d) \/ d = c
    BY <1>3 DEF Enqueue, Waiting, TypeOK
  <2>5. UNCHANGED <<local, inflight>>
    BY <1>3 DEF Enqueue
  <2> QED
    BY <2>2, <2>3, <2>4, <2>5 DEF CallInOnePlace
<1>4. CASE SwapCommands
  <2>1. local = <<>>
    BY <1>4 DEF SwapCommands, LinkInv
  <2>2. ToSet(local) = {} /\ ToSet(commands') = {} /\ IsInjective(commands')
    BY <1>4, <2>1, EmptyToSet DEF SwapCommands
  <2>3. local' = commands /\ UNCHANGED <<result, inflight>>
    BY <1>4 DEF SwapCommands
  <2> QED
    BY <2>2, <2>3 DEF CallInOnePlace, Waiting
<1>5. CASE RunCommand
  <2> DEFINE c == Head(local)
  <2>1. /\ c \in Clients /\ c \in ToSet(local)
        /\ ToSet(local') = ToSet(local) \ {c}
        /\ IsInjective(local')
    BY <1>5, TailToSet DEF RunCommand, TypeOK, CallInOnePlace
  <2>2. /\ c \notin ToSet(commands) /\ c \notin ToSet(inflight)
        /\ commands' = commands
    BY <1>5, <2>1 DEF RunCommand, CallInOnePlace
  <2>3. ASSUME NEW a \in Answers, AnswerAll({c}, a), inflight' = inflight
        PROVE  CallInOnePlace'
    <3>1. \A d \in Clients : Waiting(d)' <=> Waiting(d) /\ d # c
      BY <2>3 DEF AnswerAll, Waiting, Answers, Unanswered, TypeOK
    <3> QED
      BY <2>1, <2>2, <2>3, <3>1 DEF CallInOnePlace
  <2>4. ASSUME inflight' = Append(inflight, c), result' = result
        PROVE  CallInOnePlace'
    <3>1. /\ ToSet(inflight') = ToSet(inflight) \cup {c}
          /\ IsInjective(inflight')
      BY <2>1, <2>2, <2>4, AppendToSet, AppendDistinct
         DEF TypeOK, CallInOnePlace
    <3> QED
      BY <2>1, <2>2, <2>4, <3>1 DEF CallInOnePlace, Waiting
  <2>5. CASE PublishBody(c)
    BY <2>3, <2>5 DEF PublishBody, Answers
  <2>6. CASE DeclareBody(c)
    BY <2>3, <2>4, <2>6 DEF DeclareBody, Answers
  <2>7. CASE CompleteBody(c)
    BY <2>3, <2>7 DEF CompleteBody, Answers
  <2> QED
    BY <1>5, <2>5, <2>6, <2>7 DEF RunCommand
<1>6. CASE DeclareConfirmed
  <2> DEFINE c == Head(inflight)
  <2>1. /\ c \in Clients /\ c \in ToSet(inflight)
        /\ ToSet(inflight') = ToSet(inflight) \ {c}
        /\ IsInjective(inflight')
    BY <1>6, TailToSet DEF DeclareConfirmed, AwaitsReply, TypeOK, CallInOnePlace
  <2>2. \A d \in Clients : Waiting(d)' <=> Waiting(d) /\ d # c
    BY <1>6 DEF DeclareConfirmed, AnswerAll, Waiting, Unanswered, TypeOK
  <2>3. UNCHANGED <<commands, local>>
    BY <1>6 DEF DeclareConfirmed
  <2> QED
    BY <2>1, <2>2, <2>3 DEF CallInOnePlace
<1>7. CASE DeclareRefused
  BY <1>7, FailInflightKeepsCalls DEF DeclareRefused
<1>8. CASE ConnectionError
  BY <1>8, FailInflightKeepsCalls DEF ConnectionError
<1>9. CASE DropConnection
  BY <1>9, FailInflightKeepsCalls DEF DropConnection
<1>10. \/ StartDriver \/ RequestStop \/ JoinThread \/ StopDone
       \/ ThreadStarts \/ TestStop \/ DrainDone
       \/ FlushSome \/ FlushNothing \/ FlushFails
       => UNCHANGED <<result, queueVars>>
  BY DEF StartDriver, RequestStop, JoinThread, StopDone, ThreadStarts,
         TestStop, DrainDone, FlushSome, FlushNothing, FlushFails
<1>11. \/ ConnectSucceeds \/ ConnectFails \/ NoAttempt \/ ServeLink
       \/ HandshakeDone \/ BootstrapReply \/ BootstrapRefused
       \/ LinkFault \/ PumpDone \/ CheckDisconnect \/ SettleState
       \/ UNCHANGED vars
       => UNCHANGED <<result, queueVars>>
  BY DEF ConnectSucceeds, ConnectFails, NoAttempt, ServeLink, HandshakeDone,
         BootstrapReply, BootstrapRefused, LinkFault, PumpDone,
         CheckDisconnect, SettleState, vars
<1> QED
  BY <1>1, <1>2, <1>3, <1>4, <1>5, <1>6, <1>7, <1>8, <1>9, <1>10, <1>11,
     StepCases

(* No step of the driver loses the command of a blocked caller, and none   *)
(* keeps the command of a caller that was answered.                        *)
THEOREM CallsAreAccounted == Spec => []CallInOnePlace
<1>1. Init => TypeOK /\ LinkInv /\ CallInOnePlace
  BY InitTypeOK, InitLinkInv, InitCallInOnePlace
<1>2. TypeOK /\ LinkInv /\ CallInOnePlace /\ [Next]_vars
        => (TypeOK /\ LinkInv /\ CallInOnePlace)'
  BY NextTypeOK, NextLinkInv, NextCallInOnePlace
<1> QED
  BY <1>1, <1>2, PTL DEF Spec

-----------------------------------------------------------------------------
(* The action properties.                                                  *)

(* No step leaves the state Stopped, and Error only for Stopped, without a *)
(* connection.                                                             *)
THEOREM EndStatesStay == Spec => EndStatesAreFinal
<1>1. TypeOK /\ LinkInv /\ [Next]_vars
        => [state = "Stopped" => state' = "Stopped"]_vars
  <2> SUFFICES ASSUME TypeOK, LinkInv, [Next]_vars, state = "Stopped"
               PROVE  state' = "Stopped"
    OBVIOUS
  <2>1. /\ lifecycle # "created" /\ StopRequested /\ ~connected
        /\ thread \in {"top", "finish", "finishSettle", "exited"}
    BY DEF LinkInv, StopRequested
  <2> QED
    BY <2>1, StepCases
       DEF StartDriver, RequestStop, JoinThread, StopDone, Return, Enqueue,
           ThreadStarts, TestStop, SwapCommands, RunCommand, DrainDone,
           FlushSome, FlushNothing, FlushFails, ConnectSucceeds, ConnectFails,
           NoAttempt, ServeLink, HandshakeDone, BootstrapReply,
           BootstrapRefused, DeclareConfirmed, DeclareRefused,
           ConnectionError, LinkFault, PumpDone, CheckDisconnect,
           DropConnection, SettleState, AtPump, vars
<1>2. TypeOK /\ LinkInv /\ [Next]_vars
        => [state = "Error" =>
              state' \in {"Error", "Stopped"} /\ ~connected']_vars
  <2> SUFFICES ASSUME TypeOK, LinkInv, [Next]_vars, state = "Error"
               PROVE  state' \in {"Error", "Stopped"} /\ ~connected'
    OBVIOUS
  <2>1. /\ lifecycle # "created" /\ thread # "unstarted" /\ ~connected
        /\ thread = "exited" \/ ~reconnect
    BY DEF LinkInv
  <2>2. CASE UNCHANGED <<state, connected>>
    BY <2>1, <2>2
  <2>3. CASE StartDriver \/ StopDone \/ ThreadStarts
    BY <2>1, <2>3 DEF StartDriver, StopDone, ThreadStarts, linkVars
  <2>4. CASE ConnectSucceeds \/ ConnectFails \/ SettleState
    BY <2>1, <2>4 DEF ConnectSucceeds, ConnectFails, SettleState, MayConnect,
                      DownState, linkVars
  <2>5. CASE HandshakeDone \/ BootstrapReply
    BY <2>1, <2>5 DEF HandshakeDone, BootstrapReply, AtPump
  <2>6. CASE DropConnection
    BY <2>6 DEF DropConnection
  <2>7. \/ RequestStop \/ JoinThread
        \/ \E c \in Clients : Return(c)
        \/ \E c \in Clients, o \in Ops : Enqueue(c, o)
        \/ TestStop \/ SwapCommands \/ RunCommand \/ DrainDone
        => UNCHANGED <<state, connected>>
    BY DEF RequestStop, JoinThread, Return, Enqueue, TestStop, SwapCommands,
           RunCommand, DrainDone, linkVars
  <2>8. \/ FlushSome \/ FlushNothing \/ FlushFails \/ NoAttempt \/ ServeLink
        \/ BootstrapRefused \/ DeclareConfirmed \/ DeclareRefused
        \/ ConnectionError \/ LinkFault \/ PumpDone \/ CheckDisconnect
        \/ UNCHANGED vars
        => UNCHANGED <<state, connected>>
    BY DEF FlushSome, FlushNothing, FlushFails, NoAttempt, ServeLink,
           BootstrapRefused, DeclareConfirmed, DeclareRefused,
           ConnectionError, LinkFault, PumpDone, CheckDisconnect, linkVars,
           vars
  <2> QED
    BY <2>2, <2>3, <2>4, <2>5, <2>6, <2>7, <2>8, StepCases
<1> QED
  BY <1>1, <1>2, LinkCorrect, PTL DEF Spec, EndStatesAreFinal

-----------------------------------------------------------------------------
(* The frames: what was sent, what is buffered, what is still queued.      *)

Sent == wire \o outbound

(* Without a connection nothing is buffered.                               *)
BufferInv == ~connected => outbound = <<>>

(* The three things a step may do to the frames: leave them as they are,   *)
(* buffer the frame of the command at the head of the batch, or lose the   *)
(* buffer with the connection.                                             *)
BufferKept == wire' \o outbound' = Sent /\ (~connected' => outbound' = <<>>)
BufferGrows ==
  /\ RunCommand /\ connected
  /\ outbound' = Append(outbound, ticket[Head(local)])
BufferLost ==
  connected /\ ~connected' /\ outbound' = <<>> /\ wire' = wire

LEMMA SendFirstKeepsFrames ==
  ASSUME TypeOK, NEW n \in 0 .. Len(outbound), SendFirst(n)
  PROVE  wire' \o outbound' = Sent
<1>1. wire \in Seq(Nat) /\ outbound \in Seq(Nat)
  BY DEF TypeOK
<1>2. (wire \o SubSeq(outbound, 1, n)) \o SubSeq(outbound, n + 1, Len(outbound))
        = wire \o outbound
  BY <1>1, CutKeepsConcat
<1> QED
  BY <1>2, Zenon DEF SendFirst, Sent

LEMMA BufferCases ==
  ASSUME TypeOK, LinkInv, BufferInv, [Next]_vars
  PROVE  BufferKept \/ BufferGrows \/ BufferLost
<1> USE DEF clientVars, lifeVars, linkVars, queueVars, bufferVars
<1>1. ASSUME UNCHANGED bufferVars, connected' = connected PROVE BufferKept
  BY <1>1 DEF BufferKept, Sent, BufferInv
<1>2. CASE RunCommand
  <2>1. wire' = wire /\ connected' = connected
    BY <1>2 DEF RunCommand
  <2>2. outbound' = outbound \/ (Send(Head(local)) /\ connected)
    BY <1>2 DEF RunCommand, PublishBody, DeclareBody, CompleteBody, IsReady,
                HasRuntime, LinkInv
  <2> QED
    BY <1>1, <1>2, <2>1, <2>2 DEF Send, BufferGrows
<1>3. CASE FlushSome \/ FlushFails
  <2>1. /\ connected /\ connected' = connected
        /\ \E n \in 0 .. Len(outbound) : SendFirst(n)
    BY <1>3, LenProperties DEF FlushSome, FlushFails, TypeOK
  <2> QED
    BY <2>1, SendFirstKeepsFrames DEF BufferKept
<1>4. CASE ConnectSucceeds
  <2>1. wire' = wire /\ outbound' = outbound
    BY <1>4 DEF ConnectSucceeds, BufferInv
  <2> QED
    BY <1>4, <2>1 DEF ConnectSucceeds, BufferKept, Sent
<1>5. CASE DropConnection
  <2>1. wire' = wire /\ outbound' = <<>> /\ ~connected'
    BY <1>5 DEF DropConnection
  <2>2. CASE connected
    BY <2>1, <2>2 DEF BufferLost
  <2>3. CASE ~connected
    BY <2>1, <2>3 DEF BufferInv, BufferKept, Sent
  <2> QED
    BY <2>2, <2>3
<1>6. \/ StartDriver \/ RequestStop \/ JoinThread \/ StopDone
      \/ \E c \in Clients : Return(c)
      \/ \E c \in Clients, o \in Ops : Enqueue(c, o)
      \/ ThreadStarts \/ TestStop \/ SwapCommands \/ DrainDone
      => UNCHANGED bufferVars /\ connected' = connected
  BY DEF StartDriver, RequestStop, JoinThread, StopDone, Return, Enqueue,
         ThreadStarts, TestStop, SwapCommands, DrainDone
<1>7. \/ FlushNothing \/ ConnectFails \/ NoAttempt \/ ServeLink
      \/ HandshakeDone \/ BootstrapReply \/ BootstrapRefused
      \/ DeclareConfirmed \/ DeclareRefused \/ ConnectionError
      \/ LinkFault \/ PumpDone \/ CheckDisconnect \/ SettleState
      \/ UNCHANGED vars
      => UNCHANGED bufferVars /\ connected' = connected
  BY DEF FlushNothing, ConnectFails, NoAttempt, ServeLink, HandshakeDone,
         BootstrapReply, BootstrapRefused, DeclareConfirmed, DeclareRefused,
         ConnectionError, LinkFault, PumpDone, CheckDisconnect, SettleState,
         vars
<1> QED
  BY <1>1, <1>2, <1>3, <1>4, <1>5, <1>6, <1>7, StepCases

LEMMA NextBufferInv ==
  ASSUME TypeOK, LinkInv, BufferInv, [Next]_vars
  PROVE  BufferInv'
<1>1. BufferGrows => connected'
  BY DEF BufferGrows, RunCommand, linkVars
<1> QED
  BY <1>1, BufferCases DEF BufferInv, BufferKept, BufferLost

LEMMA GrownFrames ==
  ASSUME TypeOK, BufferGrows
  PROVE  /\ ticket[Head(local)] \in Nat
         /\ wire' \o outbound' = Append(Sent, ticket[Head(local)])
         /\ IsPrefix(Sent, wire' \o outbound')
<1>1. Head(local) \in Clients
  BY HeadTailProperties DEF BufferGrows, RunCommand, TypeOK
<1>2. PICK e \in Nat : e = ticket[Head(local)]
  BY <1>1 DEF TypeOK
<1>3. wire' = wire /\ outbound' = Append(outbound, e)
  BY <1>2 DEF BufferGrows, RunCommand
<1>4. /\ wire \o Append(outbound, e) = Append(Sent, e)
      /\ IsPrefix(Sent, wire \o Append(outbound, e))
  BY ConcatAppend DEF TypeOK, Sent
<1> QED
  BY <1>2, <1>3, <1>4, Zenon

LEMMA BuffersCorrect == Spec => [](TypeOK /\ LinkInv /\ BufferInv)
<1>1. Init => TypeOK /\ LinkInv /\ BufferInv
  BY InitTypeOK, InitLinkInv DEF Init, BufferInv
<1>2. TypeOK /\ LinkInv /\ BufferInv /\ [Next]_vars
        => (TypeOK /\ LinkInv /\ BufferInv)'
  BY NextTypeOK, NextLinkInv, NextBufferInv
<1> QED
  BY <1>1, <1>2, PTL DEF Spec

(* No step takes back a frame that was buffered or sent, except the one    *)
(* that ends the connection: a partial, blocked or failed send keeps what  *)
(* the socket did not take, in its place.                                  *)
THEOREM OnlyDisconnectsLose == Spec => OnlyDisconnectLoses
<1>1. TypeOK /\ LinkInv /\ BufferInv /\ [Next]_vars
        => [\/ IsPrefix(wire \o outbound, wire' \o outbound')
            \/ connected /\ ~connected']_vars
  <2> SUFFICES ASSUME TypeOK, LinkInv, BufferInv, [Next]_vars
               PROVE  \/ IsPrefix(Sent, wire' \o outbound')
                      \/ connected /\ ~connected'
    BY DEF Sent
  <2>1. CASE BufferKept
    <3>1. Sent \in Seq(Nat)
      BY ConcatProperties DEF TypeOK, Sent
    <3>2. IsPrefix(Sent, Sent)
      BY <3>1, PrefixOfConcat
    <3> QED
      BY <2>1, <3>2, Zenon DEF BufferKept
  <2>2. CASE BufferGrows
    BY <2>2, GrownFrames
  <2>3. CASE BufferLost
    BY <2>3 DEF BufferLost
  <2> QED
    BY <2>1, <2>2, <2>3, BufferCases
<1> QED
  BY <1>1, BuffersCorrect, PTL DEF Spec, OnlyDisconnectLoses

-----------------------------------------------------------------------------
(* The order of the frames. A frame's ticket is the rank at which its call *)
(* was accepted: p the frames sent and buffered, l those of the batch, q   *)
(* those of the queue; every call accepted so far ranks below n.           *)
Ordered(p, l, q, n) ==
  /\ Rising(p) /\ Rising(l) /\ Rising(q)
  /\ AllBefore(p, l) /\ AllBefore(p, q) /\ AllBefore(l, q)
  /\ AllBelow(p, n) /\ AllBelow(l, n) /\ AllBelow(q, n)

OrderInv ==
  Ordered(Sent, Mapped(ticket, local), Mapped(ticket, commands), accepted + 1)

LEMMA OrderedRun ==
  ASSUME NEW p \in Seq(Nat), NEW l \in Seq(Nat), NEW q \in Seq(Nat),
         NEW n \in Nat, Ordered(p, l, q, n), l # <<>>
  PROVE  /\ Ordered(p, Tail(l), q, n)
         /\ Ordered(Append(p, Head(l)), Tail(l), q, n)
<1>1. /\ Tail(l) \in Seq(Nat) /\ Head(l) \in Nat /\ Head(l) < n
      /\ AllBelow(Tail(l), n)
  BY HeadTailProperties, BelowTail DEF Ordered
<1>2. /\ Rising(Tail(l))
      /\ \A j \in DOMAIN Tail(l) : Head(l) < Tail(l)[j]
      /\ AllBefore(Tail(l), q) /\ \A j \in DOMAIN q : Head(l) < q[j]
      /\ AllBefore(p, Tail(l)) /\ AllBelow(p, Head(l))
  BY RisingTail DEF Ordered
<1>3. Ordered(p, Tail(l), q, n)
  BY <1>1, <1>2 DEF Ordered
<1>4. /\ Rising(Append(p, Head(l)))
      /\ AllBelow(Append(p, Head(l)), n)
      /\ AllBefore(Append(p, Head(l)), Tail(l))
      /\ AllBefore(Append(p, Head(l)), q)
  BY <1>1, <1>2, RisingAppend DEF Ordered
<1> QED
  BY <1>1, <1>2, <1>3, <1>4 DEF Ordered

LEMMA OrderedSwap ==
  ASSUME NEW p, NEW q, NEW n, Ordered(p, <<>>, q, n)
  PROVE  Ordered(p, q, <<>>, n)
BY RisingEmpty DEF Ordered, AllBelow

LEMMA OrderedEnqueue ==
  ASSUME NEW p \in Seq(Nat), NEW l \in Seq(Nat), NEW q \in Seq(Nat),
         NEW n \in Nat, Ordered(p, l, q, n)
  PROVE  Ordered(p, l, Append(q, n), n + 1)
<1>1. /\ \A i \in DOMAIN p : p[i] \in Nat
      /\ \A i \in DOMAIN l : l[i] \in Nat
      /\ \A i \in DOMAIN q : q[i] \in Nat
  BY ElementOfSeq, LenProperties
<1>2. AllBelow(p, n + 1) /\ AllBelow(l, n + 1) /\ AllBelow(q, n + 1)
  BY <1>1 DEF Ordered, AllBelow
<1>3. /\ Rising(Append(q, n)) /\ AllBelow(Append(q, n), n + 1)
      /\ AllBefore(p, Append(q, n)) /\ AllBefore(l, Append(q, n))
  BY <1>2, RisingAppend DEF Ordered
<1> QED
  BY <1>2, <1>3 DEF Ordered

(* Losing the buffer leaves a shorter sequence in the same order.          *)
LEMMA OrderedLoss ==
  ASSUME NEW w \in Seq(Nat), NEW b \in Seq(Nat), NEW l \in Seq(Nat),
         NEW q \in Seq(Nat), NEW n, Ordered(w \o b, l, q, n)
  PROVE  Ordered(w, l, q, n)
BY RisingConcat, BelowConcat DEF Ordered

LEMMA OrderedWhole ==
  ASSUME NEW p \in Seq(Nat), NEW l \in Seq(Nat), NEW q \in Seq(Nat),
         NEW n, Ordered(p, l, q, n)
  PROVE  Rising((p \o l) \o q)
<1>1. p \o l \in Seq(Nat)
  BY ConcatProperties
<1>2. Rising(p \o l) /\ AllBefore(p \o l, q)
  BY RisingConcat DEF Ordered
<1> QED
  BY <1>1, <1>2, RisingConcat DEF Ordered

LEMMA TicketTypes ==
  ASSUME TypeOK
  PROVE  /\ Sent \in Seq(Nat) /\ accepted + 1 \in Nat
         /\ Mapped(ticket, local) \in Seq(Nat)
         /\ Mapped(ticket, commands) \in Seq(Nat)
<1>1. Sent \in Seq(Nat)
  BY ConcatProperties DEF TypeOK, Sent
<1>2. /\ Mapped(ticket, local) \in Seq(Nat)
      /\ Mapped(ticket, commands) \in Seq(Nat)
  BY MappedType DEF TypeOK
<1> QED
  BY <1>1, <1>2 DEF TypeOK

LEMMA InitOrderInv == Init => OrderInv
<1> SUFFICES ASSUME Init PROVE OrderInv
  OBVIOUS
<1>1. Sent = <<>> /\ Mapped(ticket, local) = <<>> /\ Mapped(ticket, commands) = <<>>
  BY DEF Init, Sent, Mapped
<1> QED
  BY <1>1, RisingEmpty DEF OrderInv, Ordered, AllBelow

LEMMA NextOrderInv ==
  ASSUME TypeOK, LinkInv, BufferInv, CallInOnePlace, OrderInv, [Next]_vars
  PROVE  OrderInv'
<1> USE DEF clientVars, lifeVars, linkVars, queueVars, bufferVars
<1> DEFINE L == Mapped(ticket, local)  Q == Mapped(ticket, commands)
<1>1. ASSUME UNCHANGED <<accepted, commands, local>>,
             \A c \in ToSet(commands) \cup ToSet(local) : ticket'[c] = ticket[c],
             BufferKept \/ BufferLost
      PROVE  OrderInv'
  <2>1. Mapped(ticket', local') = L /\ Mapped(ticket', commands') = Q
    BY <1>1, MappedAlike
  <2>2. Sent' = Sent \/ Sent' = wire
    <3>1. wire \in Seq(Nat)
      BY DEF TypeOK
    <3>2. wire \o <<>> = wire
      BY <3>1, ConcatEmptySeq
    <3> QED
      BY <1>1, <3>2 DEF BufferKept, BufferLost, Sent
  <2>3. Ordered(wire, L, Q, accepted + 1)
    BY TicketTypes, OrderedLoss DEF OrderInv, Sent, TypeOK
  <2> QED
    BY <1>1, <2>1, <2>2, <2>3 DEF OrderInv
<1>2. ASSUME NEW c \in Clients, Return(c) PROVE OrderInv'
  <2>1. ~Waiting(c)
    BY <1>2 DEF Return, Waiting, Answers, Unanswered
  <2>2. c \notin ToSet(commands) \cup ToSet(local)
    BY <2>1 DEF CallInOnePlace
  <2>3. \A d \in ToSet(commands) \cup ToSet(local) : ticket'[d] = ticket[d]
    BY <1>2, <2>2 DEF Return, CallInOnePlace, TypeOK
  <2>4. BufferKept
    BY <1>2 DEF Return, BufferKept, Sent, BufferInv
  <2> QED
    BY <1>1, <1>2, <2>3, <2>4 DEF Return
<1>3. ASSUME NEW c \in Clients, NEW o \in Ops, Enqueue(c, o) PROVE OrderInv'
  <2>1. ~Waiting(c)
    BY <1>3 DEF Enqueue, Idle, Waiting, NoCall, Unanswered
  <2>2. c \notin ToSet(commands) \cup ToSet(local)
    BY <2>1 DEF CallInOnePlace
  <2>3. \A d \in ToSet(commands) \cup ToSet(local) : ticket'[d] = ticket[d]
    BY <1>3, <2>2 DEF Enqueue, CallInOnePlace, TypeOK
  <2>4. Mapped(ticket', local) = L /\ Mapped(ticket', commands) = Q
    BY <2>3, MappedAlike
  <2>5. PICK t \in [Clients -> Nat] : t = ticket' /\ t[c] = accepted + 1
    <3>1. ticket' \in [Clients -> Nat]
      BY NextTypeOK DEF TypeOK
    <3>2. ticket'[c] = accepted + 1
      BY <1>3 DEF Enqueue, TypeOK
    <3> QED
      BY <3>1, <3>2
  <2>6. Mapped(t, Append(commands, c)) = Append(Mapped(t, commands), t[c])
    <3>1. commands \in Seq(Clients)
      BY DEF TypeOK
    <3> QED
      BY <3>1, MappedAppend
  <2>7. Mapped(ticket', commands') = Append(Q, accepted + 1)
    BY <1>3, <2>4, <2>5, <2>6 DEF Enqueue
  <2>8. Ordered(Sent, L, Append(Q, accepted + 1), accepted + 1 + 1)
    BY TicketTypes, OrderedEnqueue DEF OrderInv
  <2>9. Sent' = Sent /\ local' = local /\ accepted' = accepted + 1
    BY <1>3 DEF Enqueue, Sent
  <2> QED
    BY <2>4, <2>7, <2>8, <2>9 DEF OrderInv
<1>4. CASE SwapCommands
  <2>1. local = <<>> /\ local' = commands /\ commands' = <<>>
    BY <1>4 DEF SwapCommands, LinkInv
  <2>2. UNCHANGED <<Sent, ticket, accepted>>
    BY <1>4 DEF SwapCommands, Sent
  <2>3. L = <<>> /\ Mapped(ticket, <<>>) = <<>>
    BY <2>1 DEF Mapped
  <2>4. Ordered(Sent, Q, <<>>, accepted + 1)
    BY <2>3, OrderedSwap DEF OrderInv
  <2> QED
    BY <2>1, <2>2, <2>3, <2>4 DEF OrderInv
<1>5. CASE RunCommand
  <2>1. local # <<>> /\ local' = Tail(local)
    BY <1>5 DEF RunCommand
  <2>2. UNCHANGED <<commands, ticket, accepted, wire, connected>>
    BY <1>5 DEF RunCommand
  <2>3. Mapped(ticket, Tail(local)) = Tail(L) /\ ticket[Head(local)] = Head(L)
    <3>1. ticket \in [Clients -> Nat] /\ local \in Seq(Clients)
      BY DEF TypeOK
    <3> QED
      BY <2>1, <3>1, MappedTail
  <2>4. L # <<>>
    <3>1. ticket \in [Clients -> Nat] /\ local \in Seq(Clients)
      BY DEF TypeOK
    <3> QED
      BY <2>1, <3>1, MappedType
  <2>5. /\ Ordered(Sent, Tail(L), Q, accepted + 1)
        /\ Ordered(Append(Sent, Head(L)), Tail(L), Q, accepted + 1)
    BY <2>4, TicketTypes, OrderedRun DEF OrderInv
  <2>6. Sent' = Sent \/ Sent' = Append(Sent, Head(L))
    <3>1. BufferKept => Sent' = Sent
      BY DEF BufferKept, Sent
    <3>2. BufferGrows => Sent' = Append(Sent, Head(L))
      BY <2>3, GrownFrames DEF Sent
    <3>3. ~BufferLost
      BY <2>2 DEF BufferLost
    <3> QED
      BY <3>1, <3>2, <3>3, BufferCases
  <2> QED
    BY <2>1, <2>2, <2>3, <2>5, <2>6 DEF OrderInv
<1>6. ASSUME UNCHANGED <<accepted, ticket, commands, local>> PROVE OrderInv'
  <2>1. ~BufferGrows
    BY <1>6, HeadTailProperties DEF BufferGrows, RunCommand, TypeOK
  <2> QED
    BY <1>1, <1>6, <2>1, BufferCases
<1>7. \/ StartDriver \/ RequestStop \/ JoinThread \/ StopDone
      \/ ThreadStarts \/ TestStop \/ DrainDone
      \/ FlushSome \/ FlushNothing \/ FlushFails
      \/ ConnectSucceeds \/ ConnectFails \/ NoAttempt \/ ServeLink
      => UNCHANGED <<accepted, ticket, commands, local>>
  BY DEF StartDriver, RequestStop, JoinThread, StopDone, ThreadStarts,
         TestStop, DrainDone, FlushSome, FlushNothing, FlushFails,
         ConnectSucceeds, ConnectFails, NoAttempt, ServeLink
<1>8. \/ HandshakeDone \/ BootstrapReply \/ BootstrapRefused
      \/ DeclareConfirmed \/ DeclareRefused \/ ConnectionError
      \/ LinkFault \/ PumpDone \/ CheckDisconnect \/ DropConnection
      \/ SettleState \/ UNCHANGED vars
      => UNCHANGED <<accepted, ticket, commands, local>>
  BY DEF HandshakeDone, BootstrapReply, BootstrapRefused, DeclareConfirmed,
         DeclareRefused, ConnectionError, LinkFault, PumpDone,
         CheckDisconnect, DropConnection, SettleState, vars
<1> QED
  BY <1>2, <1>3, <1>4, <1>5, <1>6, <1>7, <1>8, StepCases

(* Frames leave in the order their calls were accepted and none twice,     *)
(* whatever the socket took of the buffer and however often the connection *)
(* was lost: a command queued later is never sent before an earlier one.   *)
THEOREM FramesKeepOrder == Spec => []SendOrder
<1>1. Init => TypeOK /\ LinkInv /\ BufferInv /\ CallInOnePlace /\ OrderInv
  BY InitTypeOK, InitLinkInv, InitCallInOnePlace, InitOrderInv
     DEF Init, BufferInv
<1>2. TypeOK /\ LinkInv /\ BufferInv /\ CallInOnePlace /\ OrderInv
        /\ [Next]_vars
        => (TypeOK /\ LinkInv /\ BufferInv /\ CallInOnePlace /\ OrderInv)'
  BY NextTypeOK, NextLinkInv, NextBufferInv, NextCallInOnePlace, NextOrderInv
<1>3. TypeOK /\ OrderInv => SendOrder
  <2> SUFFICES ASSUME TypeOK, OrderInv PROVE SendOrder
    OBVIOUS
  <2>1. Rising(((wire \o outbound) \o Mapped(ticket, local))
                 \o Mapped(ticket, commands))
    BY TicketTypes, OrderedWhole DEF OrderInv, Sent
  <2> QED
    BY <2>1 DEF SendOrder, Rising, Mapped
<1> QED
  BY <1>1, <1>2, <1>3, PTL DEF Spec

-----------------------------------------------------------------------------
(* Refinement: the driver implements CommandService.                       *)

LEMMA InitService == Init => Service!Init
BY DEF Init, Service!Init, CallMap, Idle, CanEnqueue, ThreadAlive

(* A step that answers the calls of S and keeps the thread alive.          *)
LEMMA AnswerIsService ==
  ASSUME TypeOK, NEW S, NEW a \in Answers, AnswerAll(S, a),
         ThreadAlive, ThreadAlive', UNCHANGED lifecycle
  PROVE  Service!Next
<1> DEFINE T == {c \in Clients : c \in S /\ Waiting(c)}
<1>1. \A c \in T : CallMap[c] = "accepted"
  BY DEF CallMap, Idle, Waiting, NoCall, Unanswered
<1>2. CallMap' = [c \in Clients |-> IF c \in T THEN "answered" ELSE CallMap[c]]
  BY DEF AnswerAll, CallMap, Idle, Waiting, NoCall, Unanswered, Answers, TypeOK
<1>3. Service!Answer(T)
  BY <1>1, <1>2 DEF Service!Answer, CanEnqueue
<1> QED
  BY <1>3 DEF Service!Next

LEMMA StepIsService ==
  ASSUME TypeOK, LinkInv, [Next]_vars
  PROVE  [Service!Next]_(Service!vars)
<1> USE DEF clientVars, lifeVars, linkVars, queueVars, bufferVars, GoTo
<1>1. ASSUME UNCHANGED <<result, lifecycle>>, ThreadAlive' = ThreadAlive
      PROVE  UNCHANGED Service!vars
  BY <1>1 DEF Service!vars, CallMap, Idle, Waiting, CanEnqueue
<1>2. CASE StartDriver
  <2>1. Service!Open
    BY <1>2 DEF StartDriver, LinkInv, Service!Open, CanEnqueue, ThreadAlive,
                CallMap, Idle, Waiting
  <2> QED
    BY <2>1 DEF Service!Next
<1>3. CASE RequestStop
  <2>1. Service!Close
    BY <1>3 DEF RequestStop, Service!Close, CanEnqueue, ThreadAlive,
                CallMap, Idle, Waiting
  <2> QED
    BY <2>1 DEF Service!Next
<1>4. CASE JoinThread \/ StopDone
  BY <1>4 DEF JoinThread, StopDone, Service!vars, CallMap, Idle, Waiting,
              CanEnqueue, ThreadAlive
<1>5. ASSUME NEW c \in Clients, Return(c) PROVE Service!Next
  <2>1. Service!Return(c)
    <3>1. CallMap[c] = "answered"
      BY <1>5 DEF Return, CallMap, Idle, Waiting, Answers, NoCall, Unanswered
    <3>2. CallMap' = [CallMap EXCEPT ![c] = "idle"]
      BY <1>5 DEF Return, CallMap, Idle, Waiting, TypeOK
    <3> QED
      BY <1>5, <3>1, <3>2 DEF Return, Service!Return, CanEnqueue, ThreadAlive
  <2> QED
    BY <2>1 DEF Service!Next
<1>6. ASSUME NEW c \in Clients, NEW o \in Ops, Enqueue(c, o)
      PROVE  Service!Next
  <2>1. Service!Accept(c)
    <3>1. CallMap[c] = "idle"
      BY <1>6 DEF Enqueue, CallMap, Idle
    <3>2. CallMap' = [CallMap EXCEPT ![c] = "accepted"]
      BY <1>6 DEF Enqueue, CallMap, Idle, Waiting, NoCall, Unanswered, TypeOK
    <3> QED
      BY <1>6, <3>1, <3>2 DEF Enqueue, Service!Accept, CanEnqueue, ThreadAlive
  <2> QED
    BY <2>1 DEF Service!Next
<1>7. ASSUME ThreadAlive, ~ThreadAlive', UNCHANGED <<result, lifecycle>>
      PROVE  Service!Next
  <2>1. Service!Halt
    BY <1>7 DEF Service!Halt, CallMap, Idle, Waiting, CanEnqueue
  <2> QED
    BY <2>1 DEF Service!Next
<1>8. CASE ThreadStarts \/ SettleState
  BY <1>1, <1>7, <1>8 DEF ThreadStarts, SettleState, ThreadAlive
<1>9. CASE RunCommand
  <2> DEFINE c == Head(local)
  <2>1. ThreadAlive /\ ThreadAlive' /\ UNCHANGED lifecycle
    BY <1>9 DEF RunCommand, ThreadAlive
  <2>2. \/ UNCHANGED result
        \/ \E a \in Answers : AnswerAll({c}, a)
    BY <1>9 DEF RunCommand, PublishBody, DeclareBody, CompleteBody, Answers
  <2> QED
    BY <1>1, <2>1, <2>2, AnswerIsService
<1>10. CASE DeclareConfirmed
  BY <1>10, AnswerIsService DEF DeclareConfirmed, AtPump, ThreadAlive, Answers
<1>11. CASE DeclareRefused \/ ConnectionError \/ DropConnection
  BY <1>11, AnswerIsService
     DEF DeclareRefused, ConnectionError, DropConnection, FailInflight,
         AtPump, ThreadAlive, Answers
<1>12. \/ TestStop \/ SwapCommands \/ DrainDone
       \/ FlushSome \/ FlushNothing \/ FlushFails
       \/ ConnectSucceeds \/ ConnectFails \/ NoAttempt \/ ServeLink
       => UNCHANGED <<result, lifecycle>> /\ ThreadAlive' = ThreadAlive
  BY DEF TestStop, SwapCommands, DrainDone, FlushSome, FlushNothing,
         FlushFails, ConnectSucceeds, ConnectFails, NoAttempt, ServeLink,
         ThreadAlive, FlushExit, AtFlush
<1>13. \/ HandshakeDone \/ BootstrapReply \/ BootstrapRefused
       \/ LinkFault \/ PumpDone \/ CheckDisconnect \/ UNCHANGED vars
       => UNCHANGED <<result, lifecycle>> /\ ThreadAlive' = ThreadAlive
  BY DEF HandshakeDone, BootstrapReply, BootstrapRefused, LinkFault, PumpDone,
         CheckDisconnect, AtPump, vars, ThreadAlive
<1> QED
  BY <1>1, <1>2, <1>3, <1>4, <1>5, <1>6, <1>8, <1>9, <1>10, <1>11, <1>12,
     <1>13, StepCases

(* What the driver's callers see is the abstract service: calls accepted   *)
(* only before Stop, answered once, by a live thread, before they return.  *)
THEOREM ImplementsService == Spec => ServiceSpec
<1>1. Init => Service!Init
  BY InitService
<1>2. TypeOK /\ LinkInv /\ [Next]_vars => [Service!Next]_(Service!vars)
  BY StepIsService
<1> QED
  BY <1>1, <1>2, LinkCorrect, PTL DEF Spec, ServiceSpec, Service!Spec
=============================================================================

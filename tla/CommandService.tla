--------------------------- MODULE CommandService ---------------------------
(***************************************************************************)
(* What the RabbitMQ connection driver promises the threads that call it   *)
(* (Publish, DeclareExchange, DeclareQueue, BindQueue, CompleteDelivery):  *)
(* a call is accepted only while the driver is open, an accepted call is   *)
(* answered at most once and only while the driver's thread is alive, and  *)
(* a caller comes back only with an answer.                                *)
(***************************************************************************)
CONSTANTS Clients       (* the threads that call the driver                *)

VARIABLES call,         (* call[c]: where client c's call stands            *)
          accepting,    (* the driver takes new calls                       *)
          alive         (* the driver's thread is running                   *)

vars == <<call, accepting, alive>>

CallStatus == {"idle", "accepted", "answered"}

TypeOK ==
  /\ call \in [Clients -> CallStatus]
  /\ accepting \in BOOLEAN
  /\ alive \in BOOLEAN

Init ==
  /\ call = [c \in Clients |-> "idle"]
  /\ accepting = FALSE
  /\ alive = FALSE

Open ==
  /\ ~accepting /\ ~alive
  /\ accepting' = TRUE
  /\ alive' = TRUE
  /\ UNCHANGED call

(* From here on no call is accepted; the calls already accepted remain.    *)
Close ==
  /\ accepting
  /\ accepting' = FALSE
  /\ UNCHANGED <<call, alive>>

(* The thread ends: nothing answers a call any more.                       *)
Halt ==
  /\ alive
  /\ alive' = FALSE
  /\ UNCHANGED <<call, accepting>>

Accept(c) ==
  /\ accepting
  /\ call[c] = "idle"
  /\ call' = [call EXCEPT ![c] = "accepted"]
  /\ UNCHANGED <<accepting, alive>>

(* One step of the driver may answer several calls: a lost connection      *)
(* fails every call that waits for the broker.                             *)
Answer(S) ==
  /\ alive
  /\ \A c \in S : call[c] = "accepted"
  /\ call' = [c \in Clients |-> IF c \in S THEN "answered" ELSE call[c]]
  /\ UNCHANGED <<accepting, alive>>

Return(c) ==
  /\ call[c] = "answered"
  /\ call' = [call EXCEPT ![c] = "idle"]
  /\ UNCHANGED <<accepting, alive>>

Next ==
  \/ Open \/ Close \/ Halt
  \/ \E c \in Clients : Accept(c) \/ Return(c)
  \/ \E S \in SUBSET Clients : Answer(S)

Spec == Init /\ [][Next]_vars
=============================================================================

--------------------------- MODULE MessageService ---------------------------
(***************************************************************************)
(* What the delivery path promises an application of its messages, as long *)
(* as a connection stands: the broker acknowledges, rejects or takes back  *)
(* a delivery only by the one word that was said of this delivery, and     *)
(* of each delivery only one word is said. Without the connection the      *)
(* deliveries go back to the queue, whatever was said of them.             *)
(***************************************************************************)
CONSTANTS Messages

VARIABLES place,        (* place[m]: where the message m is                *)
          words,        (* words[m]: what was said of the delivery that is  *)
                        (* out: a set of one or no action                   *)
          connected

vars == <<place, words, connected>>

Places == {"ready", "out", "auto", "Ack", "Reject"}
Actions == {"Ack", "Requeue", "Reject"}

Init ==
  /\ place = [m \in Messages |-> "ready"]
  /\ words = [m \in Messages |-> {}]
  /\ connected = FALSE

Link ==
  /\ ~connected
  /\ connected' = TRUE
  /\ UNCHANGED <<place, words>>

(* To a consumer with or without auto_ack; the broker forgets the former.  *)
Send(m) ==
  /\ connected
  /\ place[m] = "ready"
  /\ \E p \in {"out", "auto"} : place' = [place EXCEPT ![m] = p]
  /\ UNCHANGED <<words, connected>>

Say(m, action) ==
  /\ connected
  /\ place[m] = "out" /\ words[m] = {}
  /\ words' = [words EXCEPT ![m] = {action}]
  /\ UNCHANGED <<place, connected>>

Settle(m, action) ==
  /\ connected
  /\ place[m] = "out" /\ words[m] = {action}
  /\ place' = [place EXCEPT ![m] = IF action = "Requeue" THEN "ready" ELSE action]
  /\ words' = [words EXCEPT ![m] = {}]
  /\ UNCHANGED connected

Lose ==
  /\ connected
  /\ connected' = FALSE
  /\ place' = [m \in Messages |-> IF place[m] = "out" THEN "ready" ELSE place[m]]
  /\ words' = [m \in Messages |-> {}]

Next ==
  \/ Link \/ Lose
  \/ \E m \in Messages : Send(m)
  \/ \E m \in Messages, action \in Actions : Say(m, action) \/ Settle(m, action)
=============================================================================

------------------------------ MODULE Backoff ------------------------------
(***************************************************************************)
(* The delay between the connection driver's attempts to connect:          *)
(* reconnect_delay_ms_ and next_reconnect_at_, with the width of int. A    *)
(* failed attempt and a lost connection each schedule the next attempt and *)
(* double the delay up to the configured maximum; a TCP connection resets  *)
(* it, before the broker has accepted anything.                            *)
(***************************************************************************)
EXTENDS Integers

CONSTANTS
  IntMax,               (* the largest int                                  *)
  MaxConfigured,        (* bound: delays written in the configuration file  *)
  MaxTime,              (* bound: end of the clock                          *)
  MaxWaits              (* bound: waits in a row                            *)

ASSUME BackoffAssumption ==
  /\ IntMax \in Nat
  /\ MaxConfigured \in 0 .. 2 * IntMax + 1
  /\ MaxTime \in Nat
  /\ MaxWaits \in Nat

VARIABLES
  initial, maximum,     (* initial_delay_ms, max_delay_ms                   *)
  delay,                (* reconnect_delay_ms_                              *)
  next,                 (* next_reconnect_at_                               *)
  now,                  (* the steady clock                                 *)
  connected,
  waits,                (* history: waits since the last connection         *)
  since                 (* history: when the last of them began             *)

vars == <<initial, maximum, delay, next, now, connected, waits, since>>

(* Conversion of a wider integer to int, and the result of an arithmetic   *)
(* operation of int. Both wrap, which is what the machine does; for the     *)
(* arithmetic the language leaves it undefined.                            *)
Narrow(n) ==
  CASE n > IntMax -> n - 2 * (IntMax + 1)
    [] n < -IntMax - 1 -> n + 2 * (IntMax + 1)
    [] OTHER -> n

Ints == -IntMax - 1 .. IntMax

TypeOK ==
  /\ initial \in Ints /\ maximum \in Ints /\ delay \in Ints
  /\ next \in Int /\ now \in Nat
  /\ connected \in BOOLEAN
  /\ waits \in Nat /\ since \in Nat

(* ParseBusConfig accepts 0 <= least <= most of the file's 64-bit values,  *)
(* and converts them to int afterwards.                                    *)
Init ==
  /\ \E least, most \in 0 .. MaxConfigured :
       /\ least <= most
       /\ initial = Narrow(least)
       /\ maximum = Narrow(most)
  /\ delay = initial
  /\ next = 0 /\ now = 0
  /\ connected = FALSE
  /\ waits = 0 /\ since = 0

Tick ==
  /\ now < MaxTime
  /\ now' = now + 1
  /\ UNCHANGED <<initial, maximum, delay, next, connected, waits, since>>

Doubled(d) == Narrow(2 * d)

AtMost(d, limit) == IF d <= limit THEN d ELSE limit

(* Mutants of Schedule: the maximum is ignored; the delay is not waited.   *)
ScheduleNoLimit ==
  /\ next' = now + delay
  /\ delay' = Doubled(delay)

ScheduleAtOnce ==
  /\ next' = now
  /\ delay' = AtMost(Doubled(delay), maximum)

(* The end of ApplyReconnectBackoff and of HandleDisconnect.               *)
Schedule ==
  /\ next' = now + delay
  /\ delay' = AtMost(Doubled(delay), maximum)

MayAttempt == ~connected /\ now >= next

Wait ==
  /\ waits < MaxWaits
  /\ waits' = waits + 1
  /\ since' = now
  /\ Schedule

ConnectFails ==
  /\ MayAttempt
  /\ Wait
  /\ UNCHANGED <<initial, maximum, now, connected>>

ConnectSucceeds ==
  /\ MayAttempt
  /\ connected' = TRUE
  /\ delay' = initial
  /\ waits' = 0 /\ since' = 0
  /\ UNCHANGED <<initial, maximum, next, now>>

LinkLost ==
  /\ connected
  /\ connected' = FALSE
  /\ Wait
  /\ UNCHANGED <<initial, maximum, now>>

Next == Tick \/ ConnectFails \/ ConnectSucceeds \/ LinkLost

Spec == Init /\ [][Next]_vars
-----------------------------------------------------------------------------
(* The configured delays fit an int, and so does twice the maximum. With   *)
(* larger ones a delay may be negative, and the attempts then follow each  *)
(* other without a wait.                                                   *)
Doubles == 0 <= initial /\ initial <= maximum /\ 2 * maximum <= IntMax

(* The delay stays where the configuration puts it.                        *)
DelayInBounds == Doubles => delay \in initial .. maximum

(* What the n-th wait in a row should last. *)
FullWait(n) == AtMost(initial * 2 ^ (n - 1), maximum)

(* No attempt before the wait is over: however attempts, connections and   *)
(* losses follow each other, the n-th wait in a row lasts the initial      *)
(* delay doubled n - 1 times, or the maximum.                              *)
NoEarlyAttempt ==
  [][Doubles /\ waits > 0 /\ (waits' > waits \/ connected' # connected)
     => now >= since + FullWait(waits)]_vars
=============================================================================

---------------------------- MODULE TimingProofs ----------------------------
(***************************************************************************)
(* The reconnect delay: its type, for every width of int, and its bounds,  *)
(* for every configuration whose maximum can be doubled. The heartbeats:   *)
(* they reach the broker in time, for every configuration and every speed  *)
(* of the driver's loop of which two rounds fit the interval.              *)
(***************************************************************************)
EXTENDS Heartbeat, TLAPS

BackoffInv ==
  /\ TypeOK
  /\ DelayInBounds

(* A number at most one width away becomes an int, and stays what it is    *)
(* where it is one.                                                        *)
LEMMA NarrowType ==
  ASSUME NEW n \in -2 * IntMax - 2 .. 2 * IntMax + 1
  PROVE  /\ Narrow(n) \in Ints
         /\ n \in Ints => Narrow(n) = n
<1>1. IntMax \in Nat
  BY BackoffAssumption
<1>2. CASE n > IntMax
  BY <1>1, <1>2 DEF Narrow, Ints
<1>3. CASE n < -IntMax - 1
  <2>1. Narrow(n) = n + 2 * (IntMax + 1)
    BY <1>1, <1>3 DEF Narrow
  <2> QED
    BY <1>1, <1>3, <2>1 DEF Ints
<1>4. CASE ~(n > IntMax) /\ ~(n < -IntMax - 1)
  <2>1. Narrow(n) = n
    BY <1>4 DEF Narrow
  <2> QED
    BY <1>1, <1>4, <2>1 DEF Ints
<1> QED
  BY <1>2, <1>3, <1>4

(* Doubling an int gives an int, and the exact one where it does not       *)
(* overflow.                                                               *)
LEMMA DoubledType ==
  ASSUME NEW d \in Ints
  PROVE  /\ Doubled(d) \in Ints
         /\ d >= 0 /\ 2 * d <= IntMax => Doubled(d) = 2 * d
<1>1. IntMax \in Nat
  BY BackoffAssumption
<1>2. 2 * d \in -2 * IntMax - 2 .. 2 * IntMax + 1
  BY <1>1 DEF Ints
<1>3. d >= 0 /\ 2 * d <= IntMax => 2 * d \in Ints
  BY <1>1 DEF Ints
<1> QED
  BY <1>2, <1>3, NarrowType DEF Doubled

(* Scheduling an attempt keeps the delay an int, and in its bounds.        *)
LEMMA ScheduleStays ==
  ASSUME BackoffInv, Schedule, UNCHANGED <<initial, maximum>>
  PROVE  next' \in Int /\ delay' \in Ints /\ DelayInBounds'
<1>1. /\ initial \in Ints /\ maximum \in Ints /\ delay \in Ints
      /\ now \in Nat /\ IntMax \in Nat
  BY BackoffAssumption DEF BackoffInv, TypeOK
<1>2. next' = now + delay /\ delay' = AtMost(Doubled(delay), maximum)
  BY DEF Schedule
<1>3. Doubled(delay) \in Ints
  BY <1>1, DoubledType
<1>4. next' \in Int /\ delay' \in Ints
  BY <1>1, <1>2, <1>3 DEF AtMost, Ints
<1>5. ASSUME Doubles PROVE delay' \in initial .. maximum
  <2>1. delay \in initial .. maximum
    BY <1>5 DEF BackoffInv, DelayInBounds
  <2>2. delay >= 0 /\ 2 * delay <= IntMax
    BY <1>1, <1>5, <2>1 DEF Doubles
  <2>3. Doubled(delay) = 2 * delay
    BY <1>1, <2>2, DoubledType
  <2>4. initial \in Int /\ maximum \in Int /\ delay \in Int
    BY <1>1 DEF Ints
  <2>5. initial <= 2 * delay /\ initial <= maximum
    BY <1>5, <2>1, <2>4 DEF Doubles
  <2> QED
    BY <1>2, <2>3, <2>4, <2>5 DEF AtMost
<1>6. DelayInBounds'
  BY <1>5 DEF DelayInBounds, Doubles
<1> QED
  BY <1>4, <1>6

LEMMA InitHolds == ASSUME Init PROVE BackoffInv
<1>1. IntMax \in Nat /\ MaxConfigured \in Nat /\ MaxConfigured <= 2 * IntMax + 1
  BY BackoffAssumption
<1>2. PICK least \in 0 .. MaxConfigured, most \in 0 .. MaxConfigured :
        initial = Narrow(least) /\ maximum = Narrow(most)
  BY DEF Init
<1>3. /\ least \in -2 * IntMax - 2 .. 2 * IntMax + 1
      /\ most \in -2 * IntMax - 2 .. 2 * IntMax + 1
  BY <1>1
<1>4. initial \in Ints /\ maximum \in Ints
  BY <1>2, <1>3, NarrowType
<1>5. delay = initial /\ next = 0 /\ now = 0 /\ waits = 0 /\ since = 0
  BY DEF Init
<1>6. connected \in BOOLEAN
  BY Zenon DEF Init
<1>7. DelayInBounds
  <2>1. initial \in Int /\ maximum \in Int
    BY <1>1, <1>4 DEF Ints
  <2> QED
    BY <1>5, <2>1 DEF DelayInBounds, Doubles
<1> QED
  BY <1>4, <1>5, <1>6, <1>7 DEF BackoffInv, TypeOK

LEMMA StepStays == ASSUME BackoffInv, [Next]_vars PROVE BackoffInv'
<1>1. CASE Tick
  BY <1>1 DEF Tick, BackoffInv, TypeOK, DelayInBounds, Doubles
<1>2. ASSUME Wait, UNCHANGED <<initial, maximum, now>>, connected' \in BOOLEAN
      PROVE  BackoffInv'
  <2>1. next' \in Int /\ delay' \in Ints /\ DelayInBounds'
    BY <1>2, ScheduleStays DEF Wait
  <2>2. waits' \in Nat /\ since' \in Nat
    BY <1>2 DEF Wait, BackoffInv, TypeOK
  <2> QED
    BY <1>2, <2>1, <2>2 DEF BackoffInv, TypeOK, Ints
<1>3. CASE ConnectFails
  BY <1>2, <1>3 DEF ConnectFails, BackoffInv, TypeOK
<1>4. CASE ConnectSucceeds
  <2>1. delay' \in Ints /\ connected' \in BOOLEAN
    BY <1>4 DEF ConnectSucceeds, BackoffInv, TypeOK
  <2>2. initial \in Int /\ maximum \in Int
    BY BackoffAssumption DEF BackoffInv, TypeOK, Ints
  <2>3. DelayInBounds'
    BY <1>4, <2>2 DEF ConnectSucceeds, DelayInBounds, Doubles
  <2> QED
    BY <1>4, <2>1, <2>3 DEF ConnectSucceeds, BackoffInv, TypeOK
<1>5. CASE LinkLost
  BY <1>2, <1>5 DEF LinkLost
<1>6. CASE UNCHANGED vars
  BY <1>6 DEF vars, BackoffInv, TypeOK, DelayInBounds, Doubles
<1> QED
  BY <1>1, <1>3, <1>4, <1>5, <1>6 DEF Next

LEMMA BackoffCorrect == Spec => []BackoffInv
<1>1. BackoffInv /\ [Next]_vars => BackoffInv'
  BY StepStays
<1> QED
  BY InitHolds, <1>1, PTL DEF Spec

(* The delay is an int for every configuration, also where doubling it     *)
(* wraps.                                                                  *)
THEOREM BackoffTypeCorrect == Spec => []TypeOK
<1>1. BackoffInv => TypeOK
  BY DEF BackoffInv
<1> QED
  BY BackoffCorrect, <1>1, PTL

(* Where the maximum can be doubled, the delay is never below the          *)
(* configured initial one nor above the configured maximum.                *)
THEOREM DelayStaysInBounds == Spec => []DelayInBounds
<1>1. BackoffInv => DelayInBounds
  BY DEF BackoffInv
<1> QED
  BY BackoffCorrect, <1>1, PTL
-----------------------------------------------------------------------------
(* How long the waits last. The provers know no law of exponentiation: the *)
(* one FullWait needs is named here, and is a hypothesis of the theorem.   *)
PowersOfTwo ==
  /\ 2 ^ 0 = 1
  /\ \A n \in Nat : 2 ^ n \in Nat /\ 2 ^ (n + 1) = 2 * (2 ^ n)

(* The delay is the length of the wait to come, and the attempt is due     *)
(* when the wait that is running is over; a connection has no wait.        *)
WaitInv ==
  /\ connected => waits = 0
  /\ Doubles =>
       /\ delay = FullWait(waits + 1)
       /\ waits > 0 => next = since + FullWait(waits)

(* Doubling what is bounded, and bounding it, is bounding what is doubled. *)
LEMMA DoubledWait ==
  ASSUME PowersOfTwo, BackoffInv, Doubles, NEW n \in Nat, delay = FullWait(n + 1)
  PROVE  AtMost(Doubled(delay), maximum) = FullWait(n + 2)
<1>1. /\ initial \in Nat /\ maximum \in Nat /\ delay \in initial .. maximum
      /\ 2 * maximum <= IntMax /\ IntMax \in Nat
  BY BackoffAssumption DEF BackoffInv, TypeOK, DelayInBounds, Doubles, Ints
<1>2. Doubled(delay) = 2 * delay
  <2>1. delay \in Ints /\ delay >= 0 /\ 2 * delay <= IntMax
    BY <1>1 DEF Ints
  <2> QED
    BY <2>1, DoubledType
<1>3. PICK p \in Nat : p = 2 ^ n /\ 2 ^ (n + 1) = 2 * p
  BY DEF PowersOfTwo
<1>4. PICK x \in Nat : x = initial * p
  BY <1>1
<1>5. initial * (2 * p) = 2 * x
  BY <1>1, <1>3, <1>4
<1>6. (n + 1) - 1 = n /\ (n + 2) - 1 = n + 1
  OBVIOUS
<1>7. /\ FullWait(n + 1) = AtMost(x, maximum)
      /\ FullWait(n + 2) = AtMost(2 * x, maximum)
  BY <1>3, <1>4, <1>5, <1>6 DEF FullWait
<1>8. AtMost(2 * AtMost(x, maximum), maximum) = AtMost(2 * x, maximum)
  BY <1>1 DEF AtMost
<1> QED
  BY <1>2, <1>7, <1>8

LEMMA FirstWait ==
  ASSUME PowersOfTwo, BackoffInv, Doubles
  PROVE  FullWait(0 + 1) = initial
<1>1. /\ initial \in Nat /\ maximum \in Nat /\ initial <= maximum
      /\ (0 + 1) - 1 = 0
  BY BackoffAssumption DEF BackoffInv, TypeOK, Doubles, Ints
<1>2. initial * 2 ^ 0 = initial
  BY <1>1 DEF PowersOfTwo
<1> QED
  BY <1>1, <1>2 DEF FullWait, AtMost

LEMMA StepWaits ==
  ASSUME PowersOfTwo, BackoffInv, WaitInv, [Next]_vars
  PROVE  WaitInv'
<1>1. BackoffInv' /\ waits \in Nat /\ now \in Nat
  BY StepStays DEF BackoffInv, TypeOK
<1>2. ASSUME Wait, UNCHANGED <<initial, maximum>>, ~connected'
      PROVE  WaitInv'
  <2>1. waits' = waits + 1 /\ since' = now /\ next' = now + delay
    BY <1>2 DEF Wait, Schedule
  <2>2. ASSUME Doubles
        PROVE  delay' = FullWait(waits + 2) /\ next' = now + FullWait(waits + 1)
    <3>1. delay' = AtMost(Doubled(delay), maximum)
      BY <1>2 DEF Wait, Schedule
    <3>2. delay = FullWait(waits + 1)
      BY <2>2 DEF WaitInv
    <3>3. AtMost(Doubled(delay), maximum) = FullWait(waits + 2)
      BY <1>1, <2>2, <3>2, DoubledWait
    <3> QED
      BY <2>1, <3>1, <3>2, <3>3
  <2>3. waits' + 1 = waits + 2
    BY <1>1, <2>1
  <2>4. Doubles' = Doubles
    BY <1>2 DEF Doubles
  <2>5. \A n : FullWait(n)' = FullWait(n)
    BY <1>2 DEF FullWait
  <2> QED
    BY <1>2, <2>1, <2>2, <2>3, <2>4, <2>5 DEF WaitInv, FullWait
<1>3. CASE ConnectFails
  BY <1>2, <1>3 DEF ConnectFails, MayAttempt
<1>4. CASE LinkLost
  BY <1>2, <1>4 DEF LinkLost
<1>5. CASE ConnectSucceeds
  <2>1. waits' = 0 /\ delay' = initial /\ UNCHANGED <<initial, maximum>>
    BY <1>5 DEF ConnectSucceeds
  <2>2. Doubles => FullWait(0 + 1) = initial
    BY FirstWait
  <2> QED
    BY <2>1, <2>2 DEF WaitInv, Doubles, FullWait
<1>6. CASE Tick \/ UNCHANGED vars
  BY <1>6 DEF Tick, vars, WaitInv, Doubles, FullWait
<1> QED
  BY <1>3, <1>4, <1>5, <1>6 DEF Next

(* No attempt to connect before the wait in force is over, and the n-th    *)
(* wait in a row lasts the initial delay doubled n - 1 times or the        *)
(* configured maximum: for every delay whose maximum can be doubled, and   *)
(* every order of attempts, connections and losses.                        *)
THEOREM AttemptsWait == PowersOfTwo => (Spec => NoEarlyAttempt)
<1> SUFFICES ASSUME PowersOfTwo PROVE Spec => NoEarlyAttempt
  OBVIOUS
<1>1. Init => BackoffInv /\ WaitInv
  <2> SUFFICES ASSUME Init PROVE BackoffInv /\ WaitInv
    OBVIOUS
  <2>1. BackoffInv
    BY InitHolds
  <2>2. ~connected /\ waits = 0 /\ delay = initial
    BY DEF Init
  <2>3. Doubles => FullWait(0 + 1) = initial
    BY <2>1, FirstWait
  <2> QED
    BY <2>1, <2>2, <2>3 DEF WaitInv
<1>2. BackoffInv /\ WaitInv /\ [Next]_vars => (BackoffInv /\ WaitInv)'
  BY StepStays, StepWaits
<1>3. BackoffInv /\ WaitInv /\ [Next]_vars
        => [Doubles /\ waits > 0 /\ (waits' > waits \/ connected' # connected)
              => now >= since + FullWait(waits)]_vars
  <2> SUFFICES ASSUME BackoffInv, WaitInv, [Next]_vars, Doubles, waits > 0,
                      waits' > waits \/ connected' # connected
               PROVE  now >= since + FullWait(waits)
    OBVIOUS
  <2>1. next = since + FullWait(waits) /\ ~connected
    BY DEF WaitInv, BackoffInv, TypeOK
  <2>2. ~Tick /\ ~LinkLost /\ ~UNCHANGED vars
    BY <2>1 DEF Tick, LinkLost, vars, BackoffInv, TypeOK
  <2>3. MayAttempt
    BY <2>2 DEF Next, ConnectFails, ConnectSucceeds
  <2> QED
    BY <2>1, <2>3 DEF MayAttempt
<1> QED
  BY <1>1, <1>2, <1>3, PTL DEF Spec, NoEarlyAttempt
-----------------------------------------------------------------------------
(* Heartbeats.                                                             *)

(* The types that the argument needs of the variables of Backoff.          *)
ClockTypeOK == now \in Nat /\ connected \in BOOLEAN

(* Where a round is on the clock. *)
RoundInv ==
  /\ ready => connected
  /\ connected => began <= now /\ now <= began + MaxRound
  /\ last <= now
  /\ buffered => ready /\ phase = "sleep" /\ began <= last

(* How far the last heartbeat, and the last frame the broker heard, lie    *)
(* behind the start of a round. The bound on the former is one round less  *)
(* once MaybeSendHeartbeat has found that none is due.                     *)
BeatInv ==
  ready /\ heartbeat # 0 =>
    /\ heard <= now
    /\ began - heard < Interval + MaxRound
    /\ ~buffered => last <= heard
    /\ ~buffered /\ phase = "select" => began - last < Interval + MaxRound
    /\ ~buffered /\ phase = "sleep" => began - last < Interval

HeartbeatInv == ClockTypeOK /\ BeatTypeOK /\ RoundInv /\ BeatInv

LEMMA IntervalType ==
  ASSUME heartbeat \in Nat
  PROVE  /\ Interval \in Nat /\ Interval >= 1
         /\ heartbeat # 0 => 2 * Interval <= heartbeat * Second
<1> DEFINE half == Second \div 2
<1>1. /\ Second \in Nat /\ Second >= 2
      /\ half \in Nat /\ half >= 1 /\ 2 * half <= Second
  BY HeartbeatAssumption
<1>2. heartbeat * half \in Nat
  BY <1>1
<1>3. Interval = IF heartbeat * half >= 1 THEN heartbeat * half ELSE 1
  BY DEF Interval
<1>4. ASSUME heartbeat # 0 PROVE 2 * Interval <= heartbeat * Second
  <2> HIDE DEF half
  <2>1. heartbeat * half >= 1
    BY <1>1, <1>4
  <2>2. 2 * (heartbeat * half) = heartbeat * (2 * half)
    BY <1>1
  <2>3. heartbeat * (2 * half) <= heartbeat * Second
    BY <1>1
  <2> QED
    BY <1>1, <1>2, <1>3, <2>1, <2>2, <2>3
<1> QED
  BY <1>2, <1>3, <1>4

LEMMA InitHeartbeatInv == ASSUME HeartbeatInit PROVE HeartbeatInv
<1>1. now = 0 /\ connected = FALSE
  BY DEF HeartbeatInit, Init
<1>2. connected \in BOOLEAN /\ ready \in BOOLEAN /\ buffered \in BOOLEAN
  BY Zenon DEF HeartbeatInit, Init
<1> QED
  BY <1>1, <1>2, HeartbeatAssumption
     DEF HeartbeatInit, HeartbeatInv, ClockTypeOK, BeatTypeOK, RoundInv, BeatInv

LEMMA NextHeartbeatInv ==
  ASSUME HeartbeatInv, [HeartbeatNext]_<<vars, beats>>
  PROVE  HeartbeatInv'
<1>1. /\ now \in Nat /\ connected \in BOOLEAN
      /\ heartbeat \in Nat /\ heartbeat \in Heartbeats
      /\ ready \in BOOLEAN /\ buffered \in BOOLEAN /\ phase \in {"select", "sleep"}
      /\ last \in Nat /\ began \in Nat /\ heard \in Nat /\ MaxRound \in Nat
  BY HeartbeatAssumption DEF HeartbeatInv, ClockTypeOK, BeatTypeOK
<1>2. Interval \in Nat /\ Interval >= 1
  BY <1>1, IntervalType
<1>3. heartbeat' = heartbeat => Interval' = Interval
  BY DEF Interval
<1>4. RoundInv /\ BeatInv
  BY DEF HeartbeatInv
<1>5. CASE ClockTicks
  <2>1. /\ now' = now + 1 /\ connected' = connected /\ UNCHANGED beats
        /\ connected => now < began + MaxRound
    BY <1>5 DEF ClockTicks, Tick
  <2> QED
    BY <1>1, <1>2, <1>3, <1>4, <2>1
       DEF beats, HeartbeatInv, ClockTypeOK, BeatTypeOK, RoundInv, BeatInv
<1>6. CASE AttemptFails
  <2>1. /\ now' = now /\ connected' = connected /\ UNCHANGED beats
    BY <1>6 DEF AttemptFails, ConnectFails
  <2> QED
    BY <1>1, <1>3, <1>4, <2>1
       DEF beats, HeartbeatInv, ClockTypeOK, BeatTypeOK, RoundInv, BeatInv
<1>7. CASE Connects
  <2>1. /\ now' = now /\ connected' = TRUE
        /\ last' = now /\ began' = now /\ phase' = "select"
        /\ ready' = FALSE /\ buffered' = FALSE
        /\ UNCHANGED <<heartbeat, heard>>
    BY <1>7 DEF Connects, ConnectSucceeds
  <2>2. connected' \in BOOLEAN /\ ready' \in BOOLEAN /\ buffered' \in BOOLEAN
    BY <2>1, Zenon
  <2> QED
    BY <1>1, <2>1, <2>2
       DEF HeartbeatInv, ClockTypeOK, BeatTypeOK, RoundInv, BeatInv
<1>8. CASE EndSelect
  <2>1. /\ connected /\ phase = "select" /\ phase' = "sleep"
        /\ ready' \in {ready, TRUE}
        /\ heard' = IF ready' = ready THEN heard ELSE now
        /\ UNCHANGED <<now, connected, heartbeat, began>>
    BY <1>8 DEF EndSelect, vars
  <2>2. ~buffered
    BY <1>4, <2>1 DEF RoundInv
  <2>3. heartbeat # 0 /\ ready' =>
          /\ heard' <= now
          /\ began - heard' < Interval + MaxRound
          /\ last <= heard'
    <3>1. CASE ready' = ready
      BY <1>4, <2>1, <2>2, <3>1 DEF BeatInv
    <3>2. CASE ready' # ready
      BY <1>1, <1>2, <1>4, <2>1, <3>2 DEF RoundInv
    <3> QED
      BY <3>1, <3>2
  <2>4. CASE ready' /\ Due /\ buffered' = TRUE /\ last' = now
    <3>1. ready' \in BOOLEAN /\ buffered' \in BOOLEAN
      BY <1>1, <2>1, <2>4, Zenon
    <3>2. ClockTypeOK' /\ BeatTypeOK'
      BY <1>1, <2>1, <2>4, <3>1 DEF ClockTypeOK, BeatTypeOK
    <3>3. RoundInv'
      BY <1>1, <1>4, <2>1, <2>4 DEF RoundInv
    <3>4. buffered'
      BY <2>4, Zenon
    <3>5. BeatInv'
      BY <1>3, <2>1, <2>3, <3>4 DEF BeatInv
    <3> QED
      BY <3>2, <3>3, <3>5 DEF HeartbeatInv
  <2>5. CASE ~(ready' /\ Due) /\ UNCHANGED <<buffered, last>>
    <3>1. ready' /\ heartbeat # 0 => began - last < Interval
      BY <1>1, <1>2, <1>4, <2>1, <2>5 DEF Due, RoundInv
    <3> QED
      BY <1>1, <1>3, <1>4, <2>1, <2>2, <2>3, <2>5, <3>1
         DEF HeartbeatInv, ClockTypeOK, BeatTypeOK, RoundInv, BeatInv
  <2> QED
    BY <1>8, <2>4, <2>5 DEF EndSelect
<1>9. CASE NextRound
  <2>1. /\ connected /\ phase = "sleep" /\ phase' = "select"
        /\ began' = now /\ buffered' = FALSE
        /\ heard' = IF buffered THEN now ELSE heard
        /\ UNCHANGED <<now, connected, heartbeat, ready, last>>
    BY <1>9 DEF NextRound, vars
  <2>2. buffered' \in BOOLEAN
    BY <2>1, Zenon
  <2> QED
    BY <1>1, <1>2, <1>3, <1>4, <2>1, <2>2
       DEF HeartbeatInv, ClockTypeOK, BeatTypeOK, RoundInv, BeatInv
<1>10. CASE Disconnects
  <2>1. /\ now' = now /\ connected' = FALSE
        /\ ready' = FALSE /\ buffered' = FALSE
        /\ phase' = "select" /\ began' = 0 /\ heard' = 0
        /\ UNCHANGED <<heartbeat, last>>
    BY <1>10 DEF Disconnects, LinkLost
  <2> QED
    BY <1>1, <1>4, <2>1
       DEF HeartbeatInv, ClockTypeOK, BeatTypeOK, RoundInv, BeatInv
<1>11. CASE UNCHANGED <<vars, beats>>
  BY <1>1, <1>3, <1>4, <1>11
     DEF vars, beats, HeartbeatInv, ClockTypeOK, BeatTypeOK, RoundInv, BeatInv
<1> QED
  BY <1>5, <1>6, <1>7, <1>8, <1>9, <1>10, <1>11 DEF HeartbeatNext

LEMMA HeartbeatCorrect == HeartbeatSpec => []HeartbeatInv
<1>1. HeartbeatInit => HeartbeatInv
  BY InitHeartbeatInv
<1>2. HeartbeatInv /\ [HeartbeatNext]_<<vars, beats>> => HeartbeatInv'
  BY NextHeartbeatInv
<1> QED
  BY <1>1, <1>2, PTL DEF HeartbeatSpec

(* With heartbeats the delays are what they are without: what holds of      *)
(* Backoff holds here.                                                     *)
THEOREM HeartbeatsKeepBackoff == HeartbeatSpec => Spec
<1>1. HeartbeatInit => Init
  BY DEF HeartbeatInit
<1>2. [HeartbeatNext]_<<vars, beats>> => [Next]_vars
  BY DEF HeartbeatNext, ClockTicks, AttemptFails, Connects, EndSelect,
         NextRound, Disconnects, Next
<1> QED
  BY <1>1, <1>2, PTL DEF HeartbeatSpec, Spec

(* The variables of the heartbeat, and those of the delay under it, keep   *)
(* their types.                                                            *)
THEOREM HeartbeatTypeCorrect == HeartbeatSpec => []HeartbeatTypeOK
<1>1. TypeOK /\ HeartbeatInv => HeartbeatTypeOK
  BY DEF HeartbeatInv, HeartbeatTypeOK
<1> QED
  BY HeartbeatCorrect, HeartbeatsKeepBackoff, BackoffTypeCorrect, <1>1, PTL

(* Where two rounds of the loop fit the interval, the broker hears of an   *)
(* idle client at least once in heartbeat_seconds.                         *)
THEOREM HeartbeatsComeInTime == HeartbeatSpec => []BrokerHearsInTime
<1>1. HeartbeatInv => BrokerHearsInTime
  <2> SUFFICES ASSUME HeartbeatInv, ready, heartbeat # 0, 2 * MaxRound <= Interval
               PROVE  now - heard < heartbeat * Second
    BY DEF BrokerHearsInTime
  <2>1. /\ now \in Nat /\ began \in Nat /\ heard \in Nat /\ MaxRound \in Nat
        /\ heartbeat \in Nat /\ Second \in Nat
    BY HeartbeatAssumption DEF HeartbeatInv, ClockTypeOK, BeatTypeOK
  <2>2. Interval \in Nat /\ 2 * Interval <= heartbeat * Second
    BY <2>1, IntervalType
  <2>3. heartbeat * Second \in Nat
    BY <2>1
  <2>4. began - heard < Interval + MaxRound /\ now <= began + MaxRound
    BY DEF HeartbeatInv, RoundInv, BeatInv
  <2> QED
    BY <2>1, <2>2, <2>3, <2>4
<1> QED
  BY HeartbeatCorrect, <1>1, PTL
=============================================================================

----------------------------- MODULE Heartbeat -----------------------------
(***************************************************************************)
(* The heartbeats of the connection driver, on the clock of Backoff. Each  *)
(* round of the driver's loop flushes its buffer, waits for the socket in  *)
(* select, and then puts a heartbeat into the buffer when one is due; it   *)
(* leaves with the flush of the next round. No other frame is sent: that   *)
(* is when the broker depends on the heartbeats.                           *)
(***************************************************************************)
EXTENDS Backoff

CONSTANTS
  Heartbeats,           (* values of heartbeat_seconds                      *)
  Second,               (* the length of a second; 1000 in the code         *)
  MaxRound              (* bound: how long a round of the loop takes        *)

ASSUME HeartbeatAssumption ==
  /\ Heartbeats \subseteq Nat
  /\ Second \in Nat /\ Second >= 2
  /\ MaxRound \in Nat

VARIABLES
  heartbeat,            (* heartbeat_seconds                                *)
  ready,                (* handshake_ready_                                 *)
  last,                 (* last_heartbeat_sent_                             *)
  buffered,             (* a heartbeat is in outbound_                      *)
  phase, began,         (* where the round of the loop is, and its start    *)
  heard                 (* history: when the broker last heard the client   *)

beats == <<heartbeat, ready, last, buffered, phase, began, heard>>

(* The types of the variables of this module, and of all.                  *)
BeatTypeOK ==
  /\ heartbeat \in Heartbeats
  /\ ready \in BOOLEAN /\ buffered \in BOOLEAN
  /\ phase \in {"select", "sleep"}
  /\ last \in Nat /\ began \in Nat /\ heard \in Nat

HeartbeatTypeOK == TypeOK /\ BeatTypeOK

HeartbeatInit ==
  /\ Init
  /\ heartbeat \in Heartbeats
  /\ ready = FALSE /\ buffered = FALSE
  /\ phase = "select"
  /\ last = 0 /\ began = 0 /\ heard = 0

(* Mutant of Interval: one heartbeat in heartbeat_seconds, not two.         *)
IntervalWhole ==
  IF heartbeat >= 1 THEN heartbeat * Second ELSE 1

(* Half of heartbeat_seconds, and at least 1.                              *)
Interval ==
  LET half == heartbeat * (Second \div 2)
  IN IF half >= 1 THEN half ELSE 1

Due == heartbeat # 0 /\ now - last >= Interval

(* A round ends before the clock goes on.                                  *)
ClockTicks ==
  /\ Tick
  /\ connected => now < began + MaxRound
  /\ UNCHANGED beats

AttemptFails == ConnectFails /\ UNCHANGED beats

(* ConnectSocket; the buffer is cleared, and a round begins.               *)
Connects ==
  /\ ConnectSucceeds
  /\ last' = now /\ began' = now
  /\ phase' = "select"
  /\ ready' = FALSE /\ buffered' = FALSE
  /\ UNCHANGED <<heartbeat, heard>>

(* PumpIncomingData, in which the handshake may end (onReady), and         *)
(* MaybeSendHeartbeat.                                                     *)
EndSelect ==
  /\ connected
  /\ phase = "select"
  /\ phase' = "sleep"
  /\ ready' \in {ready, TRUE}
  /\ heard' = IF ready' = ready THEN heard ELSE now
  /\ \/ /\ ready' /\ Due
        /\ buffered' = TRUE /\ last' = now
     \/ /\ ~(ready' /\ Due)
        /\ UNCHANGED <<buffered, last>>
  /\ UNCHANGED <<vars, heartbeat, began>>

(* The next round: DrainCommands and FlushOutboundData.                    *)
NextRound ==
  /\ connected
  /\ phase = "sleep"
  /\ phase' = "select"
  /\ began' = now
  /\ buffered' = FALSE
  /\ heard' = IF buffered THEN now ELSE heard
  /\ UNCHANGED <<vars, heartbeat, ready, last>>

(* HandleDisconnect, at the end of a round.                                *)
Disconnects ==
  /\ LinkLost
  /\ phase = "sleep"
  /\ ready' = FALSE /\ buffered' = FALSE
  /\ phase' = "select" /\ began' = 0 /\ heard' = 0
  /\ UNCHANGED <<heartbeat, last>>

HeartbeatNext ==
  ClockTicks \/ AttemptFails \/ Connects \/ EndSelect \/ NextRound \/ Disconnects

HeartbeatSpec == HeartbeatInit /\ [][HeartbeatNext]_<<vars, beats>>
-----------------------------------------------------------------------------
(* While a connection is up, the broker never waits for a frame as long as *)
(* heartbeat_seconds, when two rounds of the loop fit half of it. (The   *)
(* length of a round is the socket_timeout_ms of the configuration, which  *)
(* ParseBusConfig does not compare with the heartbeat.)                    *)
BrokerHearsInTime ==
  ready /\ heartbeat # 0 /\ 2 * MaxRound <= Interval
    => now - heard < heartbeat * Second
=============================================================================

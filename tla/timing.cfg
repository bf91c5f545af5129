SPECIFICATION HeartbeatSpec
CONSTANTS
  IntMax = 11
  MaxConfigured = 13
  MaxTime = 11
  MaxWaits = 4
  Heartbeats = {0, 1}
  Second = 4
  MaxRound = 1
CHECK_DEADLOCK FALSE
INVARIANTS
  DelayInBounds
  BrokerHearsInTime
PROPERTIES
  NoEarlyAttempt

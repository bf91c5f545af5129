SPECIFICATION FairSpec
CONSTANTS
  c1 = c1
  c2 = c2
  Clients <- OneClient
  TopologySteps = 1
  ConsumerSteps = 1
  ReconnectModes = {TRUE}
  SocketSystemReliable = TRUE
  MaxCalls = 2
  MaxFaults = 1
PROPERTIES
  AnsweredUnlessStopped
  Recovers
  StopCompletes
CHECK_DEADLOCK FALSE

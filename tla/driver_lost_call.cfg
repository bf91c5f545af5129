SPECIFICATION FairSpec
CONSTANTS
  c1 = c1
  c2 = c2
  Clients <- MCClients
  TopologySteps = 1
  ConsumerSteps = 0
  ReconnectModes = {TRUE}
  SocketSystemReliable = TRUE
  MaxCalls = 1
  MaxFaults = 0
PROPERTIES
  EveryCallReturns
CHECK_DEADLOCK FALSE

SPECIFICATION Spec
CONSTANTS
  c1 = c1
  c2 = c2
  Clients <- MCClients
  TopologySteps = 1
  ConsumerSteps = 1
  ReconnectModes = {TRUE, FALSE}
  SocketSystemReliable = FALSE
  MaxCalls = 3
  MaxFaults = 2
SYMMETRY ClientSymmetry
INVARIANTS
  TypeOK
  CallInOnePlace
  ConnectedIsUsable
  SendOrder
  OnlyQueuedCallsStrand
PROPERTIES
  EndStatesAreFinal
  OnlyDisconnectLoses
  ServiceSpec
CHECK_DEADLOCK FALSE

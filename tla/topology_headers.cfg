SPECIFICATION Spec
CONSTANTS
  ex = ex
  fileQueue = fileQueue
  appQueue = appQueue
  otherQueue = otherQueue
  argsA = argsA
  argsB = argsB
  Exchanges <- MCExchanges
  Queues <- MCQueues
  Foreign <- NoQueues
  Arguments <- TwoArguments
  FileExchanges <- MCFileExchanges
  FileQueues <- MCFileQueues
  FileBindings <- MCFileBindings
  FileConsumers <- MCFileConsumers
  MaxCalls = 2
  MaxLosses = 1
CHECK_DEADLOCK FALSE
INVARIANTS
  ConfirmedIsPresent

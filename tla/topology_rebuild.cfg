SPECIFICATION FairSpec
CONSTANTS
  ex = ex
  fileQueue = fileQueue
  appQueue = appQueue
  otherQueue = otherQueue
  argsA = argsA
  argsB = argsB
  Exchanges <- MCExchanges
  Queues <- MoreQueues
  Foreign <- MCForeign
  Arguments <- OneArgument
  FileExchanges <- MCFileExchanges
  FileQueues <- MCFileQueues
  FileBindings <- MCFileBindings
  FileConsumers <- MCFileConsumers
  MaxCalls = 3
  MaxLosses = 2
CHECK_DEADLOCK FALSE
INVARIANTS
  TypeOK
  ConfirmedIsPresent
  RebuildNeverRefused
PROPERTIES
  ComesBack

SPECIFICATION FairSpec
CONSTANTS
  m1 = m1
  m2 = m2
  w1 = w1
  w2 = w2
  manual = manual
  automatic = automatic
  Messages <- MCMessages
  Consumers <- ManualOnly
  AutoAck <- None
  Workers <- OneWorker
  Prefetch = 1
  PoolMayRefuse = FALSE
  MaxLinks = 2
  MaxTag = 2
CHECK_DEADLOCK FALSE
PROPERTIES
  EveryDeliverySettles
  StopHangsOnlyOnStranded

SPECIFICATION Spec
CONSTANTS
  m1 = m1
  m2 = m2
  w1 = w1
  w2 = w2
  manual = manual
  automatic = automatic
  Messages <- MCMessages
  Consumers <- ManualOnly
  AutoAck <- None
  Workers <- MCWorkers
  Prefetch = 0
  PoolMayRefuse = FALSE
  MaxLinks = 2
  MaxTag = 2
SYMMETRY MCSymmetry
CHECK_DEADLOCK FALSE
INVARIANTS
  TypeOK
  OneHolder
  WaitersAreQueued
PROPERTIES
  FirstLinkService

SPECIFICATION Spec
CONSTANTS
  m1 = m1
  m2 = m2
  w1 = w1
  w2 = w2
  manual = manual
  automatic = automatic
  Messages <- MCMessages
  Consumers <- Both
  AutoAck <- AutomaticOnly
  Workers <- MCWorkers
  Prefetch = 1
  PoolMayRefuse = TRUE
  MaxLinks = 1
  MaxTag = 2
SYMMETRY MCSymmetry
CHECK_DEADLOCK FALSE
INVARIANTS
  SettledAsSaid
  PrefetchBoundsPool

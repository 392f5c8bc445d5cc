CONSTANTS
  t1 = t1
  t2 = t2
  t3 = t3
  k1 = k1
  k2 = k2
  NoKey = NoKey
  Threads <- MCThreads
  Keys <- MCKeys
  MaxRequests = 2
  Window = 3
  MaxDelay = 1
  MaxArrivals = 6
  MaxClock = 6
SYMMETRY MCSymmetry
SPECIFICATION Spec
INVARIANTS
  TypeOK
  WindowLimit
PROPERTIES
  RefusalJustified
CHECK_DEADLOCK FALSE

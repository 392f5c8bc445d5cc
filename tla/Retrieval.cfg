CONSTANTS
  a = a
  b = b
  q1 = q1
  q2 = q2
  q3 = q3
  NoQuery = NoQuery
  Searches <- MCSearches
  Queries <- MCQueries
  Warm <- MCWarm
  IndexLegs <- MCIndexLegs
  MaxWorkers = 2
  MaxEntries = 2
  TTL = 1
  HydeEnabled = TRUE
  CommunityEnabled = TRUE
  MaxFailures = 1
  MaxClock = 1
SPECIFICATION PoolSpec
INVARIANTS
  OutcomeHasCause
  HitsAreFresh
PROPERTIES
  EvictsLeastRecent
  SearchEnds
CHECK_DEADLOCK FALSE

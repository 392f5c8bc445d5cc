CONSTANTS
  j1 = j1
  j2 = j2
  t1 = t1
  t2 = t2
  c1 = c1
  c2 = c2
  NoJob = NoJob
  Jobs <- MCJobs
  Threads <- MCThreads
  Clients <- MCClients
  MayCrash <- MCThreads
  LockTTL = 1
  PageSize = 2
  MaxClock = 2
  MaxRequests = 3
SYMMETRY MCSymmetry
SPECIFICATION Spec
INVARIANTS
  TypeOK
  LeaseExclusion
  AttemptsCountClaims
  SucceededHasResult
PROPERTIES
  ClaimTakesClaimable
  KeepsPromise
CHECK_DEADLOCK FALSE

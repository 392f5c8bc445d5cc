CONSTANTS
  j1 = j1
  j2 = j2
  t1 = t1
  t2 = t2
  c1 = c1
  c2 = c2
  NoJob = NoJob
  Jobs <- OneJob
  Threads <- MCThreads
  Clients <- MCClients
  MayCrash <- MCMayCrash
  LockTTL = 1
  PageSize = 1
  MaxClock = 3
  MaxRequests = 3
SPECIFICATION Spec
PROPERTIES
  EnqueueOnlyIdle
CHECK_DEADLOCK FALSE

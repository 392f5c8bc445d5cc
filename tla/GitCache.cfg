SPECIFICATION Spec
CONSTANTS
  t1 = t1
  t2 = t2
  A = A
  B = B
  Threads <- MCThreads
  Processes <- MCProcesses
  Deployments <- MCDeployments
  Nobody = Nobody
  Head = Head
  MaxCommits = 1
  MaxRequests = 3
  MaxFaults = 1
INVARIANTS FreshWorktree FailsForCause WorktreesAccounted
PROPERTIES CheckoutEnds
CHECK_DEADLOCK FALSE

CONSTANTS
  a = a
  b = b
  c = c
  v1 = v1
  v2 = v2
  bin = bin
  w1 = w1
  w2 = w2
  NoVersion = NoVersion
  Absent = Absent
  NotAFile = NotAFile
  Paths <- MCPaths
  Versions <- MCVersions
  Skipped <- MCSkipped
  History <- MCHistory
  Renames <- MCRenames
  JobList <- MCJobs
  Workers <- OneWorker
  FileWorkers = 2
  InOrder = TRUE
  LeasesHold = TRUE
  RefreshBetween = TRUE
  MaxSources = 2
  MaxFaults = 2
SPECIFICATION Spec
INVARIANTS
  SnapshotConverges
  NoOrphanEdges
PROPERTIES
  PruneKeepsLinkedEdges
CHECK_DEADLOCK FALSE

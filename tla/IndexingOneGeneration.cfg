CONSTANTS
  a = a
  b = b
  c = c
  v1 = v1
  v2 = v2
  bin = bin
  w1 = w1
  w2 = w2
  NoVersion = NoVersion
  Absent = Absent
  NotAFile = NotAFile
  Paths <- MCPaths
  Versions <- MCVersions
  Skipped <- MCSkipped
  History <- MCHistory
  Renames <- MCRenames
  JobList <- OneFile
  Workers <- OneWorker
  FileWorkers = 2
  InOrder = TRUE
  LeasesHold = TRUE
  RefreshBetween = FALSE
  MaxSources = 2
  MaxFaults = 0
SPECIFICATION Spec
INVARIANT
  OneGeneration
CHECK_DEADLOCK FALSE

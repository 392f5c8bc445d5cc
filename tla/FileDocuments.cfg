SPECIFICATION DocSpec
CONSTANTS
  Files <- MCFiles
  Overlaps <- MCOverlaps
  MaxChars = 6
  Names <- MCNames
  NoName = NoName
  NoVector = NoVector
  SkipSettings = {TRUE, FALSE}
  BatchSize = 2
  PoolSize = 2
  Retries = 2
  MaxFaults = 2
  MaxRuns = 2
INVARIANTS
  TypeOK
  NoLineLost
  NumbersNameTheText
  VectorsMatchText
  LinksResolve
  ParentsEnclose
  IndexLosesOnlyPieces
  FailureHasCause
PROPERTIES
  WindowsAdvance
CHECK_DEADLOCK FALSE

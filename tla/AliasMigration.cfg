CONSTANTS
  d1 = d1
  d2 = d2
  api1 = api1
  api2 = api2
  api3 = api3
  op = op
  Docs <- MCDocs
  Versions <- MCVersions
  Starters <- MCStarters
  Operators <- MCOperators
  Version <- MCVersion
  LiveTraffic = FALSE
  TasksAwaited = TRUE
  RefreshFirst = TRUE
  MaxWrites = 4
  MaxTasks = 3
SPECIFICATION Spec
INVARIANT
  NeverCopiesOverServing
PROPERTIES
  AliasServesOne
  MoveKeepsDocuments
CHECK_DEADLOCK FALSE

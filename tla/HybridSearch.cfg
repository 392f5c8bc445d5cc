SPECIFICATION GraphSpec
CONSTANTS
  Symbols <- MCSymbols
  Unknown <- MCUnknown
  LastName <- MCLastName
  MinSize = 2
  MaxMembers = 2
  MaxRounds = 2
  EdgeChoices <- MCEdges
  RefreshBetween = TRUE
  MaxRebuilds = 2
  MaxErrors = 1
  ProjectOf <- MCProjectOf
  Home = "p"
  Allowances <- MCAllowances
  Searched <- MCSearched
  Relevant <- MCRelevant
  Followed <- MCFollowed
  TopK = 3
  RankConstant = 60
  Scale = 7624512
  SeedHits = 1
  MaxNeighbors = 2
  Hops = 2
  EdgesPerHit = 1
  MinEdges = 1
  SymbolsPerHit = 1
  MinSymbols = 3
  CommunityHits = 1
  Boosts <- MCBoosts
  UsageBoost = 1524902
  GraphBoost = 381226
  CommunityBoost = 762451
  CrossCandidates = 2
  CrossWeight = 7624512
  CrossScores = {0, 1}
INVARIANTS
  OneLabelOneComponent
  StoredAreLast
  AnswerInScope
  ExpansionIsNeighbourhood
PROPERTIES
  UpdatesConverge
CHECK_DEADLOCK FALSE

CONSTANTS
  b1 = b1
  DefaultLimit = 1
  MaxLimit = 2
  WireLimit = 3
  ToolLimits <- McToolLimits
  MinBudget = 5
  MaxBudget = 20
  WireBudget = 18
  Encodings <- McEncodings
  TraceFixtures <- McTraces
  Workspaces = {1, 2}
  AgentIds = {1, 2, 3}
  Lists <- McLists
  Contents = {b1}
  Limits <- McLimits
  Budgets = {5, 10, 18}
  MostVersions <- McVersions
SPECIFICATION FairWalkSpec
INVARIANTS
  EachShownOnce
  SameOverTheWire
PROPERTIES
  WalksEnd

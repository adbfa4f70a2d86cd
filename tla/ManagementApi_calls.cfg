CONSTANTS
  b1 = b1
  c1 = c1
  c2 = c2
  e1 = e1
  k1 = k1
  k2 = k2
  k3 = k3
  r1 = r1
  c = c
  d = d
  Blank = Blank
  Bundles <- OneBundle
  Candidates <- TwoCandidates
  Evidence <- OneEvidence
  Keys <- ThreeKeys
  Reasons <- OneReason
  Clients <- TwoClients
  Scenarios <- Scenes
  MaxAttempts = 2
  BaseDelay = 1
  MaxDelay = 3
  MaxElapsed = 4
  GatewayStatuses <- SomeStatuses
  GatewayHints <- AtOnce
  MaxOpen = 2
  MaxVersions = 2
SPECIFICATION FairSpec
CHECK_DEADLOCK FALSE
INVARIANTS
  ToldIsTrue
  OncePerKey
  StaleIsUndone
PROPERTIES
  CallsEnd

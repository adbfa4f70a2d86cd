CONSTANTS
  b1 = b1
  c1 = c1
  e1 = e1
  k1 = k1
  k2 = k2
  k3 = k3
  k4 = k4
  r1 = r1
  Blank = Blank
  Bundles <- OneBundle
  Evidence <- OneEvidence
  Reasons <- OneReason
  Candidates <- OneCandidate
  Keys <- FourKeys
  Contexts <- SomeContexts
  MaxVersions = 2
  MaxDrafts = 1
  MaxReleases = 1
  MaxDeployments = 2
SPECIFICATION FairSpec
INVARIANTS
  TypeOK
  CreatedOnce
  OneHealthyPerEnvironment
  PlansInStep
  RollbackTargetsSound
PROPERTIES
  HistoryOnlyGrows
  ReleasedAtCurrentBase
  DeploymentsSettle

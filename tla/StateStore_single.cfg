CONSTANTS
  b1 = b1
  c1 = c1
  e1 = e1
  k1 = k1
  k2 = k2
  k3 = k3
  r1 = r1
  u = u
  v = v
  Blank = Blank
  Bundles <- OneBundle
  Evidence <- OneEvidence
  Reasons <- OneReason
  Candidates <- OneCandidate
  Keys <- ThreeKeys
  Contexts <- PlainContexts
  MaxVersions = 2
  MaxDrafts = 1
  MaxReleases = 3
  MaxDeployments = 2
  Watched <- ThreeKeys
  Writers <- OneWriter
  TempName <- OwnNames
  Operations <- AllOperations
SPECIFICATION Spec
INVARIANTS
  AnsweredIsKept
PROPERTIES
  ImplementsProvider

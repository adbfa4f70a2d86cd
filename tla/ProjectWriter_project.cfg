CONSTANTS
  p1 = p1
  p2 = p2
  p3 = p3
  f1 = f1
  f2 = f2
  bad = bad
  leak = leak
  binding = binding
  ignore = ignore
  PosixRelative <- PlainReferences
  Malformed = {bad}
  Secret = {leak}
  Unrelated <- McUnrelated
  Fixtures <- OneFixture
  Advances <- TwoAdvances
  Proposals <- McProposals
  Edits <- McEdits
  Times = {1, 2}
  MaxSeeds = 1
  MaxVersions = 2
  MaxEdits = 1
  MaxKills = 1
SPECIFICATION FairSpec
INVARIANTS
  EvidenceIsCurrent
  MixturesAreVisible
  ProposalsMatch
PROPERTIES
  EditsKept
  GatesUntouched
  ReinitIsNoOp
  InitConverges

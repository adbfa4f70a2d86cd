CONSTANTS
  p1 = p1
  p2 = p2
  p3 = p3
  f1 = f1
  f2 = f2
  bad = bad
  leak = leak
  binding = binding
  ignore = ignore
  PosixRelative <- SpelledReferences
  Malformed = {bad}
  Secret = {leak}
  Unrelated <- McUnrelated
  Fixtures <- SpelledFixture
  Advances <- NoAdvances
  Proposals <- NoProposals
  Edits <- PromptEdits
  Times = {1, 2}
  MaxSeeds = 1
  MaxVersions = 1
  MaxEdits = 1
  MaxKills = 0
SPECIFICATION Spec
INVARIANTS
  EvidenceIsCurrent

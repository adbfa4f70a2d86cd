CONSTANTS
  b1 = b1
  c1 = c1
  c2 = c2
  c3 = c3
  p = p
  s1 = s1
  s2 = s2
  Blank = Blank
  Bundles <- OneBundle
  Candidates <- OneCandidate
  Evidence <- Runs
  Keys <- DerivedKeys
  Reasons <- NoReasons
  Shells <- OneShell
  Commands <- AllCommands
  Seeds <- TwoSeeds
  BaseIn <- Bases
  Outcomes <- Passing
  Valid <- OneCandidate
  OnFirstPage <- BothWays
  Fixtures = {"healthy"}
  MaxVersions = 1
  MaxEdits = 0
  MaxPolls = 1
SPECIFICATION FairSpec
PROPERTIES
  RetriesReplay

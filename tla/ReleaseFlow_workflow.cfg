CONSTANTS
  b1 = b1
  c1 = c1
  c2 = c2
  c3 = c3
  p = p
  s1 = s1
  s2 = s2
  Blank = Blank
  Bundles <- OneBundle
  Candidates <- ThreeCandidates
  Evidence <- Runs
  Keys <- DerivedKeys
  Reasons <- NoReasons
  Shells <- OneShell
  Commands <- AllCommands
  Seeds <- OneSeed
  BaseIn <- Bases
  Outcomes <- BothWays
  Valid <- ValidOnes
  OnFirstPage <- BothWays
  Fixtures = {"healthy", "failed"}
  MaxVersions = 2
  MaxEdits = 3
  MaxPolls = 1
SPECIFICATION FairSpec
INVARIANTS
  ReleasesWereEvaluated
PROPERTIES
  HistoryPreserved
  ReleaseCompletes

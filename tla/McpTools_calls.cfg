CONSTANTS
  b1 = b1
  c1 = c1
  c2 = c2
  p = p
  q = q
  s1 = s1
  Blank = Blank
  Bundles <- OneBundle
  Candidates <- TwoCandidates
  Evidence <- Runs
  Keys <- DerivedKeys
  Reasons <- NoReasons
  Shells <- TwoShells
  Commands <- McCommands
  Seeds <- OneSeed
  BaseIn <- Bases
  Outcomes <- OnlyPass
  Valid <- TwoCandidates
  OnFirstPage <- OnlyListed
  Fixtures = {"healthy", "failed"}
  MaxVersions = 1
  MaxEdits = 1
  MaxPolls = 1
  Tools <- McTools
SYMMETRY Alike
SPECIFICATION ToolSpec
INVARIANTS
  WorkflowSound
  
  MadeOnce
  NamedOrOvertaken
  

CONSTANTS
  prompt = prompt
  edited = edited
  bad = bad
  rest = rest
  PosixRelative <- PlainReferences
  Malformed = {bad}
  Secret <- Leaks
  InitialFiles <- McFiles
  Edits <- McEdits
  Commands <- McCommands
  Replies = {"yes", "no"}
  Latencies = {1}
  MaxRuns = 2
  MaxEdits = 1
SPECIFICATION Spec
INVARIANTS
  ReadyMeansTested
  ReportsAreComplete
  TurnsSentOnce
  SameRunSameResults
CHECK_DEADLOCK FALSE

\* One branch, a manifest of two tasks, one run: the second task may name
\* the same versions as the first (spec 8 scenario 4).
CONSTANTS
  NoCommit = NoCommit
  NoEntry = NoEntry
  L = 3
  Branches = {"master"}
  StageVers <- MCStageVers
  NumTasks = 2
  MaxRuns = 1
SPECIFICATION Spec
CHECK_DEADLOCK FALSE
PROPERTY RecommitCommits

\* Two branches, a manifest of three tasks, the experiment started twice.
CONSTANTS
  NoCommit = NoCommit
  NoEntry = NoEntry
  L = 3
  Branches = {"master", "dev"}
  StageVers <- MCStageVers
  NumTasks = 3
  MaxRuns = 2
SPECIFICATION Spec
\* An experiment stops for good after its last run ends.
CHECK_DEADLOCK FALSE
INVARIANT TypeOK CarriedOutputsMatchUpstream VersionsFollowLineage TrialTreeWalks
 

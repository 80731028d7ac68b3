\* Branching into the default branch: branch_on_semantic_version writes
\* the renamed mapping on the default branch, where it becomes readable.
CONSTANTS
  Branches <- MCBranches
  Folders <- MCFolders
  ReadSizes <- MCReadSizes
  KeyNames <- MCKeyNames
  KeyBranches <- MCKeyBranches
  KeyNums <- MCKeyNums
  BranchText <- MCBranchText
  DsBranchText <- MCDsBranchText
  DsCreateFolders <- MCDsCreateFolders
  MaxApi = 1
  MaxInc = 2
  MaxOps = 3
  NewBranches <- MCNewBranchesWithDefault
SPECIFICATION Spec
CHECK_DEADLOCK FALSE
INVARIANT MappedVersionMatches

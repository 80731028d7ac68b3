CONSTANTS
  Branches <- MCBranches
  Folders <- MCFolders
  ReadSizes <- MCReadSizes
  KeyNames <- MCKeyNames
  KeyBranches <- MCKeyBranches
  KeyNums <- MCKeyNums
  BranchText <- MCBranchText
  DsBranchText <- MCDsBranchText
  DsCreateFolders <- MCDsCreateFolders
  MaxApi = 1
  MaxInc = 2
  MaxOps = 3
SPECIFICATION Spec
INVARIANT TypeOK
INVARIANT VersionMappingReachable
INVARIANT MappedVersionMatches
INVARIANT ArchiveMatchesMeta
INVARIANT ArchiveExtracts
INVARIANT KeyRoundTrip
INVARIANT LineageVersionsDecrease
INVARIANT WorkspaceMetaRoundTrip
INVARIANT DatasetSchemaBranch
INVARIANT BranchReadersAgree
INVARIANT ReadableVersionsListed
PROPERTY VersionImmutable
CHECK_DEADLOCK FALSE

\* Default configuration (pipeman/config.py): compatibility check when
\* caching on, on new workers off, L3 on, 2 slots, 3 submitted components.
CONSTANTS
  w1 = w1  w2 = w2  w3 = w3  w4 = w4
  A0 = A0  A1 = A1  B0 = B0
  NoManifest = NoManifest
  Workers <- MCWorkers
  Components <- MCComponents
  CompName <- MCCompName
  CompVersion <- MCCompVersion
  CompPkgs <- MCCompPkgs
  BasePkgs <- MCBasePkgs
  Installed <- MCInstalled
  NumSlots = {2}
  MaxRequests = 3
  Policy = "LRU"
  CheckOnCaching = TRUE
  CheckOnNewWorker = TRUE
  DisableL3 = FALSE
  SingletonWorker = FALSE
SPECIFICATION Spec
CHECK_DEADLOCK FALSE
PROPERTY RequestsTerminate

CONSTANTS
  Path <- MCPath
  ParentOf <- MCParentOf
  MaxInode = 4
  MaxFile = 3
  MaxFdNum = 2
  MaxLen = 2
  MaxStreams = 2
  MaxBufs = 3
  TmpMax = 2
  DataBits = 2
  MaxRetries = 4
  FsScenarios <- Scenarios
  EnvName = {"A", "B", "C", "="}
  EnvBadName = {"="}
  EnvLen = {0, 2}
  EnvMaxAlloc = 6
  EnvMaxChanges = 2
  HostnameLen = 2
  EnvScenarios <- MCEnvScenarios
  PathMaxLen = 5
  PathTrips = 3
  UsizeBits = 4
  PtrSize = 2
  PageSize = 2
  MaxFundamentalAlign = 4
  HeapSizes = {0, 3, 4, 15}
  HeapAligns = {0, 3, 4}
  MaxHeapAllocs = 3
  Parts = {"files", "env", "paths", "heap"}
SPECIFICATION FilesSpec
CHECK_DEADLOCK FALSE
INVARIANTS FileCallsSound ShimsSound
PROPERTIES FileStepsSound

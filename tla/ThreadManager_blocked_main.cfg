CONSTANTS
  MaxThreads = 4
  MaxTime = 1
  Cpus = 2
  None = None
  TlsThreads = 2
  TlsMaxKey = 2
  TlsCalls = 5
  TlsYields = 1
  Configs <- OnlyBlockingMain
  TlsPrograms <- LateAtexit
  Parts = {"threads"}
SPECIFICATION MCSpec
INVARIANT BlockedNeverRuns
CHECK_DEADLOCK FALSE

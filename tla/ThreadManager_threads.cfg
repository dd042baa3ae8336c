CONSTANTS
  MaxThreads = 4
  MaxTime = 1
  Cpus = 2
  None = None
  TlsThreads = 2
  TlsMaxKey = 2
  TlsCalls = 5
  TlsYields = 1
  Configs <- AllConfigs
  TlsPrograms <- AllTlsPrograms
  Parts = {"threads", "tls"}
SPECIFICATION MCSpec
CHECK_DEADLOCK FALSE
INVARIANTS JoinersWaitForLive StacksExclusive SchedulingIsSound DestructorsRun
PROPERTIES SwitchesHonoured EveryoneGetsOn

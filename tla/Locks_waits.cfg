CONSTANTS
  Thread = {0, 1, 2, 3}
  DataRaceDetector = FALSE
  Mutex = {m1}
  Condvar = {c1, c2}
  None = None
  Kind <- KindRecursive
  MaxLock = 2
  MaxClock = 0
  NoWriter = NoWriter
  MaxCount = 2
  MaxRwClock = 2
  Nobody = Nobody
  MaxOnceClock = 3
  StoreBufferLimit = 3
  Flavours = {"linux", "windows", "macos"}
  Value = {0, 1}
  Bit = {b0, b1}
  Param = {p0, p1}
  Count = {1}
  NoCall = NoCall
  MaxFutexOps = 4
  SyncThread = {1, 2}
  Loc = {11, 12}
  SyncScenarios <- MCSyncScenarios
  LockParts = {"mutex"}
SPECIFICATION FairLocksSpec
INVARIANTS NoPanic QueuedInPlace WaitersInPlace
PROPERTY MutexWaitEnds
CHECK_DEADLOCK FALSE

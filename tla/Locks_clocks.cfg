CONSTANTS
  Thread = {0, 1, 2}
  DataRaceDetector = TRUE
  Mutex = {m1}
  Condvar = {c1}
  None = None
  Kind <- KindDefault
  MaxLock = 1
  MaxClock = 2
  NoWriter = NoWriter
  MaxCount = 2
  MaxRwClock = 2
  Nobody = Nobody
  MaxOnceClock = 3
  StoreBufferLimit = 3
  Flavours = {"linux", "windows", "macos"}
  Value = {0, 1}
  Bit = {b0, b1}
  Param = {p0, p1}
  Count = {1}
  NoCall = NoCall
  MaxFutexOps = 4
  SyncThread = {1, 2}
  Loc = {11, 12}
  SyncScenarios <- MCSyncScenarios
  LockParts = {"mutex", "rwlock", "once", "objects", "futex"}
SPECIFICATION LocksSpec
SYMMETRY FutexSymmetry
CHECK_DEADLOCK FALSE
INVARIANTS LockedDataRaceFree Exclusion RwNoLostWakeup GuardedDataRaceFree WaitersHaveInitializer DoneKnowsData LockObjectsInPlace QueueInPlace FutexNoLostWakeup WaitersAgree
PROPERTIES ReadersStayUnordered WakeHappensBefore

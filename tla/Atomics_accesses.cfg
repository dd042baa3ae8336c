CONSTANTS
  Thread = {0, 1, 2}
  DataRaceDetector = TRUE
  StoreBufferLimit = 3
  Loc = {x, y}
  Programs <- AllPrograms
  None = None
  RacePrograms <- AllRacePrograms
SPECIFICATION AtomicsSpec
SYMMETRY LocSymmetry
CHECK_DEADLOCK FALSE
INVARIANTS ReadsCoherent SeqCstIsSequential RaceIffUnordered OwnTimeIsPrivate

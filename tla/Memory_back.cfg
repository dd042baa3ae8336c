SPECIFICATION MemSpec
CONSTANTS
  PageSize = 4
  PageCount = 8
  NR_LEVELS = 2
  Fanout = 4
  Byte = {0, 1}
  BootPages = {0, 1}
  KernelBase = 16
  LinearBase = 6
  CopyFrom = {1, 4, 34}
  StaticStart = 8
  CpuLocalStart = 10
  StackStart = 12
  StackEnd = 16
  Tasks = {"a"}
  StackRange <- StacksDef
  Layouts <- LayoutsDef
  MaxSlack = 1
  MaxAllocs = 3
  MaxDepth = 2
  MapSize = 4
  Datum = {1, 2}
  Mutation <- MutationDef
  MergeLimit = 2
  Donor = {1, 2}
  FreeSize = {1, 2}
  MaxPoolSize = 2
  MaxFreed = 4
  MaxMemOps = 4
  BackLookups = TRUE
  CompressionFactor = 2
  HostPageSize = 16
  HostPages = 3
  IsoLayouts <- IsoLayoutsDef
  MaxIsoLive = 3
  Scenarios = {"pages"}
INVARIANT MemNoPanic
CHECK_DEADLOCK FALSE

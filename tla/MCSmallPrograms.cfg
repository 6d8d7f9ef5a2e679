SPECIFICATION MCSpec
CONSTANTS
  Timers = {a, b, c, d}
  NULL = NULL
  Freed = Freed
  None = None
  N = 2
  TI = 1
  Cap = 1
  Delays = {0, 2, 3}
  MaxTime = 4
  Limit5 = 2
  Limit8 = 4
  Limit16 = 8
  Limit32 = 100
  SDS_MAX_PREALLOC = 5
  StaticBuf = 2
  LLONG_MAX = 127
  NoSds = NoSds
  Junk = Junk
  Letters = {0, 97}
  MaxText = 2
  FmtLens = {1, 6}
  MaxEnd = 2
  MaxLen = 5
  Keys = {0, 1, 10, 32, 34, 39, 49, 92, 110, 120}
  MaxLine = 4
  FirstSlots = 2
  BUFFER_SIZE = 12
  MaxWire = 3
  num_process = 5
  FileLens = {0, 1, 4, 5, 7, 9}
  NameChars = {32, 37, 50, 70, 97, 255}
  NAME_MAX = 5
  tosize = 12
INVARIANTS ContainersSound SdsSound SdsSplitJoins HttpChunks ConnectHonest MmapCopies LinksLeadBack
PROPERTY ImplementsService
SYMMETRY MCSymmetry

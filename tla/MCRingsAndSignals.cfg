SPECIFICATION MCSpec
CONSTANTS
  Threads = {t1, t2}
  Items = {a, b}
  NoItem = NoItem
  MaxSize = 3
  QD = 2
  BS = 2
  Hole = Hole
  FileSizes = {0, 3, 5}
  BLOCK_SZ = 2
  SqEntries = 1
  CqEntries = 2
  CursorWrap = 4
  IntWrap = 8
  Garbage = Garbage
  CatSizes = {0, 2, 3, 4, 9}
  MaxFiles = 3
  UringPeers = {1, 2, 3}
  NoPeer = NoPeer
  MAX_CONNECTIONS = 2
  BUFFER_LENGTH = 2
  PEEK = 2
  MaxUringActs = 5
  Users = {u, v}
  ListenFd = ListenFd
  PipeFd = PipeFd
  NoTimer = NoTimer
  FreedTimer = FreedTimer
  TIMESLOT = 1
  MaxClock = 4
  MaxChunks = 1
  MaxLate = 1
INVARIANTS CursorsAgree LiveSlotsHoldItems SleepOnlyWhenEmpty CopySound CatPrints UringSound NcSound
PROPERTY ImplementsFifo
SYMMETRY MCSymmetry

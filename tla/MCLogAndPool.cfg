SPECIFICATION MCSpec
CONSTANTS
  Loggers = {t1, t2}
  QueueSizes = {0, 1}
  SplitLines = 2
  MaxLines = 3
  LastDay = 2
  Threads = {t1, t2, t3}
  Conns = {c1, c2}
  NULL = NULL
INVARIANTS LogSound PoolSound
PROPERTIES EventuallyWritten WaiterServed
CHECK_DEADLOCK FALSE

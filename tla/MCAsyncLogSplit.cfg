SPECIFICATION LogSpec
CONSTANTS
  Loggers = {t1, t2}
  QueueSizes = {0}
  SplitLines = 2
  MaxLines = 4
  LastDay = 1
INVARIANT FileWithinSplit

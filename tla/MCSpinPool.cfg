SPECIFICATION SpinSpec
CONSTANTS
  SpinWorkers = {w1, w2}
  Main = Main
  Limit = 2
  MaxPosts = 3
INVARIANT SleepWithoutTask
CHECK_DEADLOCK FALSE

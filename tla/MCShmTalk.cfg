SPECIFICATION ShmSpec
CONSTANTS
  Conns = {1, 2, 3}
  Pids = {p1, p2}
  USER_LIMIT = 2
  Empty = Empty
  MaxInputs = 2
  MaxBytes = 0
INVARIANT NoEcho
CHECK_DEADLOCK FALSE

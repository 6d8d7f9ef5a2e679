SPECIFICATION Spec
CONSTANTS
  Conns = {1, 2, 3}
  Pids = {p1, p2}
  USER_LIMIT = 2
  Empty = Empty
  MaxInputs = 1
  MaxBytes = 1
  Talkers = {1, 2, 3}
  LIMIT = 2
  Null = Null
  Wild = Wild
  MaxTalk = 2
INVARIANTS ShmTable MytalkSound
PROPERTIES ShmWindsUp MytalkLeaverGone
CHECK_DEADLOCK FALSE

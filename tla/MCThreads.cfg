SPECIFICATION Spec
CONSTANTS
  SpinWorkers = {w1, w2}
  Main = Main
  Limit = 2
  MaxPosts = 4
  LLWorkers = {v1, v2, v3}
  Nil = Nil
  LLTasks = 3
  Workers = {h1, h2}
  Requests = {r1, r2}
  Conns = {c1}
  NULL = NULL
  m_max_requests = 1
  LockUsers = {l1, l2, l3}
INVARIANTS SpinQueueSound LLTaskOnce RequestsSound SpinExclusive
PROPERTIES QuitJoins LLServed AcceptedHandled
CHECK_DEADLOCK FALSE

SPECIFICATION Spec
CONSTANTS
  Threads = {t1, t2}
  Conns = {c1}
  NULL = NULL
INVARIANT RequestGetsConnection

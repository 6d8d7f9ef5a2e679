SPECIFICATION OsSpec
CONSTANTS
  OsPeers = {p1}
  OsWorkers = {w1, w2}
  Nobody = Nobody
  MaxOs = 2
PROPERTY OneShotServed
CHECK_DEADLOCK FALSE

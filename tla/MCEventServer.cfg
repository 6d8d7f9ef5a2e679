SPECIFICATION Spec
CONSTANTS
  Peers = {1, 2}
  Listener = Listener
  Udp = Udp
  BufSize = 2
  Limits = {1, 2}
  MaxSent = 3
  MaxDatagrams = 1
  EchoClients = {1, 2, 3}
  Nobody = Nobody
  MaxTyped = 1
INVARIANTS EsSound ForkZombies
PROPERTIES EsAccepted EsServesOut ForkAnswers
CHECK_DEADLOCK FALSE

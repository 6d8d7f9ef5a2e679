SPECIFICATION Spec
CONSTANTS
  ChatClients = {1, 2, 3}
  MAX_CLIENT = 2
  NoClient = NoClient
  Beyond = Beyond
  MaxActs = 4
  Clients = {1, 2}
  Httpd = Httpd
  Asked <- MCAsked
  PipeCap = 1
  OutBytes = 1
INVARIANTS ChatSound HttpdTidy
PROPERTIES ChatHeard HttpdCloses
CHECK_DEADLOCK FALSE

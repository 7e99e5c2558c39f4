\* Two daemons, each writing up to two requests, and one catchup created.
CONSTANTS
  d1 = d1  d2 = d2  k1 = k1
  DClients = {d1, d2}
  Catchups = {k1}
  MaxRequests = 2
  MaxPings = 1
SPECIFICATION Spec
CHECK_DEADLOCK FALSE
PROPERTY ActivateAnswered

SPECIFICATION Spec
CONSTANTS
  c1 = c1  t1 = t1
  Conns = {c1, t1}
  Files = {}
  Ports <- TwoPorts
  TlsConns = {t1}
  Asks = {"missing", "post", "stalled"}
  Leaving = FALSE
  Returning = {c1}
  ACCEPT_MAX = 1
  ROUTE_SIZE = 4
  MAX_COMMANDS = 1
  INCREMENTS <- MCIncrements
  MAX_DIMS = 1
  NULL = NULL
INVARIANTS QueueExact
PROPERTIES QueueProtocol Served

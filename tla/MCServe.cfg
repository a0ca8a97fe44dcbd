SPECIFICATION Spec
CONSTANTS
  c1 = c1  t1 = t1
  Conns = {c1, t1}
  Files = {f1}
  Ports <- TwoPorts
  TlsConns = {t1}
  Asks = {"missing", "cached", "post", "malformed", "oversize", "stats", "unreadable", "slow", "cut"}
  Leaving = TRUE
  Returning = {}
  ACCEPT_MAX = 1
  ROUTE_SIZE = 4
  MAX_COMMANDS = 1
  INCREMENTS <- MCIncrements
  MAX_DIMS = 1
  NULL = NULL
INVARIANTS WaitsWhenIdle AnswersWhole FreedAnswered EmptyAfterError
CHECK_DEADLOCK FALSE

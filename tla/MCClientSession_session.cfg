CONSTANTS
  c1 = c1
  c2 = c2
  s1 = s1
  s2 = s2
  None = None
  Closed = Closed
  Clients = {c1, c2}
  Conns = {s1}
  Workload <- Sessions
  TransactionMode = FALSE
  CleanupConnections = TRUE
SPECIFICATION FairSpec
INVARIANTS IdleClean
PROPERTIES LeaverForgotten

CONSTANTS
  c1 = c1
  c2 = c2
  Main = Main
  Clients = {c1}
  Cap = 3
SPECIFICATION FairSpec
PROPERTY ShutdownCompletes
CHECK_DEADLOCK FALSE

CONSTANTS
  c1 = c1
  c2 = c2
  Main = Main
  Clients = {c1, c2}
  Cap = 3
SPECIFICATION FairSpec
INVARIANTS ShutdownInv TotalRight GraceKept
PROPERTIES ShutdownCompletesOrHangs
CHECK_DEADLOCK FALSE

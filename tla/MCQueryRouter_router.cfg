SPECIFICATION Spec
CONSTANTS
  c1 = c1
  c2 = c2
  Clients = {c1, c2}
  None = None
  Keys <- mc_Keys
  HashOf <- mc_HashOf
  Settings <- mc_Settings
  Reloads <- mc_Reloads
  Queries <- mc_Queries
  Parses <- mc_Parses
  Bindings <- mc_Bindings
  Commands <- mc_Commands
  MaxTimers = 2
CHECK_DEADLOCK FALSE
INVARIANTS InitializingEnds RolePinned   

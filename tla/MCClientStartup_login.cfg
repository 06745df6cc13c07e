CONSTANTS
  c1 = c1
  c2 = c2
  h1 = h1
  h2 = h2
  p1 = p1
  p2 = p2
  None = None
  Clients = {c1, c2}
  Hosts = {h1, h2}
  Passwords = {p1, p2}
  AdminPassword = p1
  Initial = p1
  Asks <- Asks_
  Candidates <- Files
  First <- ByQuery
  MaxChanges = 1
  MaxPools = 2
SPECIFICATION Spec
INVARIANTS NotWronglyRefused AdmittedKnown ParamsKnown
PROPERTIES AuthPossible HashHeals

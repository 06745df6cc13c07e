SPECIFICATION Spec
CONSTANTS
  c1 = c1  c2 = c2  n1 = n1  n2 = n2  t1 = t1  t2 = t2  bad = bad  s1 = s1  s2 = s2
  Clients = {c1, c2}
  Names = {n1}
  Texts = {t1, t2, bad}
  BadTexts = {bad}
  Servers = {s1}
  None = None
  CacheSize = 1
  MaxBuffered = 2
  MaxCounter = 2
SYMMETRY Symm
INVARIANTS  CacheExact EnsuredFound
CHECK_DEADLOCK FALSE

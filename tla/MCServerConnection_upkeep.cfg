CONSTANTS
  k1 = k1  k2 = k2
  None = None
  Conns = {k1, k2}
  Mirrored = {k1}
  Addrs = {"a", "b"}
  FirstAddrs = "a"
  MaxFlips = 1
  MaxReloads = 1
  MaxBorn = 2
  Capacity = 1
  MaxSent = 2
CHECK_DEADLOCK FALSE
SPECIFICATION FairSpec
INVARIANTS NoTrace 
PROPERTIES MirrorEnds 

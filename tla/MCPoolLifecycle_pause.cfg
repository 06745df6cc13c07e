CONSTANTS
  c1 = c1
  c2 = c2
  a1 = a1
  a2 = a2
  a3 = a3
  a4 = a4
  NoPool = NoPool
  Clients = {c1}
  Reloaders = {1}
  Pools = {a1, a2}
  Configs <- PoolConfigs
SPECIFICATION FairSpec
INVARIANTS   PoolsCurrent
PROPERTIES ResumeReleases

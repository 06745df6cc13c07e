CONSTANTS
  c1 = c1
  c2 = c2
  p1 = p1
  r1 = r1
  r2 = r2
  r3 = r3
  s0 = s0
  s1 = s1
  Nobody = Nobody
  AnyShard = AnyShard
  Requests = {c1}
  Addresses <- TwoShards
  Shards = {s0, s1}
  RoleOf <- Roles_
  ShardOf <- Shards_
  HostOf <- Hosts_
  DefaultShard = "random_healthy"
  LeastOutstanding = TRUE
  BanTime = 0
  AdminTimes = {0}
  MaxErrors = 1

SPECIFICATION FairSpec
INVARIANTS BanInv AllBannedTried SteadyServed
PROPERTIES GetReturns

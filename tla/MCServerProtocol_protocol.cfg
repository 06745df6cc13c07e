SPECIFICATION FairSpec
CONSTANTS
  c1 = c1  c2 = c2
  Clients = {c1, c2}
  Params = {1, 2}
  Default = 1
  None = None
  Guess = 2
  Creds <- Creds_
  Secret = "right"
  Methods = {"trust", "md5", "scram", "other", "reject", "notice", "stranger"}
  Pids = {10, 20}
  Replies <- Plain
INVARIANTS   ParamsFollow 
PROPERTIES  ExchangeEnds LoginEnds

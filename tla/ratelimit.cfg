SPECIFICATION FairSpec
CONSTANTS
  NoVisitor = NoVisitor
  NoRequest = NoRequest
  NoTick = NoTick
  Remotes <- TwoPorts
  SplitHost <- Hosts
  Goroutines = {g1, g2}
  RpsEnv = 0
  DefaultRps = 1
  BurstEnv = 1
  DefaultBurst = 3
  Cost = 2
  MaxIdle = 3
  MaxStall = 1
  MaxClock = 5
  MaxRequests = 3
INVARIANTS
  TypeOK
PROPERTIES
  ImplementsTokenBucket
  IdleVisitorsGo

SPECIFICATION Spec
CONSTANTS
  d1 = d1
  site = site
  missing = missing
  NoRule = NoRule
  DroppedRule = DroppedRule
  NoUser = NoUser
  Never = Never
  NoWalk = NoWalk
  NoRead = NoRead
  RuleIds = {r1}
  Devices = {d1}
  Metrics = {"temperature_c"}
  Users = {u1}
  RuleInputs <- NoInputs
  InitialRules <- Rules
  SiteOf <- OneSite
  DebounceN = 1
  DefaultLimit = 1
  MaxLimit = 2
  MaxOffset = 10
  DefaultPoints = 2
  MaxPoints = 3
  Walks <- SmallWalks
  Windows <- SmallWindows
  MaxRows = 4
  MaxTime = 2
  MaxCuts = 1
INVARIANTS
  WalkMissesNothing
  TelemetryIsLatest

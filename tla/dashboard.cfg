SPECIFICATION FairSpec
CONSTANTS
  d1 = d1
  r1 = r1
  missing = missing
  NoRule = NoRule
  DroppedRule = DroppedRule
  NoUser = NoUser
  Never = Never
  UnknownId = UnknownId
  BadId = BadId
  Stranger = Stranger
  NoBody = NoBody
  NoRequest = NoRequest
  NoFetch = NoFetch
  NoData = NoData
  NoAlert = NoAlert
  NoSlot = NoSlot
  NotClicked = NotClicked
  Recorded = {}
  RuleIds = {r1}
  Devices = {d1}
  Metrics = {"temperature_c"}
  Users = {u1}
  RuleInputs <- Bodies
  ActingUser = u1
  PageQuery <- AllAlerts
  InitialRules <- OneRule
  SiteOf <- OneSite
  DebounceN = 1
  DefaultLimit = 50
  MaxLimit = 500
  MaxOffset = 1000000
  Slots = {s1, s2}
  MaxRequests = 3
  MaxFaults = 1
  MaxLostReplies = 1
  MaxOthers = 2
INVARIANTS
  ConflictMeansRaced
  OwnActionsShow
  BusyUntilSettled
PROPERTIES
  PageCatchesUp

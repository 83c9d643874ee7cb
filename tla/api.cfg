SPECIFICATION ApiSpec
CONSTANTS
  d1 = d1
  r1 = r1
  NoRule = NoRule
  DroppedRule = DroppedRule
  NoUser = NoUser
  Never = Never
  UnknownId = UnknownId
  BadId = BadId
  Stranger = Stranger
  NoBody = NoBody
  NoRequest = NoRequest
  Recorded = {200, 201, 204, 404, 409}
  RuleIds = {r1, r2}
  Devices = {d1}
  Metrics = {"temperature_c"}
  Users = {u1, u2}
  RuleInputs <- Bodies
  InitialRules <- OneRule
  SiteOf <- OneSite
  DebounceN = 1
  DefaultLimit = 50
  MaxLimit = 500
  MaxOffset = 1000000
  Slots = {s1, s2}
  MaxRequests = 2
  MaxFaults = 1
  MaxLostReplies = 1
  MaxOthers = 3
SYMMETRY ApiSymmetry
INVARIANTS
  AnswersStayTrue
  OneWinner
CHECK_DEADLOCK FALSE

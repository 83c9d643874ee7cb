SPECIFICATION Spec
CONSTANTS
  d1 = d1
  d2 = d2
  warning = warning
  critical = critical
  NoRule = NoRule
  DroppedRule = DroppedRule
  NoUser = NoUser
  Never = Never
  Malformed = Malformed
  RuleIds = {warning}
  Devices = {d1}
  Metrics = {"temperature_c"}
  Users = {u1}
  Workers = {w1}
  RuleInputs <- Edits
  InitialRules <- OneRule
  Topics <- OnlyD1
  Payloads <- TwoLevels
  DebounceN = 1
  QueueSize = 1
  LastSeenDebounce = 2
  OnlineThreshold = 4
  MaxMsgs = 3
  MaxFaults = 1
  MaxLostReplies = 0
  MaxRestarts = 1
  MaxShutdowns = 0
  MaxEdits = 0
  MaxClock = 4
INVARIANTS
  ReportedDeviceIsOnline
  ResolvedNotBeforeTriggered

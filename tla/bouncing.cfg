SPECIFICATION Spec
CONSTANTS
  d1 = d1
  d2 = d2
  warning = warning
  critical = critical
  NoRule = NoRule
  DroppedRule = DroppedRule
  NoUser = NoUser
  Never = Never
  Malformed = Malformed
  RuleIds = {warning}
  Devices = {d1}
  Metrics = {"temperature_c"}
  Users = {}
  Workers = {w1, w2}
  RuleInputs <- Edits
  InitialRules <- OneRule
  Topics <- OnlyD1
  Payloads <- TwoLevels
  DebounceN = 2
  QueueSize = 1
  LastSeenDebounce = 1
  OnlineThreshold = 3
  MaxMsgs = 3
  MaxFaults = 0
  MaxLostReplies = 0
  MaxRestarts = 0
  MaxShutdowns = 0
  MaxEdits = 0
  MaxClock = 0
INVARIANTS
  BouncingNeverActs

SPECIFICATION Spec
CONSTANTS
  Audits = {a1, a2}
  NoAudit = NoAudit
  Users = {u1}
  NoUser = NoUser
  Plugins <- MCPlugins
  Targets <- MCTargets
  Pipelines <- OneGatedEach
  Lag = "none"
  Brisk = TRUE
  MaxTime = 4
  MaxUid = 1
  MaxEdits = 0
  MaxFaults = 0
  Duration = 1
  Cooldown = 3
  PollInterval = 1
  Hour = 4
  MaxTriggers = 2
  ApprovalTimeout = 3
  TargetLists <- OneTarget
  NamespaceTarget = "namespace"
  PluginOutcomes = {"Succeeded"}
  LastCrossing = 4
  Retention = 9
  DefaultRetention = 9
  HeldOutcomes = {"Succeeded"}
  MaxReverts = 0
  Rewrites = {}
  MaxRewrites = 0
PROPERTIES QuietAfterDecision
CHECK_DEADLOCK FALSE

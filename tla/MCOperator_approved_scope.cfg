SPECIFICATION Spec
CONSTANTS
  Audits = {a1}
  NoAudit = NoAudit
  Users = {u1}
  NoUser = NoUser
  Plugins <- MCPlugins
  Targets <- MCTargets
  Pipelines <- EditedPipelines
  Lag = "none"
  Brisk = TRUE
  MaxTime = 2
  MaxUid = 1
  MaxEdits = 1
  MaxFaults = 0
  Duration = 1
  Cooldown = 2
  PollInterval = 1
  Hour = 4
  MaxTriggers = 1
  ApprovalTimeout = 1
  TargetLists <- OneTarget
  NamespaceTarget = "namespace"
  PluginOutcomes = {"Succeeded"}
  LastCrossing = 2
  Retention = 9
  DefaultRetention = 9
  HeldOutcomes = {"Succeeded"}
  MaxReverts = 0
  Rewrites = {}
  MaxRewrites = 0
INVARIANTS ApprovedScope
CHECK_DEADLOCK FALSE

SPECIFICATION FairSpec
CONSTANTS
  Audits = {a1}
  NoAudit = NoAudit
  Users = {u1}
  NoUser = NoUser
  Plugins <- MCPlugins
  Targets <- MCTargets
  Pipelines <- TrimmedPipelines
  Lag = "any"
  Brisk = FALSE
  MaxTime = 2
  MaxUid = 1
  MaxEdits = 1
  MaxFaults = 1
  Duration = 1
  Cooldown = 2
  PollInterval = 1
  Hour = 4
  MaxTriggers = 1
  ApprovalTimeout = 1
  TargetLists <- OneTarget
  NamespaceTarget = "namespace"
  PluginOutcomes = {"Succeeded"}
  LastCrossing = 1
  Retention = 9
  DefaultRetention = 9
  HeldOutcomes = {"Succeeded"}
  MaxReverts = 0
  Rewrites = {}
  MaxRewrites = 0
PROPERTIES GateResolves PolicyLetGo ApprovalTakesEffect
CHECK_DEADLOCK FALSE

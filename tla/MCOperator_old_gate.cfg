SPECIFICATION Spec
CONSTANTS
  Audits = {a1, a2, a3}
  NoAudit = NoAudit
  Users = {}
  NoUser = NoUser
  Plugins <- MCPlugins
  Targets <- MCTargets
  Pipelines <- OneGatedEach
  Lag = "none"
  Brisk = TRUE
  MaxTime = 7
  MaxUid = 2
  MaxEdits = 0
  MaxFaults = 0
  Duration = 1
  Cooldown = 1
  PollInterval = 1
  Hour = 9
  MaxTriggers = 3
  ApprovalTimeout = 4
  TargetLists <- OneTarget
  NamespaceTarget = "namespace"
  PluginOutcomes = {"Succeeded"}
  LastCrossing = 7
  Retention = 20
  DefaultRetention = 20
  HeldOutcomes = {"Succeeded"}
  MaxReverts = 0
  Rewrites = {}
  MaxRewrites = 0
INVARIANTS SingleGate
CHECK_DEADLOCK FALSE

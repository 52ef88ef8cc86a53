SPECIFICATION ObsSpec
CONSTANTS
  Audits = {a1}
  NoAudit = NoAudit
  Users = {u1}
  NoUser = NoUser
  Plugins <- MCPlugins
  Targets <- MCTargets
  Pipelines <- Either
  Lag = "none"
  Brisk = TRUE
  MaxTime = 2
  MaxUid = 2
  MaxEdits = 0
  MaxFaults = 1
  Duration = 1
  Cooldown = 1
  PollInterval = 1
  Hour = 4
  MaxTriggers = 1
  ApprovalTimeout = 1
  TargetLists <- OneTarget
  NamespaceTarget = "namespace"
  PluginOutcomes = {"Succeeded"}
  LastCrossing = 1
  Retention = 9
  DefaultRetention = 1
  HeldOutcomes = {"Succeeded", "Failed"}
  MaxReverts = 1
  Rewrites = {}
  MaxRewrites = 0
  QueueSize = 1
  Irreversible = {"notify"}
INVARIANTS ObsTypeOK RowsMatchRecord TrailComplete GaugeFollowsGates
CHECK_DEADLOCK FALSE

SPECIFICATION Spec
CONSTANTS
  Audits = {a1, a2}
  NoAudit = NoAudit
  Users = {}
  NoUser = NoUser
  Plugins <- MCPlugins
  Targets <- MCTargets
  Pipelines <- EitherPipeline
  Lag = "tick"
  Brisk = FALSE
  MaxTime = 3
  MaxUid = 1
  MaxEdits = 1
  MaxFaults = 1
  Duration = 1
  Cooldown = 3
  PollInterval = 1
  Hour = 4
  MaxTriggers = 2
  ApprovalTimeout = 1
  TargetLists <- OneTarget
  NamespaceTarget = "namespace"
  PluginOutcomes = {"Succeeded"}
  LastCrossing = 3
  Retention = 9
  DefaultRetention = 9
  HeldOutcomes = {"Succeeded"}
  MaxReverts = 0
  Rewrites = {}
  MaxRewrites = 0
SYMMETRY Symmetry
INVARIANTS HoldsWhileReferenced
CHECK_DEADLOCK FALSE

SPECIFICATION Spec
CONSTANTS
  Audits = {a1, a2}
  NoAudit = NoAudit
  Users = {}
  NoUser = NoUser
  Plugins <- MCPlugins
  Targets <- MCTargets
  Pipelines <- EitherPipeline
  Lag = "tick"
  Brisk = FALSE
  MaxTime = 5
  MaxUid = 1
  MaxEdits = 1
  MaxFaults = 1
  Duration = 1
  Cooldown = 1
  PollInterval = 4
  Hour = 3
  MaxTriggers = 1
  ApprovalTimeout = 1
  TargetLists <- OneTarget
  NamespaceTarget = "namespace"
  PluginOutcomes = {"Succeeded"}
  LastCrossing = 5
  Retention = 9
  DefaultRetention = 9
  HeldOutcomes = {"Succeeded"}
  MaxReverts = 0
  Rewrites = {}
  MaxRewrites = 0
SYMMETRY Symmetry
INVARIANT HourlyCap
CHECK_DEADLOCK FALSE

SPECIFICATION Spec
CONSTANTS
  Audits = {a1, a2, a3}
  NoAudit = NoAudit
  Users = {u1}
  NoUser = NoUser
  Plugins <- MCPlugins
  Targets <- MCTargets
  Pipelines <- EitherPipeline
  Lag = "none"
  Brisk = TRUE
  MaxTime = 9
  MaxUid = 1
  MaxEdits = 0
  MaxFaults = 0
  Duration = 1
  Cooldown = 2
  PollInterval = 4
  Hour = 7
  MaxTriggers = 2
  ApprovalTimeout = 2
  TargetLists <- AnyTargets
  NamespaceTarget = "namespace"
  PluginOutcomes = {"Succeeded", "Failed"}
  LastCrossing = 9
  Retention = 20
  DefaultRetention = 20
  HeldOutcomes = {"Succeeded"}
  MaxReverts = 0
  Rewrites = {}
  MaxRewrites = 0
SYMMETRY Symmetry
INVARIANTS SingleGate QuietAfterTrigger HourlyCap
CHECK_DEADLOCK FALSE

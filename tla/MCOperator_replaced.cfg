SPECIFICATION Spec
CONSTANTS
  Audits = {a1, a2}
  NoAudit = NoAudit
  Users = {u1}
  NoUser = NoUser
  Plugins <- MCPlugins
  Targets <- MCTargets
  Pipelines <- EditedPipelines
  Lag = "tick"
  Brisk = TRUE
  MaxTime = 3
  MaxUid = 2
  MaxEdits = 1
  MaxFaults = 0
  Duration = 1
  Cooldown = 1
  PollInterval = 1
  Hour = 4
  MaxTriggers = 1
  ApprovalTimeout = 1
  TargetLists <- OneTarget
  NamespaceTarget = "namespace"
  PluginOutcomes = {"Succeeded"}
  LastCrossing = 2
  Retention = 2
  DefaultRetention = 1
  HeldOutcomes = {"Succeeded"}
  MaxReverts = 0
  Rewrites = {}
  MaxRewrites = 0
SYMMETRY Symmetry
INVARIANTS WaitsForOwnGate ReleasedScope
PROPERTIES GatePromise
CHECK_DEADLOCK FALSE

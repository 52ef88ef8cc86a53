SPECIFICATION Spec
CONSTANTS
  Audits = {a1}
  NoAudit = NoAudit
  Users = {u1}
  NoUser = NoUser
  Plugins <- MCPlugins
  Targets <- MCTargets
  Pipelines <- SecondGated
  Lag = "tick"
  Brisk = FALSE
  MaxTime = 3
  MaxUid = 1
  MaxEdits = 0
  MaxFaults = 1
  Duration = 1
  Cooldown = 2
  PollInterval = 1
  Hour = 4
  MaxTriggers = 1
  ApprovalTimeout = 1
  TargetLists <- OneTarget
  NamespaceTarget = "namespace"
  PluginOutcomes = {"Succeeded"}
  LastCrossing = 2
  Retention = 9
  DefaultRetention = 9
  HeldOutcomes = {"Succeeded"}
  MaxReverts = 0
  Rewrites <- MCRewrites
  MaxRewrites = 1
SYMMETRY Symmetry
INVARIANTS FailClosed ReleasedScope
PROPERTIES GatePromise
CHECK_DEADLOCK FALSE

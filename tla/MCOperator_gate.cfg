SPECIFICATION Spec
CONSTANTS
  Audits = {a1}
  NoAudit = NoAudit
  Users = {u1, u2}
  NoUser = NoUser
  Plugins <- MCPlugins
  Targets <- MCTargets
  Pipelines <- OneGatedEach
  Lag = "any"
  Brisk = FALSE
  MaxTime = 2
  MaxUid = 1
  MaxEdits = 0
  MaxFaults = 1
  Duration = 1
  Cooldown = 2
  PollInterval = 1
  Hour = 4
  MaxTriggers = 1
  ApprovalTimeout = 1
  TargetLists <- OneTarget
  NamespaceTarget = "namespace"
  PluginOutcomes = {"Succeeded"}
  LastCrossing = 2
  Retention = 9
  DefaultRetention = 9
  HeldOutcomes = {"Succeeded"}
  MaxReverts = 1
  Rewrites = {}
  MaxRewrites = 0
SYMMETRY Symmetry
INVARIANTS TypeOK FailClosed ExpiredUndecided ApprovedIsRecorded DeciderStamped
PROPERTIES GatePromise DecisionWriteOnce PhaseFinal
CHECK_DEADLOCK FALSE

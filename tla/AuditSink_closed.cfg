SPECIFICATION Spec
CONSTANTS
  Reconcilers = {policyReconciler, auditReconciler}
  QueueSize = 1
  MaxActions = 1
  MaxCalls = 4
INVARIANTS RecordIsSafe
CHECK_DEADLOCK FALSE

SPECIFICATION FairSpec
CONSTANTS
  Reconcilers = {policyReconciler, auditReconciler}
  QueueSize = 2
  MaxActions = 1
  MaxCalls = 4
INVARIANTS SinkTypeOK InOrder CloseDrains PoolClosedLast
PROPERTIES ShutdownEnds
CHECK_DEADLOCK FALSE

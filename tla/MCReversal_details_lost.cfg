SPECIFICATION Spec
CONSTANTS
  Runs = {r1}
  Actions <- OnlySuspend
  Worlds <- OneWorld
  Refs = {1, 2}
  Held <- OnlySuspend
  Calls = {"ok", "fail"}
  MaxEdits = 0
  MaxFaults = 1
INVARIANTS RevertRestores
CHECK_DEADLOCK FALSE

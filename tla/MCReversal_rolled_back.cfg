SPECIFICATION Spec
CONSTANTS
  Runs = {r1}
  Actions <- OnlyRollback
  Worlds <- OneWorld
  Refs = {1, 2}
  Held <- Nothing
  Calls = {"ok", "fail"}
  MaxEdits = 0
  MaxFaults = 1
INVARIANTS ReversedIsSkipped
CHECK_DEADLOCK FALSE

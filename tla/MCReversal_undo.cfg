SPECIFICATION Spec
CONSTANTS
  Runs = {r1, r2}
  Actions <- MCEither
  Worlds <- MCWorlds
  Refs = {1, 2}
  Held <- MCHeld
  Calls = {"ok", "fail"}
  MaxEdits = 1
  MaxFaults = 2
SYMMETRY Symmetry
INVARIANTS RevertUndoes RollbackUndoes
CHECK_DEADLOCK FALSE

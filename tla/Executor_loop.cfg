SPECIFICATION Spec
CONSTANTS
  Plugins = {annotate}
  MaxLen = 3
INVARIANTS LoopIsRunRange
CHECK_DEADLOCK FALSE

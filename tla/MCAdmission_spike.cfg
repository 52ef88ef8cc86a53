SPECIFICATION Spec
CONSTANTS
  Base <- MCBase
  Choices <- MCChoices
  Plugins <- MCPlugins
  Irreversible <- MCIrreversible
  NaN = NaN
  Unparsable = Unparsable
  Values <- MCValues
  MaxMatches = 2
  MaxTime = 4
  MaxEdits = 1
INVARIANTS SpikeNeverTriggers
CHECK_DEADLOCK FALSE

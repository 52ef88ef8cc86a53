SPECIFICATION Spec
CONSTANTS
  Base <- MCBase
  Choices <- LongRetention
  Plugins <- MCPlugins
  Irreversible <- MCIrreversible
  NaN = NaN
  Unparsable = Unparsable
  Values <- MCValues
  MaxMatches = 2
  MaxTime = 1
  MaxEdits = 1
INVARIANTS RetentionBounded
CHECK_DEADLOCK FALSE

SPECIFICATION Spec
CONSTANTS
  Base <- MCBase
  Choices <- MCChoices
  Plugins <- MCPlugins
  Irreversible <- MCIrreversible
  NaN = NaN
  Unparsable = Unparsable
  Values <- MCValues
  MaxMatches = 2
  MaxTime = 4
  MaxEdits = 3
INVARIANTS TypeOK EffectiveTimings IrreversibleOptedIn DryRunAgrees SustainedUnlessEdited
CHECK_DEADLOCK FALSE

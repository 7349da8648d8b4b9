SPECIFICATION Spec
CONSTANTS
  Docs = {d1}
  Callers = {c1, c2}
  NoDoc = NoDoc
  NoCaller = NoCaller
  PageSize = 2
  ReconcileLimit = 1
  Unparsable = {}
  EarlyStages = 1
  DbFaults = TRUE
INVARIANTS TypeOK DecisionsAreExecuted ClosedMeansLeftOrTold
PROPERTIES NeverAhead OnlyPollTakesBack OnlyUnreadPairGoesBack

SPECIFICATION Spec
CONSTANTS
  Docs = {d1, d2, d3}
  Callers = {}
  NoDoc = NoDoc
  NoCaller = NoCaller
  PageSize = 2
  ReconcileLimit = 1
  Unparsable = {d3}
  EarlyStages = 1
  DbFaults = FALSE
INVARIANT NothingLostBehindPair

SPECIFICATION Spec
CONSTANTS
  Docs = {d1}
  Callers = {c1}
  NoDoc = NoDoc
  NoCaller = NoCaller
  PageSize = 2
  ReconcileLimit = 1
  Unparsable = {}
  EarlyStages = 0
  DbFaults = FALSE
PROPERTY PollKeepsDecided

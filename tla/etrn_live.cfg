SPECIFICATION FairSpec
CONSTANTS
  Docs = {d1}
  Callers = {c1}
  NoDoc = NoDoc
  NoCaller = NoCaller
  PageSize = 2
  ReconcileLimit = 1
  Unparsable = {}
  EarlyStages = 2
  DbFaults = FALSE
PROPERTIES SendingResolves AcceptanceReachesCentral

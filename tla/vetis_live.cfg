SPECIFICATION FairSpec
CONSTANTS
  Vsds = {v1, v2}
  Docs = {d1}
  NoDoc = NoDoc
  NoVsd = NoVsd
  Foreign = {}
  Quenchers = {q1}
  PageSize = 3
  MaxChanges = 3
  DbFaults = FALSE
  Restarts = FALSE
  QuietRounds = FALSE
PROPERTIES UtilizedIsShown

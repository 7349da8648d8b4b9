SPECIFICATION Spec
CONSTANTS
  Vsds = {v1, v2}
  Docs = {d1, d2}
  NoDoc = NoDoc
  NoVsd = NoVsd
  Foreign = {}
  Quenchers = {q1, q2}
  PageSize = 3
  MaxChanges = 3
  DbFaults = TRUE
  Restarts = TRUE
  QuietRounds = FALSE
INVARIANTS TypeOK
PROPERTY JournalNeverAhead
SYMMETRY AllSymmetry

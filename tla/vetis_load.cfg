SPECIFICATION Spec
CONSTANTS
  Vsds = {v1, v2, v3, v4}
  Docs = {d1, d2}
  NoDoc = NoDoc
  NoVsd = NoVsd
  Foreign = {v3, v4}
  Quenchers = {}
  PageSize = 2
  MaxChanges = 4
  DbFaults = TRUE
  Restarts = TRUE
  QuietRounds = TRUE
INVARIANTS NothingLostBehindCursor OneRecord SweptStaysSwept
SYMMETRY KindSymmetry

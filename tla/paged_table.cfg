SPECIFICATION FairSpec
CONSTANTS
  Filters = {f1, f2}
  MaxRow = 5
  PageSize = 2
  ViewHeight = 2
  BeforeEnd = 0
  MaxViews = 2
  MaxReloads = 3
  MaxLoads = 2
  MaxChanges = 1
  MaxFaults = 1
INVARIANTS TypeOK RowsBelong NothingSkipped OneLoad EndIsFetched
PROPERTY SpinnerEnds
CHECK_DEADLOCK FALSE

SPECIFICATION FairSpec
CONSTANTS
  Docs = {1, 2, 3}
  Kinds = {"dated"}
  KindOf <- OneKind
  Batch = 2
INVARIANTS TypeOK PassMissesNothing
PROPERTY StayingIsVisited

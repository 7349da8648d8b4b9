SPECIFICATION FairSpec
CONSTANTS
  Callers = {c1, c2, c3}
  NoCaller = NoCaller
  MaxSessions = 3
INVARIANTS TypeOK SlotIsNewest LoginsAreDue RetryIsFresh
PROPERTY CommandsEnd

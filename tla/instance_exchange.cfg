SPECIFICATION FairSpec
CONSTANTS
  Requests = {w1, w2}
  NoRequest = NoRequest
  Groups = {g1, g2}
  NoGroup = NoGroup
  Updates = {u1}
  NoUpdate = NoUpdate
  MaxEdits = 2
  MaxFaults = 1
INVARIANTS TypeOK AssignedStaysPending ForcedStaysOrdered
PROPERTY Settles

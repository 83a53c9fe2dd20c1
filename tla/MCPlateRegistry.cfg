CONSTANTS
  Number = {n1, n2}
  Email = {e1, e2}
  Sender = {e1}
  Thread = {t1, t2}
  Loop = loop
  MaxRequests = 2
  MaxPlates = 2
  MaxEdits = 1
  MaxFaults = 1
  Unchanged = Unchanged
SYMMETRY Symmetry
SPECIFICATION Spec
INVARIANTS
  RegistryTypeOK
  AtMostOnePending
  CalmReviews
PROPERTIES
  StatusMoves

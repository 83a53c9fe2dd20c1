CONSTANTS
  Number = {n1}
  Email = {e1}
  Sender = {e1}
  Thread = {t1, t2}
  Loop = loop
  MaxRequests = 1
  MaxPlates = 2
  MaxEdits = 1
  MaxFaults = 0
  Unchanged = Unchanged
SPECIFICATION Spec
INVARIANTS
  ApprovalCopies

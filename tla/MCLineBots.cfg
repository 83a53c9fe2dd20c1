SPECIFICATION Spec
CONSTANTS
  a1 = a1
  a2 = a2
  u1 = u1
  w1 = w1
  None = None
  Orphan = Orphan
  Admin = {a1, a2}
  User = {u1}
  Worker = {w1}
  PoolSize = 2
  PoolTimeout = 2
  Deadline = 2
  Phases = 2
  Window = 2
  Second = 2
  Limit = 2
  MaxMessages <- MCMaxMessages
  MaxTools <- MCMaxTools
  MaxOrphans = 1
INVARIANTS BotsTypeOK ConnectionsReturned DeadlineKept WindowHonest
PROPERTIES EveryDeliveryEnds

CONSTANTS
  founder = founder
  newcomer = newcomer
  other = other
  Email = {founder, newcomer, other}
  Founder = founder
  NoSub = NoSub
  Thread = {t1, t2}
  Loop = Loop
  TokenLife = 2
  CookieLife = 1
  MaxTime = 3
  MaxRequests = 4
  MaxFaults = 1
SYMMETRY Interchangeable
SPECIFICATION Spec
INVARIANTS
  AccessTypeOK
  OneAccountEach
  MailTriedFirst
PROPERTIES
  AccessSpec
  DeletedForGood
CHECK_DEADLOCK FALSE

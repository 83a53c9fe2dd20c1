CONSTANTS
  CAMT_01 = CAMT_01
  Spot = {1, 2}
  Listed = {1}
  Lot = {CAMT_01}
  LotOf <- OneLot
  Board = ORANGE_PI_MAIN
  Camera = {CAMT_01, CAMT_03}
  Silence = 2
  Hour = 2
  Count = {0, 2}
  Delay = 1
  MaxRows = 2
  MaxHistory = 2
  Horizon = 3
  MaxWrites = 3
SPECIFICATION Spec
INVARIANTS
  AnalyticsTypeOK
  DurationsTellParking
  ReadersAgree
  HealthFollowsBoard
CHECK_DEADLOCK FALSE

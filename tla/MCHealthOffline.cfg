CONSTANTS
  CAMT_01 = CAMT_01
  Spot = {1}
  Listed = {1}
  Lot = {CAMT_01}
  LotOf <- OneLot
  Board = ORANGE_PI_MAIN
  Camera = {CAMT_01, CAMT_04}
  Silence = 2
  Hour = 2
  Count = {0, 1}
  Delay = 0
  MaxRows = 3
  MaxHistory = 2
  Horizon = 2
  MaxWrites = 2
SPECIFICATION Spec
INVARIANTS
  OfflineShown
CHECK_DEADLOCK FALSE

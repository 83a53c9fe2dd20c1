CONSTANTS
  CAMT_01 = CAMT_01
  CAMT_02 = CAMT_02
  ORANGE_PI_MAIN = ORANGE_PI_MAIN
  A1 = A1
  A2 = A2
  Board = ORANGE_PI_MAIN
  Lots <- MCLots
  OtherCameras = {}
  Spot = {A2}
  LotOf <- MCLotOf
  StuckSlotAge = 2
  PipelineInactiveAge = 1
  DeviceOfflineAge = 0
  MaxMessages = 2
  MaxFaults = 1
SPECIFICATION DetectionSpec
INVARIANTS
  DetectionTypeOK
  AtMostOneOpen
PROPERTIES
  Converges
  LogSpec

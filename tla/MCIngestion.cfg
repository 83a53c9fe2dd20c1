CONSTANTS
  CAMT_01 = CAMT_01
  Board = ORANGE_PI_MAIN
  Cameras <- OneCamera
  Lot = {CAMT_01}
  Spot = {A1, A2}
  LotOf <- SpotLot
  Listed = {A1}
  Handler = {h1, h2}
  Kinds = {"snapshot", "camera", "heartbeat"}
  MaxMessages = 3
  MaxEvents = 1
  MaxFaults = 1
  Free = Free
SPECIFICATION Spec
INVARIANTS
  IngestionTypeOK
PROPERTIES
  ReportLogSpec
  SnapshotRepairs
  EveryMessageEnds
CHECK_DEADLOCK FALSE

CONSTANTS
  Board = ORANGE_PI_MAIN
  Lots <- NoLots
  OtherCameras = {camera_3}
  Spot = {}
  LotOf <- NoLotOf
  StuckSlotAge = 2
  PipelineInactiveAge = 1
  DeviceOfflineAge = 0
  MaxMessages = 1
  MaxFaults = 1
  User = {u1}
  PushableType = {"device_offline"}
  MaxAnomalies = 3
  MaxSubscriptions = 2
  MaxPushes = 1
  MaxCommands = 3
  NoUser = NoUser
SPECIFICATION Spec
INVARIANTS
  AtMostOncePush

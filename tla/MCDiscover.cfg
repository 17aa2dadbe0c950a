SPECIFICATION FairSpec
CONSTANTS
  eth = eth
  wlan = wlan
  camera = camera
  NSockets = 3
  Iface <- OneInterface
  Receivers = {2}
  AnyAddress = {2, 3}
  Filters <- Given
  Ids = {1, 2, 3, 4}
  Fresh <- Lowest
  Devices = {camera}
  NoDevice = NoDevice
  Answering <- CameraOnEth
  MinWait = 2
  Timeout = 1
  Foreign <- LateEmptyOrShort
  MaxArrivals = 2
INVARIANTS
  OnlyOwnAnswers
  HandedOnOnce
  NoLostWakeup
  NoUseAfterDestroy
PROPERTIES
  ReqNumsFrozen
  MinimumDuration
  SessionSpec
  Ends

SPECIFICATION Spec
CONSTANTS
  Callers = {c1, c2}
  NoThread = NoThread
  Requests <- TwoRequests
  Daemons = {"adb"}
  VendorConfigs = {}
  BuildType = "userdebug"
  BootMode = "usbradio"
  PersistConfig = "diag"
  MaxEvents = 1
  Budget <- RequestBudget
SYMMETRY CallerSymmetry
CONSTRAINT AtMostFourEvents
INVARIANTS
  DownWhileDisconnecting
  IInv
  VendorConfigReflectsLinks
PROPERTY
  UntruthfulOnlyByOvertakenMonitor

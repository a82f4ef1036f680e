SPECIFICATION Spec
CONSTANTS
  Callers = {c1}
  NoThread = NoThread
  Requests <- FfsRequests
  Daemons = {"adb", "mtp"}
  VendorConfigs = {"diag"}
  BuildType = "userdebug"
  BootMode = "normal"
  PersistConfig = ""
  MaxEvents = 1
  Budget <- LiveBudget
INVARIANTS
  EndpointsOfTheLinks
  IdsNameTheComposition
PROPERTIES
  ImplementsService
  EveryCallReturns
  MonitorPullsUpUndisturbed

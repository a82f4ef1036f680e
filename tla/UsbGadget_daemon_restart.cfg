SPECIFICATION Spec
CONSTANTS
  Callers = {c1}
  NoThread = NoThread
  Requests <- FfsRequests
  Daemons = {"adb", "mtp"}
  VendorConfigs = {}
  BuildType = "user"
  BootMode = "normal"
  PersistConfig = ""
  MaxEvents = 2
  Budget <- DeathBudget
PROPERTIES
  MonitorPullsUp

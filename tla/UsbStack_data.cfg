SPECIFICATION StackSpec
CONSTANTS
  Callers = {c1}
  NoThread = NoThread
  Requests <- StackRequests
  Daemons = {"adb"}
  VendorConfigs = {}
  BuildType = "user"
  BootMode = "normal"
  PersistConfig = ""
  MaxEvents = 1
  Budget <- StackBudget
  Calls <- DataCalls
  MaxUevents = 1
  UsbBudget <- DataBudget
INVARIANTS
  SuccessIsWhole
  UpWhenDataOn
PROPERTY
  OnlyUsbHalBindsParts

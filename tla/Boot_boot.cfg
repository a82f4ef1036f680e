SPECIFICATION BootSpec
CONSTANTS
  MaxTimes = 1
  MaxExits = 2
  Versions = {v1, v2}
  Empty = Empty
  NoVersion = NoVersion
  VendorDb = TRUE
  Dependencies <- TwoDependencies
  Packages <- TwoPackages
  Builds <- TwoBuilds
  MaxToggles = 1
  HasModuleList = FALSE
  MaxReboots = 2
  MaxAccidents = 2
INVARIANTS
  SupervisedUnlessLost
  RecordedMeansWhole
  ConfigOfThisFirmware
  DbIsWhole
  PackagesFollowDependencies
PROPERTIES
  BootCompletes
  SucceedsInTheEnd
CONSTRAINT RadioFirst
ACTION_CONSTRAINT LateAccidents
CHECK_DEADLOCK FALSE

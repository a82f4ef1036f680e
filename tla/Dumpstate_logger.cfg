SPECIFICATION Spec
CONSTANTS
  Builds = {"user", "userdebug"}
  Budget <- BugReportBudget
INVARIANTS
  CopiedAtRest
  LoggerFollowsVerbose
  HandsOverThisDump
PROPERTY
  LoggerResumes

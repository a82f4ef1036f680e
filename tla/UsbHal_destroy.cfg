SPECIFICATION Spec
CONSTANTS
  Calls <- ClearCalls
  MaxUevents = 2
  Budget <- DestroyBudget
PROPERTY
  ThreadDestroyed
CHECK_DEADLOCK FALSE

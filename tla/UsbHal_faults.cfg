SPECIFICATION Spec
CONSTANTS
  Calls <- EveryCall
  MaxUevents = 1
  Budget <- FaultBudget
INVARIANT
  TypeOK
PROPERTIES
  OneWorker
  EveryCallReturns
  StatusPartsOnlyWithError
CHECK_DEADLOCK FALSE

SPECIFICATION HealthSpec
CONSTANTS
  FullSoc = 10
  TransitionTime = 3
  MinSoc = 8
  MaxGap = 2
  Design = 3000000
  Learned = {2700000}
  Budget <- ServiceBudget
CONSTRAINT AtMostTwoEvents
INVARIANTS
  NeverUnderstates
  TruthInTime
PROPERTIES
  NoCliff
  LearnedIsKept
  CopiesAgree
  LevelOfLearnedGauge

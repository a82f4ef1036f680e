SPECIFICATION Spec
CONSTANTS
  FullSoc = 100
  TransitionTime = 6
  MinSoc = 96
  MaxGap = 3
INVARIANT
  KeepsFull

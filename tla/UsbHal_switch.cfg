SPECIFICATION Spec
CONSTANTS
  Calls <- SwitchCalls
  MaxUevents = 2
  Budget <- SwitchBudget
INVARIANTS
  ConnectedSignalNotLost
  PartnerUpMeansBack
  PortFreedUnlessMissed
  ClientSeesLatest
PROPERTY
  RoleSwitchUndisturbed

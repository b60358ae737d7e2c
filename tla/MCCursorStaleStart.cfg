SPECIFICATION Spec
CONSTANTS
  MaxOps = 2
  EndLocation = 2
  InitialLocation = 1
  SpeedOptions = {TRUE, FALSE}
  DetachOnStandstill = FALSE
  Faults = {}
PROPERTIES NoStaleMovement

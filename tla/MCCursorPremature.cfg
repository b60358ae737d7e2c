SPECIFICATION Spec
CONSTANTS
  MaxOps = 2
  EndLocation = 2
  InitialLocation = 1
  SpeedOptions = {FALSE}
  DetachOnStandstill = FALSE
  Faults = {}
INVARIANTS CompletedWasCommanded

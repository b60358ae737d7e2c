\* Two operations under fair scheduling, and a movement error.
SPECIFICATION FairSpec
CONSTANTS
  MaxOps = 2
  EndLocation = 2
  InitialLocation = 1
  SpeedOptions = {FALSE}
  DetachOnStandstill = FALSE
  Faults = {"movement_error"}
PROPERTIES
  AlwaysAcknowledged MovementResolves DetachEndsCntrl FinishedReleasesCallers

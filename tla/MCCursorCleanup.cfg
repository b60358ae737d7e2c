SPECIFICATION FairSpec
CONSTANTS
  MaxOps = 1
  EndLocation = 2
  InitialLocation = 1
  SpeedOptions = {FALSE}
  DetachOnStandstill = FALSE
  Faults = {"init_rejected"}
PROPERTIES FinishedReleasesCallers

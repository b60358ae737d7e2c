\* A second run starts while the first one is still to clean up.
SPECIFICATION Spec
CONSTANTS
  MaxRuns = 2
  Controllers = {c1}
  Faults = {}
PROPERTIES PreconditionsHold

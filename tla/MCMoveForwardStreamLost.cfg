\* The watch's stream ends while the robot moves.
SPECIFICATION Spec
CONSTANTS
  MaxQueued = 1
  Faults = {"watch_ends"}
INVARIANT CompletedOnlyWhenStopped
CHECK_DEADLOCK FALSE

\* Two runs one after the other, with two controllers, so that a failed deletion has one
\* after it; every fault.
SPECIFICATION FairSpec
CONSTANTS
  MaxRuns = 2
  Controllers = {c1, c2}
  Faults = {"open_fails", "ensure_fails", "program_raises", "stop_fails", "publish_fails",
            "close_fails", "delete_fails", "watch_ends", "watch_raises"}
INVARIANTS
  TypeOK OnlyTheRunnerExecutes EndedIsFinal ControllersAreReturned ThreadsAreFree
PROPERTIES
  FinalStateStays AcceptedStopEnds EmergencyEndsProgram

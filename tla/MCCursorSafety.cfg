\* Two operations, every fault, forward() with and without a playback speed.
SPECIFICATION Spec
CONSTANTS
  MaxOps = 2
  EndLocation = 2
  InitialLocation = 1
  SpeedOptions = {TRUE, FALSE}
  DetachOnStandstill = TRUE
  Faults = {"init_rejected", "movement_error", "stream_ends", "stream_raises",
            "silent_stream", "outer_cancel"}
INVARIANTS
  TypeOK NoLostIntent PendingIsDispatched StoppingIsFree
PROPERTIES
  ResolvedAtStandstill FirstCommandIsFresh FuturesRefined OwnerCanRely

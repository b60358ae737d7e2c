\* Every fault, one queued state at a time.
SPECIFICATION FairSpec
CONSTANTS
  MaxQueued = 1
  Faults = {"init_rejected", "start_rejected", "movement_error", "connection_closed",
            "silent_watch", "watch_ends", "watch_raises", "collector_ends",
            "collector_raises", "caller_leaves", "paused_by_user"}
INVARIANTS
  TypeOK NormalEndMeansCompleted CompletedAtTheEnd NothingOutlives MovementIsWatched
  NothingElseHolds
PROPERTIES
  WaitEnds CallerReleased
CHECK_DEADLOCK FALSE

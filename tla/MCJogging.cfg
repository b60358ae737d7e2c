SPECIFICATION FairSpec
CONSTANTS
    NumSessions = 2
    MaxChunks = 2
    ConfirmTicks = 2
    MaxFaults = 1
    MaxWrites = 2
    Faults = {"unresolved", "rejected", "lost", "ended", "crash", "motion_error", "stop_condition", "blocked", "state_lost", "camera_error", "start_error", "policy_error", "estop", "estop_lost", "estop_crash", "write_rejected", "reply_lost", "cancelled", "user_error"}
    \* "asap" does nothing that "fixed" may not do as well.
    Rates = {"chunk", "fixed"}
    Owners = {"executor", "jogger"}
CHECK_DEADLOCK FALSE
INVARIANTS
    TypeOK
    DeviceHasLatest
    ReleasedAtTheEnd
    StopLetsOneChunkPass
PROPERTIES
    ChunksRefined
    EndIsNoticed

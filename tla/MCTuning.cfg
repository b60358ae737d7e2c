SPECIFICATION FairSpec
CONSTANTS
    End = 4
    MaxCommands = 4
    Faults = {"plan_error", "init_error", "movement_error", "cancelled"}
INVARIANTS WaitsOnlyWithoutCommand ResumesWhereItStopped
PROPERTY FinishEndsTuning
\* The user may leave the tuning waiting for a command, and tuning may end.
CHECK_DEADLOCK FALSE

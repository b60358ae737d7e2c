SPECIFICATION Spec
CONSTANTS
    NumActions = 3
    MaxActions = 5
    WaitDurations = {0, 5}
    MotionTimes = {3}
INVARIANTS StepsToAdjacentBoundary IndexCoversLocation PlanPassesTargets
CHECK_DEADLOCK FALSE

----------------------------- MODULE TrajectoryWalk -----------------------------
(***************************************************************************)
(* A walk (TrajectorySteps) along a trajectory planned from a list of      *)
(* actions (TrajectoryPlanning): the cursor is created once the plan is    *)
(* there, and accepts it if it ends at the number of the list's motions    *)
(* (nova/cell/movement_controller/trajectory_cursor.py).                   *)
(***************************************************************************)
EXTENDS TrajectorySteps, TrajectoryPlanning
LOCAL INSTANCE SequencesExt

vars == <<walkVars, planVars>>

Init == WalkInit /\ PlanInit /\ NumMotions(1, Len(actions)) = NumActions

CursorCreated ==
    /\ planned = Len(actions)
    /\ Last(trajectory).location = NumActions

Next ==
    \/ PlanNext /\ UNCHANGED walkVars
    \/ CursorCreated /\ WalkNext /\ UNCHANGED planVars

Spec == Init /\ [][Next]_vars
=================================================================================

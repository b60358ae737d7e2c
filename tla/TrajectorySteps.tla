---------------------------- MODULE TrajectorySteps ----------------------------
(***************************************************************************)
(* A walk along a trajectory by completed single-action steps and by other *)
(* movements that stop anywhere.                                           *)
(***************************************************************************)
EXTENDS TrajectoryLocations

CONSTANT NumActions    \* motion actions of the trajectory

ASSUME NumActionsAssumption == NumActions \in Nat \ {0}

VARIABLES
    location,    \* the cursor's location
    lastStep     \* history: the last completed single step <<from, to>>

walkVars == <<location, lastStep>>

End == NumActions * Unit

WalkInit == location \in 0..End /\ lastStep = <<location, location>>

\* A completed forward_to_next_action or backward_to_previous_action.
StepForward ==
    /\ ForwardStepTarget(location) <= End
    /\ location' = ForwardStepTarget(location)
    /\ lastStep' = <<location, location'>>

StepBackward ==
    /\ BackwardStepTarget(location) >= 0
    /\ location' = BackwardStepTarget(location)
    /\ lastStep' = <<location, location'>>

\* Any other movement, ended by a pause anywhere.
Move == location' \in 0..End /\ UNCHANGED lastStep

WalkNext == StepForward \/ StepBackward \/ Move

WalkSpec == WalkInit /\ [][WalkNext]_walkVars

-------------------------------------------------------------------------------
(***************************************************************************)
(* A single step ends on an action boundary, moves, and passes over no     *)
(* boundary on its way; it is refused exactly where there is nothing left  *)
(* to step over, forward at the last boundary, backward at the first, so   *)
(* that a walk can always continue (forward_to_next_action and             *)
(* backward_to_previous_action, trajectory_cursor.py:826-915).             *)
(***************************************************************************)
StepsToAdjacentBoundary ==
    LET from == lastStep[1]
        to == lastStep[2]
    IN  /\ from # to =>
              /\ to % Unit = 0
              /\ \A between \in 0..End :
                   (from < between /\ between < to) \/ (to < between /\ between < from)
                     => between % Unit # 0
        /\ ForwardStepTarget(location) > End <=> location = End
        /\ BackwardStepTarget(location) < 0 <=> location = 0

(***************************************************************************)
(* The action highlighted at a location is the one whose segment contains  *)
(* it, and at a boundary the one that ends there                           *)
(* (action_index_for_location, trajectory_cursor.py:427-451).              *)
(***************************************************************************)
IndexCoversLocation ==
    LET index == ActionIndexForLocation(location, NumActions)
    IN  /\ index \in 0..(NumActions - 1)
        /\ index * Unit <= location /\ location <= (index + 1) * Unit
        /\ location # 0 => index * Unit < location
===============================================================================

------------------------- MODULE TrajectoryLocations -------------------------
(***************************************************************************)
(* Locations on a trajectory and the targets of single-action steps        *)
(* (nova/cell/movement_controller/trajectory_cursor.py).                   *)
(*                                                                         *)
(* Action number k occupies the locations k to k + 1.  A location is an    *)
(* integer in halves of an action, so that it can lie on a boundary        *)
(* between two actions or inside one: nothing here tells two locations     *)
(* inside the same action apart except by their order.                     *)
(***************************************************************************)
EXTENDS Integers

\* The length of one action.
Unit == 2

\* floor and ceil of a location.
CurrentActionStart(location) == (location \div Unit) * Unit

CurrentActionEnd(location) == ((location + Unit - 1) \div Unit) * Unit

PreviousActionStart(location) == CurrentActionStart(location) - Unit

\* The target of forward_to_next_action; beyond the end it moves nowhere.
ForwardStepTarget(location) ==
    IF location = CurrentActionEnd(location) THEN location + Unit
                                             ELSE CurrentActionEnd(location)

\* Variant: a step from inside an action skips the start of that action.
BackwardStepSkipping(location) == PreviousActionStart(location)

\* The target of backward_to_previous_action; below 0 it moves nowhere.
BackwardStepTarget(location) ==
    IF location - PreviousActionStart(location) <= Unit
    THEN PreviousActionStart(location)
    ELSE CurrentActionStart(location)

\* Variant: the index of the action that begins at a boundary.
ActionIndexRoundingDown(location, numActions) ==
    LET index == location \div Unit
    IN  IF index >= numActions THEN numActions - 1 ELSE index

\* action_index_for_location, counting actions from 0.
ActionIndexForLocation(location, numActions) ==
    LET index == ((location + Unit - 1) \div Unit) - 1
    IN  IF index < 0 THEN 0
        ELSE IF index >= numActions THEN numActions - 1 ELSE index
==============================================================================

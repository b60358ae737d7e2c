--------------------------- MODULE TrajectoryPlanning ---------------------------
(***************************************************************************)
(* How a list of actions becomes one trajectory (MotionGroup._plan in      *)
(* nova/cell/motion_group.py, nova/utils/joint_trajectory.py): the list is *)
(* split into batches, each batch is planned from the joints where the one *)
(* before it ends, and the trajectories are put one after the other.  An   *)
(* action of the model is one turn of that loop.                           *)
(*                                                                         *)
(* The joint position reached by the k-th motion of the list is the number *)
(* k, the position at the start is 0; times are in halves of a time step.  *)
(***************************************************************************)
EXTENDS Naturals, FiniteSets, Sequences
LOCAL INSTANCE SequencesExt

CONSTANTS
    MaxActions,       \* bound: actions in the list
    WaitDurations,    \* how long a wait may take
    MotionTimes       \* when a planned motion may end, from the start of its batch

ASSUME MaxActionsAssumption == MaxActions \in Nat \ {0}
ASSUME TimesAssumption == WaitDurations \subseteq Nat /\ MotionTimes \subseteq Nat

VARIABLES
    actions,       \* the list, writes and waits included
    planned,       \* how many of them are planned
    joints,        \* current_joints: where the next batch starts
    trajectory,    \* the trajectories planned so far, combined
    refused,       \* the planning service has raised
    waited,        \* history: the waits of the list that are planned
    held           \* history: how long they have the robot wait at each location

planVars == <<actions, planned, joints, trajectory, refused, waited, held>>

Action == [kind : {"motion", "collision_free", "write"}, duration : {0}]
          \cup [kind : {"wait"}, duration : WaitDurations]

IsMotion(action) == action.kind \in {"motion", "collision_free"}

\* Collision-free motions and waits are planned by themselves.
Alone(action) == action.kind \in {"collision_free", "wait"}

\* CombinedActions.motions: the motions alone have a place on a trajectory.
NumMotions(first, last) == Cardinality({i \in first..last : IsMotion(actions[i])})

MotionsPlanned == NumMotions(1, planned)

PlanInit ==
    /\ actions \in UNION {[1..n -> Action] : n \in 1..MaxActions}
    /\ planned = 0
    /\ joints = 0
    /\ trajectory = <<>>
    /\ refused = FALSE
    /\ waited = {}
    /\ held = [place \in 0..Len(actions) |-> 0]

-------------------------------------------------------------------------------
(* Trajectories. *)

\* A trajectory is a sequence of points.
Point(position, place, at) == [joints |-> position, location |-> place, time |-> at]

\* What the planning service answers: a point at the end of every motion.  The points
\* between them are of no account.
PlannedMotions(numMotions, start, times) ==
    [k \in 1..(numMotions + 1) |-> Point(start + k - 1, k - 1, times[k - 1])]

\* Variant: the trajectory of a wait advances like that of a motion.
WaitThatAdvances(start, duration) ==
    << Point(start, 0, 0), Point(start, 1, duration) >>

TimeStep == 2

\* _build_wait_trajectory: the joints are held at location 0, at least two points,
\* and the last time is the duration of the wait.
BuildWaitTrajectory(start, duration) ==
    LET steps == duration \div TimeStep + 1
        numSteps == IF steps < 2 THEN 2 ELSE steps
    IN  [i \in 1..numSteps |->
            Point(start, 0, IF i = numSteps THEN duration ELSE (i - 1) * TimeStep)]

\* One turn of combine_trajectories: a trajectory is moved to the end of the ones before
\* it, and its first point is left out.
Combined(before, next) ==
    LET end == Last(before)
        Shift(point) == Point(point.joints, point.location + end.location,
                                            point.time + end.time)
    IN  IF before = <<>> THEN next
        ELSE before \o [i \in 1..(Len(next) - 1) |-> Shift(next[i + 1])]

-------------------------------------------------------------------------------
(* Planning, batch by batch. *)

\* split_actions_into_batches: a new batch begins after or at an action planned alone.
EndsBatch(i) == i < Len(actions) => Alone(actions[i]) \/ Alone(actions[i + 1])

IsNextBatch(first, last) ==
    /\ first = planned + 1
    /\ last \in first..Len(actions)
    /\ EndsBatch(last)
    /\ \A i \in first..(last - 1) : ~EndsBatch(i)

\* A batch has its trajectory; the next one starts where it ends.
PlannedUpTo(last, next) ==
    /\ planned' = last
    /\ trajectory' = Combined(trajectory, next)
    /\ joints' = Last(next).joints

PlanMotions ==
    \E first, last \in DOMAIN actions :
        /\ ~refused
        /\ IsNextBatch(first, last)
        /\ actions[first].kind # "wait"
        /\ \E times \in [0..NumMotions(first, last) -> MotionTimes \cup {0}] :
              /\ times[0] = 0
              /\ \A i, j \in DOMAIN times : i < j => times[i] <= times[j]
              /\ PlannedUpTo(last, PlannedMotions(NumMotions(first, last), joints, times))
        /\ UNCHANGED <<actions, refused, waited, held>>

PlanWait ==
    \E first, last \in DOMAIN actions :
        /\ ~refused
        /\ IsNextBatch(first, last)
        /\ actions[first].kind = "wait"
        /\ PlannedUpTo(last, BuildWaitTrajectory(joints, actions[first].duration))
        /\ waited' = waited \cup {first}
        /\ held' = [held EXCEPT ![MotionsPlanned] = @ + actions[first].duration]
        /\ UNCHANGED <<actions, refused>>

\* The planning service raises, and so does _plan.
PlanningFails ==
    /\ ~refused
    /\ planned < Len(actions)
    /\ actions[planned + 1].kind # "wait"
    /\ refused' = TRUE
    /\ UNCHANGED <<actions, planned, joints, trajectory, waited, held>>

PlanNext == PlanMotions \/ PlanWait \/ PlanningFails

PlanSpec == PlanInit /\ [][PlanNext]_planVars

-------------------------------------------------------------------------------

(* What a plan is to be. *)

\* The points hold the robot at a location for a duration.
Held(points, place, duration) ==
    \E arrival, departure \in DOMAIN points :
        /\ points[arrival].location = place
        /\ points[departure].location = place
        /\ \A i \in DOMAIN points : points[i].location = place =>
              /\ points[arrival].time <= points[i].time
              /\ points[i].time <= points[departure].time
        /\ points[departure].time = points[arrival].time + duration

\* The points pass the targets of so many motions, from the one numbered "start",
\* with a stay at each location, and nothing goes back in time.
Passes(points, start, numMotions, stays) ==
    /\ Last(points).location = numMotions
    /\ \A i \in DOMAIN points : points[i].joints = start + points[i].location
    /\ \A i, j \in DOMAIN points : i < j =>
          /\ points[i].location <= points[j].location
          /\ points[i].time <= points[j].time
    /\ \A place \in 0..numMotions : Held(points, place, stays[place])

(***************************************************************************)
(* Whatever the list, the plan takes the robot to the targets of its       *)
(* motions in their order and nowhere else: its locations count the        *)
(* motions alone, so that a cursor accepts it (the check of the end        *)
(* location, trajectory_cursor.py:536-544), every wait holds the robot at  *)
(* the location of the motion before it, several together for exactly as   *)
(* long as they say, and nothing goes back in time                         *)
(* (motion_group.py:847-962, joint_trajectory.py:4-29).                    *)
(***************************************************************************)
PlanPassesTargets ==
    planned > 0 =>
        /\ Passes(trajectory, 0, MotionsPlanned, held)
        /\ waited = {i \in 1..planned : actions[i].kind = "wait"}
=================================================================================

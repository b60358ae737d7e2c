------------------------------ MODULE MoveForward ------------------------------
(***************************************************************************)
(* The default movement controller and the execution that runs it          *)
(* (nova/cell/movement_controller/move_forward.py, MotionGroup._execute in *)
(* nova/cell/motion_group.py).                                             *)
(*                                                                         *)
(* _execute runs a task group of two: "collector" copies motion-group      *)
(* states into a queue for the caller, "execution" runs the controller,    *)
(* whose generator is "mover".  The mover has tasks of its own, outside    *)
(* the group: "watch", which feeds the lifecycle machine, and "errors",    *)
(* which waits for an error response.  All share one event loop: an action *)
(* is what runs between two awaits.                                        *)
(***************************************************************************)
EXTENDS TrajectoryExecutionMachine, Sequences

CONSTANTS
    MaxQueued,    \* bound: states queued for the caller at a time
    Faults        \* subset of AllFaults: what may go wrong, each once

AllFaults == {"init_rejected", "start_rejected", "movement_error", "connection_closed",
              "silent_watch", "watch_ends", "watch_raises", "collector_ends",
              "collector_raises", "caller_leaves", "paused_by_user"}

ASSUME MaxQueuedAssumption == MaxQueued \in Nat \ {0}
ASSUME FaultsAssumption == Faults \subseteq AllFaults

VARIABLES
    mover,       \* where the generator stands
    outcome,     \* what it ends with, once that is decided
    watch,       \* the state monitor task
    seen,        \* stream_started_event
    machine,     \* the lifecycle machine of the watch
    watchLost,   \* history: the watch's stream has ended or raised
    errors,      \* the error consumer task
    execution,   \* the task that runs execute_trajectory
    collector,   \* the task that queues the states
    aborted,     \* the task group is shutting down: a member failed
    states,      \* queue of states for the caller, and the sentinel
    caller,      \* the task iterating over _execute()
    requests, responses,    \* the wire
    robot,       \* what the server reports
    faults       \* the faults that may still happen

moverVars == <<mover, outcome>>
watchVars == <<watch, seen, machine, watchLost>>
groupVars == <<execution, collector, aborted, states, caller>>
wireVars == <<requests, responses>>
vars == <<moverVars, watchVars, errors, groupVars, wireVars, robot, faults>>

Over == {"returned", "raised"}

MoverStates == {"created", "initializing", "starting", "sent", "waiting", "cleaning"}
               \cup Over

Outcomes == {"none", "completed", "init_failed", "not_started", "start_failed",
             "movement_error", "cancelled"}

TaskStates == {"none", "running", "cancelling", "done"}

Responses == {"init_ok", "init_rejected", "start_ok", "error", "closed"}

TypeOK ==
    /\ mover \in MoverStates
    /\ outcome \in Outcomes
    /\ watch \in TaskStates
    /\ seen \in BOOLEAN
    /\ machine \in MachineStates \ {"error"}
    /\ watchLost \in BOOLEAN
    /\ errors \in TaskStates
    /\ execution \in {"running", "done"}
    /\ collector \in {"running", "done"}
    /\ aborted \in BOOLEAN
    /\ states \in Seq({"state", "sentinel"})
    /\ caller \in {"getting", "holding", "exiting"} \cup Over
    /\ requests \in Seq({"init", "start"})
    /\ responses \in Seq(Responses)
    /\ robot \in [details : Details, standstill : BOOLEAN]
    /\ faults \subseteq Faults

Init ==
    /\ mover = "created"
    /\ outcome = "none"
    /\ watch = "none"
    /\ seen = FALSE
    /\ machine = "idle"
    /\ watchLost = FALSE
    /\ errors = "none"
    /\ execution = "running"
    /\ collector = "running"
    /\ aborted = FALSE
    /\ states = <<>>
    /\ caller = "getting"
    /\ requests = <<>>
    /\ responses = <<>>
    /\ robot = [details |-> "none", standstill |-> TRUE]
    /\ faults = Faults

May(fault) == fault \in faults /\ faults' = faults \ {fault}

-------------------------------------------------------------------------------
(* The mover. *)

MoverInitialize ==
    /\ mover = "created"
    /\ mover' = "initializing"
    /\ requests' = Append(requests, "init")
    /\ UNCHANGED <<outcome, watchVars, errors, groupVars, responses, robot, faults>>

\* The response to it; the watch starts its machine and waits for a state.
MoverInitialized ==
    /\ mover = "initializing"
    /\ responses # <<>>
    /\ responses' = Tail(responses)
    /\ IF Head(responses) = "init_ok"
       THEN /\ mover' = "starting"
            /\ watch' = "running"
            /\ machine' = "executing"
            /\ UNCHANGED outcome
       ELSE /\ mover' = "raised"
            /\ outcome' = "init_failed"
            /\ UNCHANGED <<watch, machine>>
    /\ UNCHANGED <<seen, watchLost, errors, groupVars, requests, robot, faults>>

\* Variant: the movement starts while the watch's stream is still opening.
StreamOpening == TRUE

StreamStarted == seen

\* The watch has seen a state: the movement may start.
MoverStart ==
    /\ mover = "starting"
    /\ StreamStarted
    /\ mover' = "sent"
    /\ requests' = Append(requests, "start")
    /\ UNCHANGED <<outcome, watchVars, errors, groupVars, responses, robot, faults>>

WatchIsSilent == "silent_watch" \in Faults \ faults

\* No state within _START_STATE_MONITOR_TIMEOUT
MoverTimeout ==
    /\ mover = "starting"
    /\ ~seen
    /\ WatchIsSilent \/ watch = "done"
    /\ mover' = "raised"
    /\ outcome' = "not_started"
    /\ watch' = IF watch = "running" THEN "cancelling" ELSE watch
    /\ UNCHANGED <<seen, machine, watchLost, errors, groupVars, wireVars, robot, faults>>

\* The response to the start; any other one raises and leaves the watch alone.
MoverStarted ==
    /\ mover = "sent"
    /\ responses # <<>>
    /\ responses' = Tail(responses)
    /\ IF Head(responses) = "start_ok"
       THEN /\ mover' = "waiting"
            /\ errors' = "running"
            /\ UNCHANGED outcome
       ELSE /\ mover' = "raised"
            /\ outcome' = "start_failed"
            /\ UNCHANGED errors
    /\ UNCHANGED <<watchVars, groupVars, requests, robot, faults>>

Cancelled(task) == IF task = "running" THEN "cancelling" ELSE task

\* asyncio.wait has returned: the watch decides when both tasks are done.
Decide == IF watch = "done" THEN "completed" ELSE "movement_error"

\* Variant: asyncio.wait waits for both tasks.
AllCompleted == watch = "done" /\ errors = "done"

\* asyncio.wait returns as soon as one of the two is done.
FirstCompleted == watch = "done" \/ errors = "done"

\* It returns, and the finally block cancels what is left.
MoverWakes ==
    /\ mover = "waiting"
    /\ FirstCompleted
    /\ mover' = "cleaning"
    /\ outcome' = Decide
    /\ watch' = Cancelled(watch)
    /\ errors' = Cancelled(errors)
    /\ UNCHANGED <<seen, machine, watchLost, groupVars, wireVars, robot, faults>>

\* Variant: the finally block does not wait for the cancelled tasks.
TasksIgnored == TRUE

TasksFinished == watch = "done" /\ errors = "done"

\* gather() has both tasks.
MoverEnds ==
    /\ mover = "cleaning"
    /\ TasksFinished
    /\ mover' = IF outcome = "completed" THEN "returned" ELSE "raised"
    /\ UNCHANGED <<outcome, watchVars, errors, groupVars, wireVars, robot, faults>>

\* The execution task is cancelled: the generator ends where it stands.  Only
\* the wait for completion has a finally block, which waits for its tasks.
MoverCancelled ==
    /\ aborted
    /\ mover \notin Over
    /\ outcome # "cancelled"
    /\ outcome' = "cancelled"
    /\ IF mover \in {"waiting", "cleaning"}
       THEN /\ mover' = "cleaning"
            /\ watch' = Cancelled(watch)
            /\ errors' = Cancelled(errors)
       ELSE /\ mover' = "raised"
            /\ UNCHANGED <<watch, errors>>
    /\ UNCHANGED <<seen, machine, watchLost, groupVars, wireVars, robot, faults>>

Mover ==
    \/ MoverInitialize \/ MoverInitialized \/ MoverStart \/ MoverTimeout \/ MoverStarted
    \/ MoverWakes \/ MoverEnds \/ MoverCancelled

-------------------------------------------------------------------------------
(* The mover's tasks. *)

\* One motion-group state.
WatchStep ==
    /\ watch = "running"
    /\ ~WatchIsSilent
    /\ seen' = TRUE
    /\ machine' = IF HasExecute(robot) THEN Processed(machine, robot) ELSE machine
    /\ watch' = IF machine' = "ended" THEN "done" ELSE "running"
    /\ UNCHANGED <<moverVars, watchLost, errors, groupVars, wireVars, robot, faults>>

\* Its stream ends or raises; nobody looks at the difference.
WatchBreaks ==
    /\ watch = "running"
    /\ May("watch_ends") \/ May("watch_raises")
    /\ watch' = "done"
    /\ watchLost' = TRUE
    /\ UNCHANGED <<moverVars, seen, machine, errors, groupVars, wireVars, robot>>

WatchCancelled ==
    /\ watch = "cancelling"
    /\ watch' = "done"
    /\ UNCHANGED <<moverVars, seen, machine, watchLost, errors, groupVars, wireVars, robot,
                   faults>>

\* One response, whichever it is, or the end of the connection.
ErrorsStep ==
    /\ errors = "running"
    /\ responses # <<>>
    /\ responses' = Tail(responses)
    /\ errors' = "done"
    /\ UNCHANGED <<moverVars, watchVars, groupVars, requests, robot, faults>>

ErrorsCancelled ==
    /\ errors = "cancelling"
    /\ errors' = "done"
    /\ UNCHANGED <<moverVars, watchVars, groupVars, wireVars, robot, faults>>

Watch == WatchStep \/ WatchCancelled
Errors == ErrorsStep \/ ErrorsCancelled

-------------------------------------------------------------------------------
(* The task group of _execute and its caller. *)

\* monitor_motion_group_state: queue a state that carries execute.
CollectorStep ==
    /\ collector = "running" /\ ~aborted
    /\ HasExecute(robot)
    /\ Len(states) < MaxQueued
    /\ states' = Append(states, "state")
    /\ UNCHANGED <<moverVars, watchVars, errors, execution, collector, aborted, caller,
                   wireVars, robot, faults>>

\* Its stream ends, or raises, which shuts the group down.
CollectorBreaks ==
    /\ collector = "running"
    /\ \/ May("collector_ends") /\ UNCHANGED aborted
       \/ May("collector_raises") /\ aborted' = TRUE
    /\ collector' = "done"
    /\ UNCHANGED <<moverVars, watchVars, errors, execution, states, caller, wireVars, robot>>

CollectorCancelled ==
    /\ collector = "running"
    /\ aborted \/ caller = "exiting"
    /\ collector' = "done"
    /\ UNCHANGED <<moverVars, watchVars, errors, execution, aborted, states, caller, wireVars,
                   robot, faults>>

\* Variant: the sentinel is queued only when the controller failed.
SentinelOnFailure ==
    IF mover = "raised" THEN Append(states, "sentinel") ELSE states

SentinelQueued == Append(states, "sentinel")

\* Variant: a controller that raised does not shut the group down.
ErrorLogged == aborted

\* A member that raised, unless it was cancelled itself, shuts the group down.
AbortedByExecution == aborted \/ (mover = "raised" /\ outcome # "cancelled")

\* execution(): the controller is over; finally: the sentinel.
ExecutionEnds ==
    /\ execution = "running"
    /\ mover \in Over
    /\ execution' = "done"
    /\ states' = SentinelQueued
    /\ aborted' = AbortedByExecution
    /\ UNCHANGED <<moverVars, watchVars, errors, collector, caller, wireVars, robot, faults>>

\* The caller's next state; the sentinel takes it out of the loop.
CallerGets ==
    /\ caller = "getting"
    /\ states # <<>>
    /\ states' = Tail(states)
    /\ caller' = IF Head(states) = "sentinel" THEN "exiting" ELSE "holding"
    /\ UNCHANGED <<moverVars, watchVars, errors, execution, collector, aborted, wireVars,
                   robot, faults>>

\* The caller is done with the state yielded to it.
CallerResumes ==
    /\ caller = "holding"
    /\ caller' = "getting"
    /\ UNCHANGED <<moverVars, watchVars, errors, execution, collector, aborted, states,
                   wireVars, robot, faults>>

\* The group, shutting down, cancels the caller where it waits: for a state,
\* or in its own code between two.
CallerInterrupted ==
    /\ aborted
    /\ caller = "holding" \/ (caller = "getting" /\ states = <<>>)
    /\ caller' = "exiting"
    /\ UNCHANGED <<moverVars, watchVars, errors, execution, collector, aborted, states,
                   wireVars, robot, faults>>

\* The caller closes the iteration or is cancelled.
CallerLeaves ==
    /\ caller \in {"getting", "holding"}
    /\ May("caller_leaves")
    /\ caller' = "exiting"
    /\ aborted' = TRUE
    /\ UNCHANGED <<moverVars, watchVars, errors, execution, collector, states, wireVars,
                   robot>>

\* The group has both of its tasks.
CallerEnds ==
    /\ caller = "exiting"
    /\ execution = "done" /\ collector = "done"
    /\ caller' = IF aborted THEN "raised" ELSE "returned"
    /\ UNCHANGED <<moverVars, watchVars, errors, execution, collector, aborted, states,
                   wireVars, robot, faults>>

Collector == CollectorStep \/ CollectorCancelled
Caller == CallerGets \/ CallerResumes \/ CallerInterrupted \/ CallerEnds

-------------------------------------------------------------------------------
(* The motion server and the robot (external). *)

\* One request is answered; an accepted start lets the robot begin.
ServerStep ==
    /\ requests # <<>>
    /\ requests' = Tail(requests)
    /\ \/ /\ responses' =
               Append(responses, IF Head(requests) = "init" THEN "init_ok" ELSE "start_ok")
          /\ robot' = IF Head(requests) = "init" THEN robot
                      ELSE [details |-> "WaitForIO", standstill |-> TRUE]
          /\ UNCHANGED faults
       \/ /\ IF Head(requests) = "init" THEN May("init_rejected") ELSE May("start_rejected")
          /\ responses' =
               Append(responses, IF Head(requests) = "init" THEN "init_rejected" ELSE "error")
          /\ UNCHANGED robot
    /\ UNCHANGED <<moverVars, watchVars, errors, groupVars>>

RobotMoves ==
    /\ robot.details = "WaitForIO"
    /\ robot' = [details |-> "Running", standstill |-> FALSE]
    /\ UNCHANGED <<moverVars, watchVars, errors, groupVars, wireVars, faults>>

\* The end of the trajectory, or the input that pauses it.
RobotEnds ==
    /\ robot.details = "Running"
    /\ \E details \in EndReports : robot' = [robot EXCEPT !.details = details]
    /\ UNCHANGED <<moverVars, watchVars, errors, groupVars, wireVars, faults>>

RobotPausedByUser ==
    /\ robot.details = "Running"
    /\ May("paused_by_user")
    /\ robot' = [robot EXCEPT !.details = "PausedByUser"]
    /\ UNCHANGED <<moverVars, watchVars, errors, groupVars, wireVars>>

RobotSettles ==
    /\ robot.details \in EndReports \cup {"PausedByUser"}
    /\ ~robot.standstill
    /\ robot' = [robot EXCEPT !.standstill = TRUE]
    /\ UNCHANGED <<moverVars, watchVars, errors, groupVars, wireVars, faults>>

\* A movement error, or the end of the connection, once the start is answered.
ServerBreaks ==
    /\ mover \in {"sent", "waiting"}
    /\ \/ May("movement_error") /\ responses' = Append(responses, "error")
       \/ May("connection_closed") /\ responses' = Append(responses, "closed")
    /\ UNCHANGED <<moverVars, watchVars, errors, groupVars, requests, robot>>

\* The watch's stream stays silent from its start.
WatchFallsSilent ==
    /\ mover = "starting" /\ ~seen
    /\ May("silent_watch")
    /\ UNCHANGED <<moverVars, watchVars, errors, groupVars, wireVars, robot>>

Robot == RobotMoves \/ RobotEnds \/ RobotSettles

Fault ==
    \/ WatchBreaks \/ CollectorBreaks \/ CallerLeaves \/ RobotPausedByUser
    \/ ServerBreaks \/ WatchFallsSilent

Next ==
    \/ Mover \/ Watch \/ Errors \/ Collector \/ ExecutionEnds \/ Caller
    \/ ServerStep \/ Robot \/ Fault

Spec == Init /\ [][Next]_vars

(***************************************************************************)
(* The event loop runs every task that can proceed, the streams deliver,   *)
(* the caller keeps iterating, the server answers and the robot arrives.   *)
(***************************************************************************)
Fairness ==
    /\ WF_vars(Mover) /\ WF_vars(Watch) /\ WF_vars(Errors) /\ WF_vars(Collector)
    /\ WF_vars(ExecutionEnds) /\ WF_vars(Caller) /\ WF_vars(ServerStep)
    /\ WF_vars(RobotMoves) /\ WF_vars(RobotEnds) /\ WF_vars(RobotSettles)

FairSpec == Spec /\ Fairness

(***************************************************************************)
(* What the end of the mover's wait rests on, each with the guard under    *)
(* which the event loop, the streams and the robot owe the step: nothing   *)
(* else holds a task back once its wait is over (move_forward.py:96-170).  *)
(***************************************************************************)
MoverIsReady ==
    \/ mover = "waiting" /\ (watch = "done" \/ errors = "done")
    \/ mover = "cleaning" /\ watch = "done" /\ errors = "done"

EndIsReported ==
    /\ watch = "running" /\ seen /\ machine \in {"executing", "ending"}
    /\ robot.details \in EndReports /\ robot.standstill

NothingElseHolds ==
    /\ MoverIsReady => ENABLED <<Mover>>_vars
    /\ EndIsReported \/ watch = "cancelling" => ENABLED <<Watch>>_vars
    /\ (errors = "running" /\ responses # <<>>) \/ errors = "cancelling" =>
          ENABLED <<Errors>>_vars
    /\ robot.details \in EndReports /\ ~robot.standstill => ENABLED <<RobotSettles>>_vars

-------------------------------------------------------------------------------
(***************************************************************************)
(* The iteration ends without an exception only if the controller          *)
(* completed: no failure of the controller, of the server or of a stream   *)
(* of the group is swallowed on its way (motion_group.py:1014-1036).       *)
(***************************************************************************)
NormalEndMeansCompleted == caller = "returned" => outcome = "completed"

(***************************************************************************)
(* While the watch's stream holds, a completed execution left the robot at *)
(* standstill on a reported end, whatever stopped the group meanwhile      *)
(* (move_forward.py:44-50, trajectory_state_machine.py:306-338).           *)
(***************************************************************************)
CompletedAtTheEnd ==
    outcome = "completed" /\ ~watchLost => robot.details \in EndReports /\ robot.standstill

(***************************************************************************)
(* Nothing of an execution outlives its iteration: the group's tasks are   *)
(* done, and the mover's own too, unless it raised before it waited for    *)
(* them (move_forward.py:160-170, motion_group.py:1024-1036).              *)
(***************************************************************************)
NothingOutlives ==
    /\ caller \in Over => mover \in Over /\ execution = "done" /\ collector = "done"
    /\ mover \in Over /\ outcome \in {"completed", "movement_error"} =>
          watch = "done" /\ errors = "done"
    /\ mover \in Over => errors # "running"

(***************************************************************************)
(* "Before sending start movement start state monitoring to not loose any  *)
(* data": the robot never moves for this execution unless the watch is     *)
(* receiving, and the watch goes on until the robot stands still           *)
(* (move_forward.py:88-104).                                               *)
(***************************************************************************)
MovementIsWatched ==
    mover \in {"sent", "waiting"} /\ ~robot.standstill /\ ~watchLost =>
        seen /\ watch = "running"

(***************************************************************************)
(* The robot's arrival, an error response or the end of a stream ends the  *)
(* wait of the mover (move_forward.py:143-154).                            *)
(***************************************************************************)
WaitEnds ==
    (mover = "waiting" /\ (\/ responses # <<>> \/ watchLost
                           \/ robot.details \in EndReports))
        ~> (mover \in Over)

(***************************************************************************)
(* The controller's end, however it ended, ends the caller's iteration     *)
(* (the sentinel in execution()'s finally, motion_group.py:1021-1036).     *)
(***************************************************************************)
CallerReleased == (mover \in Over) ~> (caller \in Over)

(***************************************************************************)
(* "trajectory completion is only detected when both TrajectoryEnded (or   *)
(* TrajectoryPausedByUser) AND standstill are True"                        *)
(* (tests/cell/test_process_motion_group_state.py:3-4).                    *)
(***************************************************************************)
CompletedOnlyWhenStopped ==
    outcome = "completed" =>
        robot.standstill /\ robot.details \in EndReports \cup {"PausedByUser"}
===============================================================================

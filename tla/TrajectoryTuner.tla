---------------------------- MODULE TrajectoryTuner ----------------------------
(***************************************************************************)
(* Tuning a trajectory (nova/cell/tuner.py): plan the actions, create a    *)
(* cursor where the last one stopped, wait for a command, execute the      *)
(* trajectory under the cursor's control until the cursor is finished, and *)
(* begin again, until the command "finish".  Commands arrive over NATS at  *)
(* any time and go to the cursor there is at that moment.                  *)
(*                                                                         *)
(* Of a cursor (module TrajectoryCursor has it in detail) this is what the *)
(* tuner can tell: its intent, whether an operation is in progress, its    *)
(* location, and the end of its states.  The response stream carries       *)
(* nothing but the answer to the initialization and an error.              *)
(***************************************************************************)
EXTENDS TrajectoryLocations, Sequences

CONSTANTS
    End,             \* end of the trajectory, in halves of an action
    MaxCommands,     \* bound: commands received
    Faults           \* subset of TunerFaults: what may go wrong, each once

TunerFaults == {"plan_error", "init_error", "movement_error", "cancelled"}

ASSUME EndAssumption == End \in Nat \ {0} /\ End % Unit = 0
ASSUME MaxCommandsAssumption == MaxCommands \in Nat
ASSUME FaultsAssumption == Faults \subseteq TunerFaults

VARIABLES
    pc,             \* where tune() waits, "over" at its end
    startLocation,  \* current_location of tune()
    finished,       \* finished_tuning
    continue,       \* continue_tuning_event
    cursor,         \* current_cursor
    execution,      \* the execution task of the current cursor
    requests,       \* commands on the wire: the location to go to, or Pause
    robot,          \* what the robot does (external)
    numCommands,    \* history: commands received
    overtaken,      \* history: the last cursor ended with a command on the wire
    faults          \* the faults that may still happen

loopVars == <<pc, startLocation, finished, continue>>
serverVars == <<requests, robot>>
historyVars == <<numCommands, overtaken, faults>>
vars == <<loopVars, cursor, execution, serverVars, historyVars>>

Pause == -1
NoIntent == -2

\* No cursor yet.
NoCursor == [exists |-> FALSE, detached |-> FALSE, sentinel |-> FALSE,
             inProgress |-> FALSE, intent |-> NoIntent, location |-> 0]

Init ==
    /\ pc = "planning" /\ startLocation = 0 /\ finished = FALSE /\ continue = FALSE
    /\ cursor = NoCursor
    /\ execution = "none"
    /\ requests = <<>>
    /\ robot = [mode |-> "idle", place |-> 0, target |-> 0]
    /\ numCommands = 0 /\ overtaken = FALSE /\ faults = Faults

Fails(fault) == fault \in faults /\ faults' = faults \ {fault}

-------------------------------------------------------------------------------
(* The commands (controller_handler).  The subscription is removed when    *)
(* tune() is over; before the first cursor a command is ignored.           *)

Receive ==
    /\ pc # "over" /\ cursor.exists
    /\ numCommands < MaxCommands
    /\ numCommands' = numCommands + 1
    /\ UNCHANGED <<pc, startLocation, execution, serverVars, overtaken, faults>>

\* A new operation, unless the cursor is detached: then its future fails, and nobody
\* looks at it.
Operated(intent) ==
    IF cursor.detached THEN cursor
    ELSE [cursor EXCEPT !.intent = intent, !.inProgress = TRUE]

\* forward and backward, and the steps, which move nowhere at the ends.
MoveTo(target) ==
    /\ Receive
    /\ continue' = TRUE
    /\ cursor' = IF target \in 0..End THEN Operated(target) ELSE cursor
    /\ UNCHANGED finished

CommandForward == MoveTo(End)
CommandBackward == MoveTo(0)
CommandStepForward == MoveTo(ForwardStepTarget(cursor.location))
CommandStepBackward == MoveTo(BackwardStepTarget(cursor.location))

CommandPause ==
    /\ Receive
    /\ cursor' = IF cursor.inProgress THEN Operated(Pause) ELSE cursor
    /\ UNCHANGED <<finished, continue>>

\* Variant: "finish" does not wake the tuning loop.
FinishWithoutWaking ==
    /\ Receive
    /\ cursor' = [cursor EXCEPT !.detached = TRUE, !.inProgress = FALSE]
    /\ finished' = TRUE
    /\ UNCHANGED continue

CommandFinish ==
    /\ Receive
    /\ continue' = TRUE
    /\ cursor' = [cursor EXCEPT !.detached = TRUE, !.inProgress = FALSE]
    /\ finished' = TRUE

Command ==
    \/ CommandForward \/ CommandBackward \/ CommandStepForward \/ CommandStepBackward
    \/ CommandPause \/ CommandFinish

-------------------------------------------------------------------------------
(* tune() *)

\* plan_fn returns: the next cursor replaces the one there was.
PlanReady ==
    /\ pc = "planning"
    /\ pc' = "publishing"
    /\ cursor' = [NoCursor EXCEPT !.exists = TRUE, !.location = startLocation]
    /\ execution' = "none"
    /\ UNCHANGED <<startLocation, finished, continue, serverVars, historyVars>>

PlanFails ==
    /\ pc = "planning"
    /\ Fails("plan_error")
    /\ pc' = "over"
    /\ UNCHANGED <<startLocation, finished, continue, cursor, execution, serverVars,
                   numCommands, overtaken>>

\* Variant: the event is cleared just before the loop waits for it.
PublishedAndCleared ==
    /\ pc = "publishing"
    /\ pc' = "waiting"
    /\ continue' = FALSE
    /\ UNCHANGED <<startLocation, finished, cursor, execution, serverVars, historyVars>>

\* The movement options are published.
Published ==
    /\ pc = "publishing"
    /\ pc' = "waiting"
    /\ UNCHANGED <<startLocation, finished, continue, cursor, execution, serverVars,
                   historyVars>>

Continue ==
    /\ pc = "waiting" /\ continue
    /\ pc' = "iterating"
    /\ execution' = "initializing"
    /\ UNCHANGED <<startLocation, finished, continue, cursor, serverVars, historyVars>>

\* The iteration over the cursor reaches the sentinel.
StatesEnd ==
    /\ pc = "iterating" /\ cursor.sentinel
    /\ pc' = "awaiting"
    /\ cursor' = [cursor EXCEPT !.detached = TRUE, !.inProgress = FALSE]
    /\ UNCHANGED <<startLocation, finished, continue, execution, serverVars, historyVars>>

\* Variant: the next cursor starts where the last one started.
NextTurnFromOldStart ==
    /\ pc = "awaiting" /\ execution = "ended"
    /\ continue' = FALSE
    /\ pc' = IF finished THEN "over" ELSE "planning"
    /\ UNCHANGED <<startLocation, finished, cursor, execution, serverVars, historyVars>>

\* The execution task has ended.
NextTurn ==
    /\ pc = "awaiting" /\ execution = "ended"
    /\ continue' = FALSE
    /\ startLocation' = cursor.location
    /\ pc' = IF finished THEN "over" ELSE "planning"
    /\ UNCHANGED <<finished, cursor, execution, serverVars, historyVars>>

\* The execution task has failed: its exception leaves tune().
ExecutionRaises ==
    /\ pc = "awaiting" /\ execution = "failed"
    /\ pc' = "over"
    /\ UNCHANGED <<startLocation, finished, continue, cursor, execution, serverVars,
                   historyVars>>

\* A cancellation ends tune() silently.  It reaches the execution task only while
\* tune() awaits that task.
Cancelled ==
    /\ pc # "over"
    /\ Fails("cancelled")
    /\ pc' = "over"
    /\ execution' = IF pc = "awaiting" /\ execution \in {"initializing", "running"}
                    THEN "failed" ELSE execution
    /\ UNCHANGED <<startLocation, finished, continue, cursor, serverVars, numCommands,
                   overtaken>>

Tune ==
    \/ PlanReady \/ Published \/ Continue \/ StatesEnd \/ NextTurn \/ ExecutionRaises

-------------------------------------------------------------------------------
(* The execution task: cntrl() of the cursor, and its monitor. *)

\* The server accepts the trajectory, at standstill.
Initialized ==
    /\ execution = "initializing"
    /\ requests = <<>> /\ robot.mode # "moving"
    /\ execution' = "running"
    /\ robot' = [robot EXCEPT !.mode = "idle"]
    /\ UNCHANGED <<loopVars, cursor, requests, historyVars>>

\* The initialization is refused: there is no monitor yet that would end the states.
InitializationFails ==
    /\ execution = "initializing"
    /\ Fails("init_error")
    /\ execution' = "failed"
    /\ UNCHANGED <<loopVars, cursor, serverVars, numCommands, overtaken>>

SendIntent ==
    /\ execution = "running"
    /\ ~cursor.detached /\ cursor.intent # NoIntent
    /\ requests' = Append(requests, cursor.intent)
    /\ cursor' = [cursor EXCEPT !.intent = NoIntent]
    /\ UNCHANGED <<loopVars, execution, robot, historyVars>>

\* A state of the robot reaches the monitor; at the end of a movement the cursor
\* detaches itself (detach_on_standstill).
MonitorReport ==
    /\ execution = "running"
    /\ cursor.inProgress
    /\ robot.mode # "idle"
    /\ LET ended == robot.mode = "ended"
       IN  /\ cursor' = [cursor EXCEPT !.location = robot.place,
                                       !.inProgress = robot.mode = "moving",
                                       !.detached = @ \/ ended,
                                       !.sentinel = @ \/ ended]
           /\ overtaken' = IF ended THEN requests # <<>> ELSE overtaken
    /\ UNCHANGED <<loopVars, execution, serverVars, numCommands, faults>>

\* cntrl() sees that the cursor is detached; its monitor leaves the sentinel.
ExecutionEnds ==
    /\ execution = "running" /\ cursor.detached
    /\ execution' = "ended"
    /\ cursor' = [cursor EXCEPT !.sentinel = TRUE]
    /\ UNCHANGED <<loopVars, serverVars, historyVars>>

\* An error of the movement; without an operation in progress it is not looked at.
MovementFails ==
    /\ execution = "running" /\ cursor.inProgress
    /\ Fails("movement_error")
    /\ execution' = "failed"
    /\ cursor' = [cursor EXCEPT !.detached = TRUE, !.inProgress = FALSE, !.sentinel = TRUE]
    /\ UNCHANGED <<loopVars, serverVars, numCommands, overtaken>>

Execution == Initialized \/ SendIntent \/ MonitorReport \/ ExecutionEnds

-------------------------------------------------------------------------------
(* The server and the robot (external). *)

ServerStep ==
    /\ requests # <<>>
    /\ requests' = Tail(requests)
    /\ robot' = IF Head(requests) # Pause
                THEN [robot EXCEPT !.mode = "moving", !.target = Head(requests)]
                ELSE IF robot.mode = "moving" THEN [robot EXCEPT !.mode = "paused"] ELSE robot
    /\ UNCHANGED <<loopVars, cursor, execution, historyVars>>

RobotMove ==
    /\ robot.mode = "moving"
    /\ robot' = IF robot.place < robot.target THEN [robot EXCEPT !.place = @ + 1]
                ELSE IF robot.place > robot.target THEN [robot EXCEPT !.place = @ - 1]
                ELSE [robot EXCEPT !.mode = "ended"]
    /\ UNCHANGED <<loopVars, cursor, execution, requests, historyVars>>

Next ==
    \/ Command \/ Tune \/ Execution \/ ServerStep \/ RobotMove
    \/ PlanFails \/ InitializationFails \/ MovementFails \/ Cancelled

Spec == Init /\ [][Next]_vars

(***************************************************************************)
(* Planning, publishing and the server answer, the event loop runs its     *)
(* tasks, the caller keeps iterating and the robot arrives.  The user owes *)
(* no command, and no fault has to happen.                                 *)
(***************************************************************************)
FairSpec ==
    /\ Spec
    /\ WF_vars(Tune) /\ WF_vars(ServerStep) /\ WF_vars(RobotMove)
    /\ WF_vars(Initialized) /\ WF_vars(SendIntent) /\ WF_vars(MonitorReport)
    /\ WF_vars(ExecutionEnds)

-------------------------------------------------------------------------------
(***************************************************************************)
(* A command given to the cursor there is wakes the tuning loop: it never  *)
(* waits for a command while one is in the cursor's slot, wherever in the  *)
(* loop the command came in (the event is cleared in tuner.py:180, a new   *)
(* cursor is there from tuner.py:153 on).                                  *)
(***************************************************************************)
WaitsOnlyWithoutCommand ==
    pc = "waiting" /\ ~continue => cursor.intent = NoIntent /\ ~cursor.detached

(***************************************************************************)
(* The cursor of every turn starts where the robot is (tuner.py:181-183,   *)
(* initial_location), so that the server accepts its initialization.       *)
(* Exception: a command still on the wire when a cursor ended moves the    *)
(* robot afterwards.                                                       *)
(***************************************************************************)
ResumesWhereItStopped ==
    pc \in {"publishing", "waiting"} /\ ~overtaken => cursor.location = robot.place

(***************************************************************************)
(* Tuning runs "until a finish command is received" (tuner.py:32-34): once *)
(* one has reached the cursor there is, tuning ends, and no execution      *)
(* outlives it.  Exceptions: the command went to the cursor of the turn    *)
(* before, while the next was planned; the initialization of the execution *)
(* failed, which leaves the iteration without a sentinel; tune() itself    *)
(* was cancelled, which leaves the execution behind.                       *)
(***************************************************************************)
FinishEndsTuning ==
    finished /\ cursor.detached /\ pc # "planning"
      ~> \/ /\ pc = "over"
            /\ \/ execution \notin {"initializing", "running"}
               \/ "cancelled" \in Faults \ faults
         \/ execution = "failed" /\ ~cursor.sentinel

(***************************************************************************)
(* The cursors of the tuner, one after the other, are what TrajectoryCursor*)
(* implements: the tuner takes nothing of a cursor for granted that the    *)
(* cursor does not promise to its owner.                                   *)
(***************************************************************************)
ExecutionOfStates ==
    IF execution = "ended" \/ cursor.sentinel THEN "over" ELSE execution

Owned == INSTANCE DetachableCursor WITH
    execution <- ExecutionOfStates,
    detached <- cursor.detached,
    sentinel <- cursor.sentinel,
    inProgress <- cursor.inProgress,
    slotFull <- cursor.intent # NoIntent,
    location <- cursor.location

OwnerCanRely == Owned!CursorSpec
===============================================================================

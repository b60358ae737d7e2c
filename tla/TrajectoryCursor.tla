---------------------------- MODULE TrajectoryCursor ----------------------------
(***************************************************************************)
(* A TrajectoryCursor and the motion server it drives                      *)
(* (nova/cell/movement_controller/trajectory_cursor.py).                   *)
(*                                                                         *)
(* Everything of the cursor runs on one event loop, so an action is what   *)
(* runs between two awaits of one task: a call of the user (forward,       *)
(* pause, detach, ...), a step of the request generator cntrl() with its   *)
(* _request_loop, the monitor handling one motion-group state, or the      *)
(* response consumer handling one response.  The server is external: it    *)
(* answers requests in order, moves the robot, and may fail in the ways    *)
(* listed in Faults.  The monitor's stream samples the server's current    *)
(* state; a state that reaches it late is a state sampled before the       *)
(* server handled the requests on their way.                               *)
(***************************************************************************)
EXTENDS TrajectoryExecutionMachine, TrajectoryLocations, Sequences

CONSTANTS
    MaxOps,              \* bound: operations the user starts
    EndLocation,         \* end of the trajectory, in halves of an action
    InitialLocation,     \* the cursor's initial_location
    SpeedOptions,        \* subset of BOOLEAN: forward() may set a playback speed
    DetachOnStandstill,  \* the cursor's detach_on_standstill
    Faults               \* subset of AllFaults: what may go wrong, each once

AllFaults == {"init_rejected", "movement_error", "stream_ends", "stream_raises",
              "silent_stream", "outer_cancel"}

ASSUME MaxOpsAssumption == MaxOps \in Nat
ASSUME EndLocationAssumption == EndLocation \in Nat
ASSUME InitialLocationAssumption == InitialLocation \in 0..EndLocation
ASSUME SpeedOptionsAssumption == SpeedOptions \subseteq BOOLEAN
ASSUME DetachOnStandstillAssumption == DetachOnStandstill \in BOOLEAN
ASSUME FaultsAssumption == Faults \subseteq AllFaults

Ops == 1..MaxOps
Locations == 0..EndLocation

None == 0          \* no current operation
NoTarget == -1     \* move to the end of the trajectory, or to its start

VARIABLES
    \* OperationHandler
    started,          \* number of operations started so far
    fut,              \* the future of each operation
    operation,        \* the handler's current operation, or None
    opType, opState,  \* its operation_type and operation_state
    \* intent slot and events
    intent, intentEvent, stopEvent,
    \* tasks
    cntrl,            \* where cntrl() stands
    commands,         \* commands of the taken intent not yet yielded
    monitor,          \* the monitor task
    consumer,         \* the response consumer task
    streamReady,      \* the monitor's ready_event
    \* the monitor's state
    machine, currentLocation,
    sentinel,         \* _QUEUE_SENTINEL has been put in _in_queue
    \* the wire and the server
    requests, responses,
    robot,            \* what the server reports, and where the robot is to go
    order,            \* target of a start the server has accepted, or NoTarget
    faults,           \* the faults that may still happen
    delivered         \* history: operations whose movement command was yielded

handlerVars == <<started, fut, operation, opType, opState>>
intentVars == <<intent, intentEvent>>
childVars == <<monitor, consumer, streamReady>>
taskVars == <<cntrl, commands, childVars>>
monitorVars == <<machine, currentLocation, sentinel>>
serverVars == <<robot, order>>
wireVars == <<requests, responses>>
vars == <<handlerVars, intentVars, stopEvent, taskVars, monitorVars, wireVars,
          serverVars, faults, delivered>>

OperationTypes == {"forward", "backward", "pause"}
OperationStates == {"INITIAL", "COMMANDED", "RUNNING"}
FutureStates == {"unused", "pending", "result", "cancelled"}
Targets == Locations \cup {NoTarget}

Intents == [op : Ops, type : OperationTypes, target : Targets, speed : BOOLEAN]

NoIntent == [op |-> None, type |-> "pause", target |-> NoTarget, speed |-> FALSE]

\* "op" only identifies a command here; it is not on the wire.
Commands == [op : Ops, kind : {"speed", "start", "pause"},
             type : OperationTypes, target : Targets]

InitCommand == [op |-> None, kind |-> "init", type |-> "pause", target |-> NoTarget]

ResponseKinds == {"init_ok", "init_rejected", "speed", "start", "pause", "error"}

CntrlStates == {"created", "initializing", "starting", "waiting", "yielded",
                "closing", "raising", "ended", "failed"}
InGroup == {"starting", "waiting", "yielded", "closing", "raising"}
Finished == {"ended", "failed"}

TaskStates == {"none", "running", "done"}

Robots == [details : Details, standstill : BOOLEAN, position : Locations, goal : Locations]

TypeOK ==
    /\ started \in 0..MaxOps
    /\ fut \in [Ops -> FutureStates]
    /\ operation \in 0..started
    /\ opType \in OperationTypes
    /\ opState \in OperationStates
    /\ intent \in Intents \cup {NoIntent}
    /\ intentEvent \in BOOLEAN
    /\ stopEvent \in BOOLEAN
    /\ cntrl \in CntrlStates
    /\ commands \in Seq(Commands)
    /\ monitor \in TaskStates
    /\ consumer \in TaskStates
    /\ streamReady \in BOOLEAN
    /\ machine \in MachineStates \ {"error"}
    /\ currentLocation \in Locations
    /\ sentinel \in BOOLEAN
    /\ requests \in Seq(Commands \cup {InitCommand})
    /\ responses \in Seq(ResponseKinds)
    /\ robot \in Robots
    /\ order \in Targets
    /\ faults \subseteq Faults
    /\ delivered \subseteq Ops

Init ==
    /\ started = 0
    /\ fut = [i \in Ops |-> "unused"]
    /\ operation = None
    /\ opType = "pause"
    /\ opState = "INITIAL"
    /\ intent = NoIntent
    /\ intentEvent = FALSE
    /\ stopEvent = FALSE
    /\ cntrl = "created"
    /\ commands = <<>>
    /\ monitor = "none"
    /\ consumer = "none"
    /\ streamReady = FALSE
    /\ machine = "idle"
    /\ currentLocation = InitialLocation
    /\ sentinel = FALSE
    /\ requests = <<>>
    /\ responses = <<>>
    /\ robot = [details |-> "none", standstill |-> TRUE,
                position |-> currentLocation, goal |-> currentLocation]
    /\ order = NoTarget
    /\ faults = Faults
    /\ delivered = {}

-------------------------------------------------------------------------------
(* The operation handler and the intent slot. *)

InProgress == operation # None /\ fut[operation] = "pending"

\* Variant: start() forgets to cancel the pending future.
StartOperationKeepingOld(type) ==
    /\ started < MaxOps
    /\ started' = started + 1
    /\ fut' = [fut EXCEPT ![started + 1] = "pending"]
    /\ operation' = started + 1
    /\ opType' = type
    /\ opState' = "INITIAL"

\* OperationHandler.start, called by _start_operation
StartOperation(type) ==
    /\ started < MaxOps
    /\ started' = started + 1
    /\ fut' = [i \in Ops |-> IF i = started + 1 THEN "pending"
                             ELSE IF InProgress /\ i = operation THEN "cancelled"
                             ELSE fut[i]]
    /\ operation' = started + 1
    /\ opType' = type
    /\ opState' = "INITIAL"

\* _set_intent, for the operation that has just been started
SetIntent(type, target, speed) ==
    /\ intent' = [op |-> started + 1, type |-> type, target |-> target, speed |-> speed]
    /\ intentEvent' = TRUE

\* Variant: detach() does not wake the request loop.
DetachWithoutWaking(futures) ==
    /\ fut' = IF operation # None /\ futures[operation] = "pending"
              THEN [futures EXCEPT ![operation] = "cancelled"] ELSE futures
    /\ stopEvent' = TRUE
    /\ UNCHANGED intentEvent

\* detach(), called with the given futures
DetachFrom(futures) ==
    /\ fut' = IF operation # None /\ futures[operation] = "pending"
              THEN [futures EXCEPT ![operation] = "cancelled"] ELSE futures
    /\ stopEvent' = TRUE
    /\ intentEvent' = TRUE

\* The command Intent.to_commands puts last.
MovementCommand(i) ==
    [op |-> i.op, type |-> i.type, target |-> i.target,
     kind |-> IF i.type = "pause" THEN "pause" ELSE "start"]

\* Intent.to_commands
ToCommands(i) ==
    IF i.speed THEN <<[MovementCommand(i) EXCEPT !.kind = "speed"], MovementCommand(i)>>
               ELSE <<MovementCommand(i)>>

-------------------------------------------------------------------------------
(* The user's calls.  A call that returns a failed future, an immediate     *)
(* result or None changes nothing and is no step.                           *)

Move(type, target, speed) ==
    /\ ~stopEvent
    /\ StartOperation(type)
    /\ SetIntent(type, target, speed)
    /\ UNCHANGED <<stopEvent, taskVars, monitorVars, wireVars, serverVars, faults,
                   delivered>>

Forward(speed) == Move("forward", NoTarget, speed)

Backward(speed) == Move("backward", NoTarget, speed)

ForwardTo(target, speed) ==
    target >= currentLocation /\ Move("forward", target, speed)

BackwardTo(target, speed) ==
    target <= currentLocation /\ Move("backward", target, speed)

\* Variant: forward_to_next_action does not look at the end of the trajectory.
ForwardStepPastTheEnd(speed) == ForwardTo(ForwardStepTarget(currentLocation), speed)

ForwardToNextAction(speed) ==
    /\ ForwardStepTarget(currentLocation) <= EndLocation
    /\ ForwardTo(ForwardStepTarget(currentLocation), speed)

BackwardToPreviousAction(speed) ==
    /\ BackwardStepTarget(currentLocation) >= 0
    /\ BackwardTo(BackwardStepTarget(currentLocation), speed)

Pause ==
    /\ InProgress
    /\ StartOperation("pause")
    /\ SetIntent("pause", NoTarget, FALSE)
    /\ UNCHANGED <<stopEvent, taskVars, monitorVars, wireVars, serverVars, faults,
                   delivered>>

Detach ==
    /\ DetachFrom(fut)
    /\ UNCHANGED <<started, operation, opType, opState, intent, taskVars, monitorVars,
                   wireVars, serverVars, faults, delivered>>

\* A task awaiting the future is cancelled, which cancels the future.
CancelAwaiter(i) ==
    /\ fut[i] = "pending"
    /\ fut' = [fut EXCEPT ![i] = "cancelled"]
    /\ UNCHANGED <<started, operation, opType, opState, intentVars, stopEvent, taskVars,
                   monitorVars, wireVars, serverVars, faults, delivered>>

User ==
    \/ \E speed \in SpeedOptions :
         \/ Forward(speed)
         \/ Backward(speed)
         \/ \E target \in Locations : ForwardTo(target, speed) \/ BackwardTo(target, speed)
         \/ ForwardToNextAction(speed)
         \/ BackwardToPreviousAction(speed)
    \/ Pause
    \/ Detach
    \/ \E i \in Ops : CancelAwaiter(i)

-------------------------------------------------------------------------------
(* cntrl(), its task group and the request loop. *)

\* The group has not been told to shut down.
Active == cntrl \in {"starting", "waiting", "yielded"}

\* cntrl() hands a command to the sender that iterates over it.
Yield(command) ==
    /\ requests' = Append(requests, command)
    /\ delivered' = IF command.kind = "speed" THEN delivered
                                              ELSE delivered \cup {command.op}

\* Up to the InitializeMovementRequest of init_movement_gen
CntrlInitialize ==
    /\ cntrl = "created"
    /\ cntrl' = "initializing"
    /\ requests' = Append(requests, InitCommand)
    /\ UNCHANGED <<handlerVars, intentVars, stopEvent, commands, childVars, monitorVars,
                   responses, serverVars, faults, delivered>>

\* The response to it: the task group is started, or InitMovementFailed raised.
\* The event loop runs the children's first steps, which only enter their loops,
\* before anything that could cancel them.
CntrlInitialized ==
    /\ cntrl = "initializing"
    /\ responses # <<>>
    /\ responses' = Tail(responses)
    /\ IF Head(responses) = "init_ok"
       THEN cntrl' = "starting" /\ monitor' = "running" /\ consumer' = "running"
       ELSE cntrl' = "failed" /\ UNCHANGED <<monitor, consumer>>
    /\ UNCHANGED <<handlerVars, intentVars, stopEvent, commands, streamReady,
                   monitorVars, requests, serverVars, faults, delivered>>

CntrlReady ==
    /\ cntrl = "starting"
    /\ streamReady
    /\ cntrl' = "waiting"
    /\ UNCHANGED <<handlerVars, intentVars, stopEvent, commands, childVars, monitorVars,
                   wireVars, serverVars, faults, delivered>>

StreamIsSilent == "silent_stream" \in Faults \ faults

\* No motion-group state within _STREAM_STARTUP_TIMEOUT
CntrlStartupTimeout ==
    /\ cntrl = "starting"
    /\ ~streamReady
    /\ StreamIsSilent \/ monitor = "done"
    /\ cntrl' = "raising"
    /\ UNCHANGED <<handlerVars, intentVars, stopEvent, commands, childVars, monitorVars,
                   wireVars, serverVars, faults, delivered>>

\* Variant: the loop takes the intent without looking at the stop event.
TakeIntentThoughStopped ==
    /\ cntrl = "waiting"
    /\ intentEvent /\ intent # NoIntent
    /\ intentEvent' = FALSE
    /\ intent' = NoIntent
    /\ cntrl' = "yielded"
    /\ commands' = Tail(ToCommands(intent))
    /\ Yield(Head(ToCommands(intent)))
    /\ UNCHANGED <<handlerVars, stopEvent, childVars, monitorVars, responses, serverVars,
                   faults>>

\* _request_loop wakes up and takes the intent.
TakeIntent ==
    /\ cntrl = "waiting"
    /\ intentEvent /\ ~stopEvent
    /\ intentEvent' = FALSE
    /\ intent' = NoIntent
    /\ IF intent = NoIntent
       THEN UNCHANGED <<cntrl, commands, requests, delivered>>
       ELSE /\ cntrl' = "yielded"
            /\ commands' = Tail(ToCommands(intent))
            /\ Yield(Head(ToCommands(intent)))
    /\ UNCHANGED <<handlerVars, stopEvent, childVars, monitorVars, responses, serverVars,
                   faults>>

\* The sender asks for the next command of the intent.
YieldNext ==
    /\ cntrl = "yielded"
    /\ commands # <<>>
    /\ commands' = Tail(commands)
    /\ Yield(Head(commands))
    /\ UNCHANGED <<handlerVars, intentVars, stopEvent, cntrl, childVars, monitorVars,
                   responses, serverVars, faults>>

\* Variant: the event is cleared only after the commands have been yielded.
ClearEventLate ==
    /\ cntrl = "yielded"
    /\ commands = <<>>
    /\ cntrl' = "waiting"
    /\ intentEvent' = FALSE
    /\ UNCHANGED <<handlerVars, intent, stopEvent, commands, childVars, monitorVars,
                   wireVars, serverVars, faults, delivered>>

\* Variant: the slot is emptied only after the commands have been yielded.
EmptySlotLate ==
    /\ cntrl = "yielded"
    /\ commands = <<>>
    /\ cntrl' = "waiting"
    /\ intent' = NoIntent
    /\ UNCHANGED <<handlerVars, intentEvent, stopEvent, commands, childVars, monitorVars,
                   wireVars, serverVars, faults, delivered>>

\* All commands yielded: back to waiting for the intent event.
IntentDone ==
    /\ cntrl = "yielded"
    /\ commands = <<>>
    /\ cntrl' = "waiting"
    /\ UNCHANGED <<handlerVars, intentVars, stopEvent, commands, childVars, monitorVars,
                   wireVars, serverVars, faults, delivered>>

\* _request_loop ends; the child tasks are cancelled.
StopRequested ==
    /\ cntrl = "waiting"
    /\ intentEvent /\ stopEvent
    /\ cntrl' = "closing"
    /\ UNCHANGED <<handlerVars, intentVars, stopEvent, commands, childVars, monitorVars,
                   wireVars, serverVars, faults, delivered>>

\* The task running cntrl() is cancelled from outside.
OuterCancel ==
    /\ "outer_cancel" \in faults
    /\ faults' = faults \ {"outer_cancel"}
    /\ \/ cntrl \in {"created", "initializing"} /\ cntrl' = "failed"
       \/ Active /\ cntrl' = "raising"
    /\ UNCHANGED <<handlerVars, intentVars, stopEvent, commands, childVars, monitorVars,
                   wireVars, serverVars, delivered>>

\* The task group waits for its children, then cntrl() ends or raises.
CntrlExit ==
    /\ cntrl \in {"closing", "raising"}
    /\ monitor = "done" /\ consumer = "done"
    /\ cntrl' = IF cntrl = "closing" THEN "ended" ELSE "failed"
    /\ UNCHANGED <<handlerVars, intentVars, stopEvent, commands, childVars, monitorVars,
                   wireVars, serverVars, faults, delivered>>

Cntrl ==
    \/ CntrlInitialize \/ CntrlInitialized \/ CntrlReady \/ CntrlStartupTimeout
    \/ TakeIntent \/ YieldNext \/ IntentDone \/ StopRequested \/ CntrlExit

-------------------------------------------------------------------------------
(* _motion_group_state_monitor *)

\* Variant: the finally block without the sentinel.
FinallyWithoutSentinel(futures) ==
    /\ monitor' = "done"
    /\ DetachFrom(futures)
    /\ UNCHANGED sentinel

\* Variant: the finally block without detach().
FinallyWithoutDetach(futures) ==
    /\ monitor' = "done"
    /\ fut' = futures
    /\ sentinel' = TRUE
    /\ UNCHANGED <<stopEvent, intentEvent>>

\* The finally block: detach() and the sentinel.
MonitorFinally(futures) ==
    /\ monitor' = "done"
    /\ DetachFrom(futures)
    /\ sentinel' = TRUE

\* set_running()
SetRunning == opState' = IF opState = "COMMANDED" THEN "RUNNING" ELSE opState

\* The machine when process_motion_state is called: started if there is an
\* operation in progress and no movement under way.
Kicked == IF machine \in StartableStates THEN "executing" ELSE machine

\* A state with execute, for the operation in progress.
HandleReport ==
    LET next == Processed(Kicked, robot)
        finished == next \in {"ended", "paused"}
        resolved == [fut EXCEPT ![operation] = "result"]
    IN  /\ machine' = next
        /\ SetRunning
        /\ currentLocation' = IF IsTrajectory(robot) THEN robot.position ELSE currentLocation
        /\ operation' = IF finished THEN None ELSE operation
        /\ IF next = "ended" /\ DetachOnStandstill
           THEN MonitorFinally(resolved)
           ELSE /\ fut' = IF finished THEN resolved ELSE fut
                /\ UNCHANGED <<monitor, intentEvent, stopEvent, sentinel>>

\* One motion-group state, from the top of the loop to its end.
MonitorStep ==
    /\ monitor = "running"
    /\ Active
    /\ ~StreamIsSilent
    /\ streamReady' = TRUE
    /\ IF ~InProgress
       THEN UNCHANGED <<handlerVars, intentEvent, stopEvent, monitor, monitorVars>>
       ELSE /\ UNCHANGED <<started, opType>>
            /\ IF HasExecute(robot) THEN HandleReport
               ELSE /\ machine' = Kicked
                    /\ UNCHANGED <<fut, operation, opState, intentEvent, stopEvent,
                                   monitor, currentLocation, sentinel>>
    /\ UNCHANGED <<intent, cntrl, commands, consumer, wireVars, serverVars, faults,
                   delivered>>

\* The stream ends or raises; a raised exception shuts the group down.
StreamBreaks(fault) ==
    /\ fault \in faults \cap {"stream_ends", "stream_raises"}
    /\ monitor = "running"
    /\ Active
    /\ faults' = faults \ {fault}
    /\ MonitorFinally(fut)
    /\ cntrl' = IF fault = "stream_raises" THEN "raising" ELSE cntrl
    /\ UNCHANGED <<started, operation, opType, opState, intent, commands, consumer,
                   streamReady, machine, currentLocation, wireVars, serverVars, delivered>>

\* The task group cancels the monitor.
MonitorCancelled ==
    /\ cntrl \in {"closing", "raising"}
    /\ monitor = "running"
    /\ MonitorFinally(fut)
    /\ UNCHANGED <<started, operation, opType, opState, intent, cntrl, commands, consumer,
                   streamReady, machine, currentLocation, wireVars, serverVars, faults,
                   delivered>>

-------------------------------------------------------------------------------
(* _response_consumer *)

\* Variant: every operation expects a StartMovementResponse.
StartExpected == "start"

ExpectedResponse == IF opType = "pause" THEN "pause" ELSE "start"

\* One response: set_commanded() for the expected one, a raised exception for
\* a movement error, nothing for any other or without an operation in progress.
ConsumerStep ==
    /\ consumer = "running"
    /\ Active
    /\ responses # <<>>
    /\ responses' = Tail(responses)
    /\ LET response == Head(responses)
       IN  /\ IF InProgress /\ response = ExpectedResponse /\ opState = "INITIAL"
              THEN opState' = "COMMANDED" ELSE UNCHANGED opState
           /\ IF InProgress /\ response = "error"
              THEN consumer' = "done" /\ cntrl' = "raising"
              ELSE UNCHANGED <<consumer, cntrl>>
    /\ UNCHANGED <<started, fut, operation, opType, intentVars, stopEvent, commands,
                   monitor, streamReady, monitorVars, requests, serverVars, faults,
                   delivered>>

ConsumerCancelled ==
    /\ cntrl \in {"closing", "raising"}
    /\ consumer = "running"
    /\ consumer' = "done"
    /\ UNCHANGED <<handlerVars, intentVars, stopEvent, cntrl, commands, monitor,
                   streamReady, monitorVars, wireVars, serverVars, faults, delivered>>

-------------------------------------------------------------------------------
(* The motion server and the robot (external). *)

Goal(command) ==
    IF command.target # NoTarget THEN command.target
    ELSE IF command.type = "forward" THEN EndLocation ELSE 0

\* One request is answered; a pause makes a moving robot slow down.
ServerStep ==
    /\ requests # <<>>
    /\ requests' = Tail(requests)
    /\ LET command == Head(requests)
           moving == robot.details = "Running"
       IN  /\ \/ /\ command.kind = "init"
                /\ responses' = Append(responses, "init_ok")
                /\ UNCHANGED faults
             \/ /\ command.kind = "init"
                /\ "init_rejected" \in faults
                /\ faults' = faults \ {"init_rejected"}
                /\ responses' = Append(responses, "init_rejected")
             \/ /\ command.kind # "init"
                /\ responses' = Append(responses, command.kind)
                /\ UNCHANGED faults
           /\ order' = CASE command.kind = "start" -> Goal(command)
                         [] command.kind = "pause" -> NoTarget
                         [] OTHER -> order
           /\ robot' = IF command.kind = "pause" /\ moving
                       THEN [robot EXCEPT !.details = "PausedByUser"] ELSE robot
    /\ UNCHANGED <<handlerVars, intentVars, stopEvent, taskVars, monitorVars, delivered>>

\* An accepted start takes effect.
RobotBegin ==
    /\ order # NoTarget
    /\ order' = NoTarget
    /\ robot' = [robot EXCEPT !.details = "Running", !.standstill = FALSE, !.goal = order]
    /\ UNCHANGED <<handlerVars, intentVars, stopEvent, taskVars, monitorVars, wireVars,
                   faults, delivered>>

RobotMove ==
    /\ robot.details = "Running"
    /\ robot' = IF robot.position < robot.goal
                THEN [robot EXCEPT !.position = @ + 1]
                ELSE IF robot.position > robot.goal
                THEN [robot EXCEPT !.position = @ - 1]
                ELSE [robot EXCEPT !.details = "Ended"]
    /\ UNCHANGED <<handlerVars, intentVars, stopEvent, taskVars, monitorVars, wireVars,
                   order, faults, delivered>>

RobotSettle ==
    /\ robot.details \in {"Ended", "PausedByUser"}
    /\ ~robot.standstill
    /\ robot' = [robot EXCEPT !.standstill = TRUE]
    /\ UNCHANGED <<handlerVars, intentVars, stopEvent, taskVars, monitorVars, wireVars,
                   order, faults, delivered>>

\* A MovementErrorResponse, at any time after the initialization
ServerError ==
    /\ "movement_error" \in faults
    /\ Active
    /\ faults' = faults \ {"movement_error"}
    /\ responses' = Append(responses, "error")
    /\ UNCHANGED <<handlerVars, intentVars, stopEvent, taskVars, monitorVars, requests,
                   serverVars, delivered>>

\* No motion-group state arrives while cntrl() waits for the first one.
StreamFallsSilent ==
    /\ "silent_stream" \in faults
    /\ cntrl = "starting" /\ ~streamReady
    /\ faults' = faults \ {"silent_stream"}
    /\ UNCHANGED <<handlerVars, intentVars, stopEvent, taskVars, monitorVars, wireVars,
                   serverVars, delivered>>

Monitor == MonitorStep \/ MonitorCancelled
Consumer == ConsumerStep \/ ConsumerCancelled
Robot == RobotBegin \/ RobotMove \/ RobotSettle

Fault ==
    \/ OuterCancel \/ ServerError \/ StreamFallsSilent
    \/ \E fault \in {"stream_ends", "stream_raises"} : StreamBreaks(fault)

Next == User \/ Cntrl \/ Monitor \/ Consumer \/ ServerStep \/ Robot \/ Fault

Spec == Init /\ [][Next]_vars

(***************************************************************************)
(* The event loop keeps running every task that can proceed, the sender    *)
(* keeps iterating over cntrl(), the server answers and the robot arrives. *)
(* The user owes nothing, and no fault has to happen.                      *)
(***************************************************************************)
Fairness ==
    /\ WF_vars(Cntrl) /\ WF_vars(Monitor) /\ WF_vars(Consumer)
    /\ WF_vars(ServerStep) /\ WF_vars(Robot)

FairSpec == Spec /\ Fairness

(***************************************************************************)
(* What the end of a detached cursor's group rests on, each with the guard *)
(* under which the event loop owes the step: once the stop event is set,   *)
(* wherever cntrl() stands, or once the group shuts down, nothing holds    *)
(* cntrl() and its tasks back but each other (cntrl() 1002-1045,           *)
(* _request_loop, detach() 935-948).                                       *)
(***************************************************************************)
StartIsDecided == cntrl = "starting" /\ (streamReady \/ StreamIsSilent \/ monitor = "done")

CntrlIsDue ==
    \/ stopEvent /\ (StartIsDecided \/ cntrl \in {"waiting", "yielded"})
    \/ cntrl \in {"closing", "raising"} /\ monitor = "done" /\ consumer = "done"

MonitorIsDue ==
    /\ monitor = "running"
    /\ cntrl \in {"closing", "raising"} \/ (cntrl = "starting" /\ ~StartIsDecided)

ConsumerIsDue == consumer = "running" /\ cntrl \in {"closing", "raising"}

StoppingIsFree ==
    /\ CntrlIsDue => ENABLED <<Cntrl>>_vars
    /\ MonitorIsDue => ENABLED <<Monitor>>_vars
    /\ ConsumerIsDue => ENABLED <<Consumer>>_vars

-------------------------------------------------------------------------------
(* Safety. *)

(***************************************************************************)
(* After detach, by whomever, no caller is left waiting: nothing is in     *)
(* progress and nothing can be started (detach() 935-948, the refusals of  *)
(* forward() and backward(), pause() without an operation).                *)
(***************************************************************************)
StoppedMeansNoPending == stopEvent => \A i \in Ops : fut[i] # "pending"

(***************************************************************************)
(* Of all futures handed out only the current operation's can be pending:  *)
(* a superseded caller is always released (OperationHandler.start).        *)
(***************************************************************************)
OnlyCurrentPending == \A i \in Ops : fut[i] = "pending" => i = operation

(***************************************************************************)
(* No lost wake-up: the request loop finds the event set whenever there is *)
(* an intent in the slot, and an intent whenever the event is set and the  *)
(* cursor not detached (_set_intent's thread-safety note, 647-660).        *)
(***************************************************************************)
NoLostIntent ==
    /\ intent # NoIntent => intentEvent
    /\ intentEvent /\ ~stopEvent => intent # NoIntent

(***************************************************************************)
(* The command of the operation a caller waits for is never dropped: it is *)
(* in the slot, among the commands still to be yielded, or yielded.        *)
(***************************************************************************)
PendingIsDispatched ==
    \A i \in Ops : fut[i] = "pending" =>
        \/ intent.op = i
        \/ \E k \in DOMAIN commands : commands[k].op = i /\ commands[k].kind # "speed"
        \/ i \in delivered

(***************************************************************************)
(* Whatever ended the task group - detach, end of trajectory, an error, a  *)
(* broken stream, a timeout, a cancellation - once the monitor has run,    *)
(* the iteration over the cursor has its sentinel, nobody waits for a      *)
(* future and no child task is left (cntrl() 1002-1045, 1131-1135).        *)
(***************************************************************************)
ClosedIsQuiet ==
    /\ monitor = "done" => sentinel /\ stopEvent /\ ~InProgress
    /\ cntrl \in Finished => monitor # "running" /\ consumer # "running"

(***************************************************************************)
(* A future resolves with a result only on a report at standstill, and the *)
(* result's final location is the one of that report (Operation futures    *)
(* "when movement stops", 681; OperationResult.final_location).            *)
(***************************************************************************)
ResolvedAtStandstill ==
    [][\A i \in Ops : fut[i] = "pending" /\ fut'[i] = "result" =>
          robot.standstill /\ currentLocation' = robot.position]_vars

(***************************************************************************)
(* The first command yielded for an intent is never stale: nothing newer   *)
(* has been requested, and the cursor has not been detached.               *)
(***************************************************************************)
FirstCommandIsFresh ==
    [][cntrl = "waiting" /\ cntrl' = "yielded" =>
          requests'[Len(requests')].op = started /\ ~stopEvent]_vars

\* The futures of a cursor are those OperationFutures promises.
Futures == INSTANCE OperationFutures WITH closed <- stopEvent

FuturesRefined == Futures!FuturesSpec

(***************************************************************************)
(* To its owner the cursor is what DetachableCursor describes, as is the   *)
(* cursor the tuner holds (TrajectoryTuner): whatever ends its states -    *)
(* detach, end of trajectory, an error, a broken stream, a timeout, a      *)
(* cancellation - detaches it and ends its iteration, and then its         *)
(* location stays (cntrl() 1002-1045, 1131-1135, detach() 935-948).  Its   *)
(* states are over when the monitor is done.                               *)
(***************************************************************************)
ExecutionOfStates ==
    CASE monitor = "running" -> "running"
      [] monitor = "done" -> "over"
      [] cntrl = "created" /\ monitor = "none" -> "none"
      [] OTHER -> cntrl

Owned == INSTANCE DetachableCursor WITH
    execution <- ExecutionOfStates,
    detached <- stopEvent,
    inProgress <- InProgress,
    slotFull <- intent # NoIntent,
    location <- currentLocation

OwnerCanRely == Owned!CursorSpec

-------------------------------------------------------------------------------
(* Properties the code's texts state and the code does not have. *)

(***************************************************************************)
(* "If two intents arrive before the loop wakes, only the latest one is    *)
(* sent - no stale commands ever reach the server." (Intent, 374-378)      *)
(***************************************************************************)
NoStaleMovement ==
    [][\A i \in delivered' \ delivered : i = started]_vars

(***************************************************************************)
(* "The state transitions are: INITIAL -> COMMANDED -> RUNNING ->          *)
(* COMPLETED" (OperationState, 92-98): an operation whose command has not  *)
(* even been sent does not complete.                                       *)
(***************************************************************************)
CompletedWasCommanded == \A i \in Ops : fut[i] = "result" => i \in delivered

-------------------------------------------------------------------------------
(* Liveness, under FairSpec. *)

(***************************************************************************)
(* An operation does not stay INITIAL: its own acknowledgement reaches it  *)
(* or it is over (the comment of _response_consumer, 1171-1182).           *)
(***************************************************************************)
AlwaysAcknowledged ==
    \A i \in Ops :
        (fut[i] = "pending" /\ opState = "INITIAL")
            ~> (fut[i] # "pending" \/ opState # "INITIAL")

(***************************************************************************)
(* Once the robot has reported an execution, no caller waits forever.      *)
(***************************************************************************)
MovementResolves ==
    \A i \in Ops :
        (fut[i] = "pending" /\ HasExecute(robot)) ~> (fut[i] # "pending")

(***************************************************************************)
(* Detaching, or an error in the task group, ends cntrl() (935-948).       *)
(***************************************************************************)
DetachEndsCntrl ==
    (cntrl \in InGroup /\ (stopEvent \/ ~Active)) ~> (cntrl \in Finished)

(***************************************************************************)
(* cntrl() "cleans up on completion or error" (985): when it is over, no   *)
(* caller is left waiting for an operation of the cursor.                  *)
(***************************************************************************)
FinishedReleasesCallers ==
    (cntrl \in Finished) ~> (\A i \in Ops : fut[i] # "pending")
===============================================================================

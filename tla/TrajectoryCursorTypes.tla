-------------------------- MODULE TrajectoryCursorTypes --------------------------
(***************************************************************************)
(* Type correctness of the trajectory cursor, for every number of          *)
(* operations, length of trajectory, choice of options and set of faults.  *)
(***************************************************************************)
EXTENDS TrajectoryCursor, TLAPS

-------------------------------------------------------------------------------
(* Lemmas about the operators. *)

\* A step's target lies where forward_to and backward_to accept it.
LEMMA StepTargets ==
    ASSUME NEW location \in Nat
    PROVE  /\ ForwardStepTarget(location) \in Nat
           /\ ForwardStepTarget(location) > location
           /\ BackwardStepTarget(location) \in Int
           /\ BackwardStepTarget(location) < location
BY DEF ForwardStepTarget, BackwardStepTarget, CurrentActionStart, CurrentActionEnd,
       PreviousActionStart, Unit

\* process_motion_state stays within the machine's states and never reaches error.
LEMMA ProcessedType ==
    ASSUME NEW state \in MachineStates \ {"error"}, NEW report \in Robots
    PROVE  Processed(state, report) \in MachineStates \ {"error"}
BY DEF Processed, HandleExecuting, MachineStates, Robots

\* The kick of the monitor leaves no state from which it would be refused.
LEMMA KickedType ==
    ASSUME machine \in MachineStates \ {"error"}
    PROVE  Kicked \in MachineStates \ {"error"}
BY DEF Kicked, MachineStates, StartableStates

\* An intent becomes its movement command, or a speed command and then that.
LEMMA CommandsOfIntent ==
    ASSUME NEW i \in Intents
    PROVE  /\ MovementCommand(i) \in Commands
           /\ MovementCommand(i).op = i.op
           /\ MovementCommand(i).kind # "speed"
           /\ \/ ToCommands(i) = <<MovementCommand(i)>>
              \/ \E c \in Commands : /\ c.kind = "speed"
                                     /\ ToCommands(i) = <<c, MovementCommand(i)>>
           /\ Head(ToCommands(i)) \in Commands
           /\ Tail(ToCommands(i)) \in Seq(Commands)
<1>1. MovementCommand(i) \in Commands
  BY DEF MovementCommand, Commands, Intents
<1>2. [MovementCommand(i) EXCEPT !.kind = "speed"] \in Commands
  BY <1>1 DEF Commands
<1>3. [MovementCommand(i) EXCEPT !.kind = "speed"].kind = "speed"
  BY <1>1 DEF Commands
<1>4. MovementCommand(i).op = i.op /\ MovementCommand(i).kind # "speed"
  BY DEF MovementCommand
<1>5. CASE i.speed
  <2> DEFINE c == [MovementCommand(i) EXCEPT !.kind = "speed"]
             m == MovementCommand(i)
  <2>1. ToCommands(i) = <<c, m>>
    BY <1>5 DEF ToCommands
  <2> HIDE DEF c, m
  <2>2. c \in Commands /\ m \in Commands /\ c.kind = "speed"
    BY <1>1, <1>2, <1>3 DEF c, m
  <2>3. Head(<<c, m>>) = c /\ Tail(<<c, m>>) = <<m>> /\ <<m>> \in Seq(Commands)
    BY <2>2
  <2>4. QED
    BY <1>1, <1>4, <2>1, <2>2, <2>3 DEF m
<1>6. CASE ~i.speed
  BY <1>1, <1>4, <1>6 DEF ToCommands
<1>7. QED
  BY <1>5, <1>6

-------------------------------------------------------------------------------
(* Type correctness. *)

LEMMA InitType == Init => TypeOK
<1> SUFFICES ASSUME Init PROVE TypeOK
  OBVIOUS
<1>1. currentLocation \in Locations /\ robot \in Robots
  BY EndLocationAssumption, InitialLocationAssumption DEF Init, Locations, Robots, Details
<1>2. /\ started \in 0..MaxOps /\ operation \in 0..started
      /\ fut \in [Ops -> FutureStates] /\ delivered \subseteq Ops
  BY MaxOpsAssumption DEF Init, FutureStates, None
<1>3. commands \in Seq(Commands) /\ responses \in Seq(ResponseKinds)
      /\ requests \in Seq(Commands \cup {InitCommand})
  BY DEF Init
<1>4. machine \in MachineStates \ {"error"} /\ cntrl \in CntrlStates
      /\ monitor \in TaskStates /\ consumer \in TaskStates
  BY DEF Init, MachineStates, CntrlStates, TaskStates
<1>5. opType \in OperationTypes /\ opState \in OperationStates /\ order \in Targets
  BY DEF Init, OperationTypes, OperationStates, Targets
<1>6. QED
  BY <1>1, <1>2, <1>3, <1>4, <1>5 DEF Init, TypeOK

LEMMA MoveType ==
    ASSUME TypeOK, NEW type \in OperationTypes, NEW target \in Targets, NEW speed \in BOOLEAN,
           Move(type, target, speed)
    PROVE  TypeOK'
BY MaxOpsAssumption DEF TypeOK, Move, StartOperation, SetIntent, Intents, FutureStates,
       OperationStates, Ops, None, taskVars, childVars, monitorVars, wireVars, serverVars

LEMMA PauseType ==
    ASSUME TypeOK, Pause
    PROVE  TypeOK'
BY MaxOpsAssumption DEF TypeOK, Pause, StartOperation, SetIntent, Intents, FutureStates,
       OperationStates, OperationTypes, Targets, NoTarget, Ops, None, taskVars, childVars,
       monitorVars, wireVars, serverVars

LEMMA DetachType ==
    ASSUME TypeOK, Detach
    PROVE  TypeOK'
BY DEF TypeOK, Detach, DetachFrom, FutureStates, taskVars, childVars, monitorVars,
       wireVars, serverVars

LEMMA CancelAwaiterType ==
    ASSUME TypeOK, NEW i \in Ops, CancelAwaiter(i)
    PROVE  TypeOK'
BY DEF TypeOK, CancelAwaiter, FutureStates, intentVars, taskVars, childVars, monitorVars,
       wireVars, serverVars

\* Yielding a command keeps the wire and the history well typed.
LEMMA YieldType ==
    ASSUME TypeOK, NEW command \in Commands, Yield(command)
    PROVE  requests' \in Seq(Commands \cup {InitCommand}) /\ delivered' \subseteq Ops
BY DEF TypeOK, Yield, Commands

LEMMA TakeIntentType ==
    ASSUME TypeOK, TakeIntent
    PROVE  TypeOK'
<1>1. CASE intent = NoIntent
  BY <1>1 DEF TypeOK, TakeIntent, handlerVars, childVars, monitorVars, serverVars
<1>2. CASE intent # NoIntent
  <2>1. intent \in Intents
    BY <1>2 DEF TypeOK
  <2>2. Head(ToCommands(intent)) \in Commands /\ Tail(ToCommands(intent)) \in Seq(Commands)
    BY <2>1, CommandsOfIntent
  <2>3. requests' \in Seq(Commands \cup {InitCommand}) /\ delivered' \subseteq Ops
    BY <1>2, <2>2, YieldType DEF TakeIntent
  <2>4. QED
    BY <1>2, <2>2, <2>3 DEF TypeOK, TakeIntent, CntrlStates, handlerVars, childVars,
       monitorVars, serverVars
<1>3. QED
  BY <1>1, <1>2

LEMMA YieldNextType ==
    ASSUME TypeOK, YieldNext
    PROVE  TypeOK'
<1>1. Head(commands) \in Commands /\ Tail(commands) \in Seq(Commands)
  BY DEF TypeOK, YieldNext
<1>2. requests' \in Seq(Commands \cup {InitCommand}) /\ delivered' \subseteq Ops
  BY <1>1, YieldType DEF YieldNext
<1>3. QED
  BY <1>1, <1>2 DEF TypeOK, YieldNext, handlerVars, intentVars, childVars, monitorVars,
     serverVars

LEMMA CntrlType ==
    ASSUME TypeOK, Cntrl
    PROVE  TypeOK'
<1> USE DEF TypeOK, CntrlStates, handlerVars, intentVars, childVars, monitorVars,
        wireVars, serverVars
<1>1. CASE CntrlInitialize
  BY <1>1 DEF CntrlInitialize
<1>2. CASE CntrlInitialized
  BY <1>2 DEF CntrlInitialized, TaskStates
<1>3. CASE CntrlReady
  BY <1>3 DEF CntrlReady
<1>4. CASE CntrlStartupTimeout
  BY <1>4 DEF CntrlStartupTimeout
<1>5. CASE TakeIntent
  BY <1>5, TakeIntentType
<1>6. CASE YieldNext
  BY <1>6, YieldNextType
<1>7. CASE IntentDone
  BY <1>7 DEF IntentDone
<1>8. CASE StopRequested
  BY <1>8 DEF StopRequested
<1>9. CASE CntrlExit
  BY <1>9 DEF CntrlExit
<1>10. QED
  BY <1>1, <1>2, <1>3, <1>4, <1>5, <1>6, <1>7, <1>8, <1>9 DEF Cntrl

LEMMA HandleReportType ==
    ASSUME TypeOK, InProgress, HandleReport
    PROVE  /\ machine' \in MachineStates \ {"error"}
           /\ opState' \in OperationStates
           /\ currentLocation' \in Locations
           /\ operation' \in 0..started
           /\ fut' \in [Ops -> FutureStates]
           /\ monitor' \in TaskStates
           /\ intentEvent' \in BOOLEAN /\ stopEvent' \in BOOLEAN /\ sentinel' \in BOOLEAN
<1>1. Processed(Kicked, robot) \in MachineStates \ {"error"}
  BY KickedType, ProcessedType DEF TypeOK
<1>2. robot.position \in Locations
  BY DEF TypeOK, Robots
<1>3. machine' \in MachineStates \ {"error"} /\ currentLocation' \in Locations
  BY <1>1, <1>2 DEF HandleReport, TypeOK
<1>4. opState' \in OperationStates /\ operation' \in 0..started
  BY DEF HandleReport, SetRunning, TypeOK, OperationStates, None
<1>5. [fut EXCEPT ![operation] = "result"] \in [Ops -> FutureStates]
  BY DEF TypeOK, FutureStates
<1>6. ASSUME NEW futures \in [Ops -> FutureStates], MonitorFinally(futures)
      PROVE  /\ fut' \in [Ops -> FutureStates] /\ monitor' \in TaskStates
             /\ intentEvent' \in BOOLEAN /\ stopEvent' \in BOOLEAN /\ sentinel' \in BOOLEAN
  BY <1>6 DEF MonitorFinally, DetachFrom, FutureStates, TaskStates
<1>7. CASE MonitorFinally([fut EXCEPT ![operation] = "result"])
  BY <1>3, <1>4, <1>5, <1>6, <1>7
<1>8. CASE ~MonitorFinally([fut EXCEPT ![operation] = "result"])
  BY <1>3, <1>4, <1>5, <1>8 DEF HandleReport, TypeOK
<1>9. QED
  BY <1>7, <1>8

LEMMA MonitorStepType ==
    ASSUME TypeOK, MonitorStep
    PROVE  TypeOK'
<1> USE DEF MonitorStep, TypeOK, handlerVars, monitorVars, wireVars, serverVars
<1>1. CASE ~InProgress
  BY <1>1
<1>2. CASE InProgress /\ HasExecute(robot)
  <2>1. HandleReport /\ UNCHANGED <<started, opType>>
    BY <1>2
  <2>2. QED
    BY <1>2, <2>1, HandleReportType
<1>3. CASE InProgress /\ ~HasExecute(robot)
  <2>1. machine' = Kicked /\ UNCHANGED <<started, fut, operation, opType, opState, intentEvent,
                                        stopEvent, monitor, currentLocation, sentinel>>
    BY <1>3
  <2>2. QED
    BY <2>1, KickedType
<1>4. QED
  BY <1>1, <1>2, <1>3

LEMMA MonitorEndsType ==
    ASSUME TypeOK, MonitorCancelled \/ \E fault \in AllFaults : StreamBreaks(fault)
    PROVE  TypeOK'
<1>1. CASE MonitorCancelled
  BY <1>1 DEF TypeOK, MonitorCancelled, MonitorFinally, DetachFrom, FutureStates, TaskStates,
     wireVars, serverVars
<1>2. CASE \E fault \in AllFaults : StreamBreaks(fault)
  BY <1>2 DEF TypeOK, StreamBreaks, MonitorFinally, DetachFrom, FutureStates, TaskStates,
     CntrlStates, wireVars, serverVars
<1>3. QED
  BY <1>1, <1>2

LEMMA ConsumerType ==
    ASSUME TypeOK, Consumer
    PROVE  TypeOK'
<1>1. CASE ConsumerStep
  BY <1>1 DEF TypeOK, ConsumerStep, OperationStates, TaskStates, CntrlStates, intentVars,
     monitorVars, serverVars
<1>2. CASE ConsumerCancelled
  BY <1>2 DEF TypeOK, ConsumerCancelled, TaskStates, handlerVars, intentVars, monitorVars,
     wireVars, serverVars
<1>3. QED
  BY <1>1, <1>2 DEF Consumer

LEMMA ServerStepType ==
    ASSUME TypeOK, ServerStep
    PROVE  TypeOK'
<1> DEFINE command == Head(requests)
<1>1. command \in Commands \cup {InitCommand}
      /\ requests' \in Seq(Commands \cup {InitCommand})
  BY DEF TypeOK, ServerStep
<1>2. command.kind \in {"init", "speed", "start", "pause"}
  BY <1>1 DEF Commands, InitCommand
<1>3. responses' \in Seq(ResponseKinds) /\ faults' \subseteq Faults
  <2>1. \E kind \in ResponseKinds : responses' = Append(responses, kind)
    BY <1>2 DEF ServerStep, ResponseKinds
  <2>2. faults' \subseteq Faults
    BY DEF TypeOK, ServerStep
  <2>3. QED
    BY <2>1, <2>2 DEF TypeOK
<1>4. command.kind = "start" => Goal(command) \in Locations
  BY <1>1, EndLocationAssumption DEF Commands, InitCommand, Goal, Targets, Locations
<1>5. order' \in Targets
  BY <1>4 DEF TypeOK, ServerStep, Targets
<1>6. robot' \in Robots
  BY DEF TypeOK, ServerStep, Robots, Details, TrajectoryStates
<1>7. QED
  BY <1>1, <1>3, <1>5, <1>6 DEF TypeOK, ServerStep, handlerVars, intentVars, taskVars,
     childVars, monitorVars

LEMMA RobotType ==
    ASSUME TypeOK, Robot
    PROVE  TypeOK'
<1> USE EndLocationAssumption
<1>1. robot' \in Robots
  <2>1. CASE RobotBegin
    BY <2>1 DEF TypeOK, RobotBegin, Robots, Targets, Details, TrajectoryStates
  <2>2. CASE RobotMove
    <3>1. /\ robot.position \in Locations /\ robot.goal \in Locations
          /\ "Ended" \in Details
      BY DEF TypeOK, Robots, Details, TrajectoryStates, EndReports
    <3>2. CASE robot.position < robot.goal
      <4>1. robot.position + 1 \in Locations
        BY <3>1, <3>2 DEF Locations
      <4>2. robot' = [robot EXCEPT !.position = robot.position + 1]
        BY <2>2, <3>2 DEF RobotMove
      <4>3. QED
        BY <4>1, <4>2 DEF TypeOK, Robots
    <3>3. CASE robot.position > robot.goal
      <4>1. robot.position - 1 \in Locations
        BY <3>1, <3>3 DEF Locations
      <4>2. robot' = [robot EXCEPT !.position = robot.position - 1]
        BY <2>2, <3>1, <3>3 DEF RobotMove, Locations
      <4>3. QED
        BY <4>1, <4>2 DEF TypeOK, Robots
    <3>4. CASE robot.position = robot.goal
      <4>1. robot' = [robot EXCEPT !.details = "Ended"]
        BY <2>2, <3>1, <3>4 DEF RobotMove, Locations
      <4>2. QED
        BY <3>1, <4>1 DEF TypeOK, Robots
    <3>5. QED
      BY <3>1, <3>2, <3>3, <3>4 DEF Locations
  <2>3. CASE RobotSettle
    BY <2>3 DEF TypeOK, RobotSettle, Robots
  <2>4. QED
    BY <2>1, <2>2, <2>3 DEF Robot
<1>2. order' \in Targets
  BY DEF TypeOK, Robot, RobotBegin, RobotMove, RobotSettle, Targets
<1>3. QED
  BY <1>1, <1>2 DEF TypeOK, Robot, RobotBegin, RobotMove, RobotSettle, handlerVars,
     intentVars, taskVars, childVars, monitorVars, wireVars

LEMMA FaultType ==
    ASSUME TypeOK, Fault
    PROVE  TypeOK'
<1>1. CASE OuterCancel
  BY <1>1 DEF TypeOK, OuterCancel, CntrlStates, handlerVars, intentVars, childVars,
     monitorVars, wireVars, serverVars
<1>2. CASE ServerError
  BY <1>2 DEF TypeOK, ServerError, ResponseKinds, handlerVars, intentVars, taskVars,
     childVars, monitorVars, serverVars
<1>3. CASE StreamFallsSilent
  BY <1>3 DEF TypeOK, StreamFallsSilent, handlerVars, intentVars, taskVars, childVars,
     monitorVars, wireVars, serverVars
<1>4. CASE \E fault \in {"stream_ends", "stream_raises"} : StreamBreaks(fault)
  BY <1>4, MonitorEndsType DEF AllFaults
<1>5. QED
  BY <1>1, <1>2, <1>3, <1>4 DEF Fault

\* Every call of the user is a Move, a pause, a detach or a cancelled awaiter.
LEMMA UserCalls ==
    ASSUME TypeOK, User
    PROVE  \/ \E type \in {"forward", "backward"}, target \in Targets, speed \in BOOLEAN :
                 Move(type, target, speed)
           \/ Pause
           \/ Detach
           \/ \E i \in Ops : CancelAwaiter(i)
<1>1. NoTarget \in Targets /\ Locations \subseteq Targets
  BY DEF Targets
<1>2. ForwardStepTarget(currentLocation) <= EndLocation
        => ForwardStepTarget(currentLocation) \in Locations
  BY StepTargets, EndLocationAssumption DEF TypeOK, Locations
<1>3. BackwardStepTarget(currentLocation) >= 0
        => BackwardStepTarget(currentLocation) \in Locations
  BY StepTargets, EndLocationAssumption DEF TypeOK, Locations
<1>4. QED
  BY <1>1, <1>2, <1>3, SpeedOptionsAssumption
     DEF User, Forward, Backward, ForwardTo, BackwardTo, ForwardToNextAction,
         BackwardToPreviousAction

LEMMA UserType ==
    ASSUME TypeOK, User
    PROVE  TypeOK'
BY UserCalls, MoveType, PauseType, DetachType, CancelAwaiterType DEF OperationTypes

LEMMA NextType ==
    ASSUME TypeOK, [Next]_vars
    PROVE  TypeOK'
<1>1. CASE UNCHANGED vars
  BY <1>1 DEF TypeOK, vars, handlerVars, intentVars, taskVars, childVars, monitorVars,
     wireVars, serverVars
<1>2. CASE Next
  BY <1>2, UserType, CntrlType, MonitorStepType, MonitorEndsType, ConsumerType,
     ServerStepType, RobotType, FaultType DEF Next, Monitor
<1>3. QED
  BY <1>1, <1>2

(***************************************************************************)
(* Every variable keeps its type: in particular the machine is never sent  *)
(* a start it would refuse and the operation never leaves the states its   *)
(* handler accepts, so none of the handlers' guards raises, and a step     *)
(* never targets a location beyond the trajectory.                         *)
(***************************************************************************)
THEOREM TypeCorrect == Spec => []TypeOK
<1>1. Init => TypeOK
  BY InitType
<1>2. TypeOK /\ [Next]_vars => TypeOK'
  BY NextType
<1>3. QED
  BY <1>1, <1>2, PTL DEF Spec
================================================================================

------------------------- MODULE TrajectoryTunerProofs -------------------------
(***************************************************************************)
(* Tuning, for trajectories of any length, any number of commands and      *)
(* every set of faults.                                                    *)
(***************************************************************************)
EXTENDS TrajectoryTuner, TLAPS

Cursors == [exists : BOOLEAN, detached : BOOLEAN, sentinel : BOOLEAN, inProgress : BOOLEAN,
            intent : Int, location : Int]

TunerTypes ==
    /\ cursor \in Cursors
    /\ requests \in Seq(Int)
    /\ robot \in [mode : {"idle", "moving", "paused", "ended"}, place : Int, target : Int]
    /\ startLocation \in Int

LEMMA OperatedType ==
    ASSUME TunerTypes, NEW intent \in Int
    PROVE  Operated(intent) \in Cursors
BY DEF TunerTypes, Cursors, Operated

LEMMA CommandTypes ==
    ASSUME TunerTypes, Command
    PROVE  TunerTypes'
<1>1. UNCHANGED <<startLocation, requests, robot, overtaken>>
  BY DEF Command, CommandForward, CommandBackward, CommandStepForward, CommandStepBackward,
     CommandPause, CommandFinish, MoveTo, Receive, serverVars
<1>2. cursor' \in Cursors
  <2>1. ASSUME NEW target, MoveTo(target)
        PROVE  cursor' \in Cursors
    BY <2>1, OperatedType, EndAssumption DEF MoveTo, TunerTypes
  <2>2. CASE CommandPause
    BY <2>2, OperatedType DEF CommandPause, TunerTypes, Pause
  <2>3. CASE CommandFinish
    BY <2>3 DEF CommandFinish, TunerTypes, Cursors
  <2>4. QED
    BY <2>1, <2>2, <2>3 DEF Command, CommandForward, CommandBackward, CommandStepForward,
       CommandStepBackward
<1>3. QED
  BY <1>1, <1>2 DEF TunerTypes

LEMMA StepTypes ==
    ASSUME TunerTypes, [Next]_vars
    PROVE  TunerTypes'
<1> USE DEF TunerTypes
<1>1. CASE PlanReady
  <2>1. NoCursor \in Cursors
    BY DEF NoCursor, Cursors, NoIntent
  <2>2. cursor' \in Cursors
    BY <1>1, <2>1 DEF PlanReady, Cursors
  <2>3. QED
    BY <1>1, <2>2 DEF PlanReady, serverVars
<1>2. CASE StatesEnd
  <2>1. cursor' \in Cursors
    BY <1>2 DEF StatesEnd, Cursors
  <2>2. QED
    BY <1>2, <2>1 DEF StatesEnd, serverVars
<1>3. CASE NextTurn
  <2>1. cursor.location \in Int
    BY DEF Cursors
  <2>2. QED
    BY <1>3, <2>1 DEF NextTurn, serverVars
<1>4. CASE \/ Published \/ Continue \/ ExecutionRaises \/ PlanFails \/ Cancelled
           \/ InitializationFails \/ UNCHANGED vars
  BY <1>4 DEF Published, Continue, ExecutionRaises, PlanFails, Cancelled, InitializationFails,
     vars, loopVars, serverVars
<1>5. CASE Initialized
  BY <1>5 DEF Initialized, loopVars
<1>6. CASE SendIntent
  <2>1. cursor' = [cursor EXCEPT !.intent = NoIntent]
    BY <1>6 DEF SendIntent
  <2>2. cursor' \in Cursors
    <3>1. NoIntent \in Int
      BY DEF NoIntent
    <3>2. cursor \in Cursors
      OBVIOUS
    <3> HIDE DEF TunerTypes
    <3>3. QED
      BY <2>1, <3>1, <3>2 DEF Cursors
  <2>3. cursor.intent \in Int
    BY DEF Cursors
  <2>4. requests' \in Seq(Int)
    BY <1>6, <2>3 DEF SendIntent
  <2>5. QED
    BY <1>6, <2>2, <2>4 DEF SendIntent, loopVars
<1>7. CASE MonitorReport
  <2>1. cursor' \in Cursors
    BY <1>7 DEF MonitorReport, Cursors
  <2>2. QED
    BY <1>7, <2>1 DEF MonitorReport, loopVars, serverVars
<1>8. CASE ExecutionEnds \/ MovementFails
  <2>1. cursor' \in Cursors
    BY <1>8 DEF ExecutionEnds, MovementFails, Cursors
  <2>2. QED
    BY <1>8, <2>1 DEF ExecutionEnds, MovementFails, loopVars, serverVars
<1>9. CASE ServerStep
  <2>1. Head(requests) \in Int /\ Tail(requests) \in Seq(Int)
    BY <1>9 DEF ServerStep
  <2>2. QED
    BY <1>9, <2>1 DEF ServerStep, loopVars
<1>10. CASE RobotMove
  BY <1>10 DEF RobotMove, loopVars
<1>11. QED
  BY <1>1, <1>2, <1>3, <1>4, <1>5, <1>6, <1>7, <1>8, <1>9, <1>10, CommandTypes
     DEF Next, Tune, Execution

LEMMA InitTypes == Init => TunerTypes
<1> SUFFICES ASSUME Init PROVE TunerTypes
  OBVIOUS
<1>1. cursor \in Cursors
  BY DEF Init, NoCursor, NoIntent, Cursors
<1>2. QED
  BY <1>1 DEF Init, TunerTypes

LEMMA Types == Spec => []TunerTypes
BY InitTypes, StepTypes, PTL DEF Spec

-------------------------------------------------------------------------------

(***************************************************************************)
(* Before its turn is executed a cursor is untouched, unless a command has *)
(* set the event, and nothing executes between two turns.                  *)
(***************************************************************************)
UntouchedInv ==
    /\ pc \in {"publishing", "waiting"} => execution = "none"
    /\ pc = "planning" => execution \in {"none", "ended"}
    /\ pc \in {"publishing", "waiting"} /\ ~continue =>
          cursor.intent = NoIntent /\ ~cursor.detached /\ ~cursor.inProgress

LEMMA UntouchedStep ==
    ASSUME TunerTypes, UntouchedInv, [Next]_vars
    PROVE  UntouchedInv'
<1> USE DEF UntouchedInv
<1>1. CASE Command
  <2>1. UNCHANGED <<pc, execution>>
    BY <1>1 DEF Command, CommandForward, CommandBackward, CommandStepForward,
       CommandStepBackward, CommandPause, CommandFinish, MoveTo, Receive
  <2>2. continue' = TRUE \/ (UNCHANGED continue /\ (~cursor.inProgress => UNCHANGED cursor))
    BY <1>1 DEF Command, CommandForward, CommandBackward, CommandStepForward,
       CommandStepBackward, CommandPause, CommandFinish, MoveTo
  <2>3. QED
    BY <2>1, <2>2
<1>2. CASE PlanReady
  BY <1>2 DEF PlanReady, NoCursor
<1>3. CASE Published \/ Continue \/ StatesEnd \/ NextTurn \/ ExecutionRaises
  BY <1>3 DEF Published, Continue, StatesEnd, NextTurn, ExecutionRaises
<1>4. CASE PlanFails \/ Cancelled
  BY <1>4 DEF PlanFails, Cancelled
<1>5. CASE Execution \/ InitializationFails \/ MovementFails
  <2>1. execution \in {"initializing", "running"} /\ UNCHANGED loopVars
    BY <1>5 DEF Execution, Initialized, SendIntent, MonitorReport, ExecutionEnds,
       InitializationFails, MovementFails
  <2>2. QED
    BY <2>1 DEF loopVars
<1>6. CASE ServerStep \/ RobotMove \/ UNCHANGED vars
  BY <1>6 DEF ServerStep, RobotMove, vars, loopVars
<1>7. QED
  BY <1>1, <1>2, <1>3, <1>4, <1>5, <1>6 DEF Next, Tune

LEMMA UntouchedInit == Init => UntouchedInv
BY DEF Init, UntouchedInv

LEMMA Untouched == Spec => []UntouchedInv
BY UntouchedInit, UntouchedStep, Types, PTL DEF Spec

(***************************************************************************)
(* The tuning loop never waits while the cursor has a command.             *)
(***************************************************************************)
THEOREM NoCommandIsForgotten == Spec => []WaitsOnlyWithoutCommand
<1>1. UntouchedInv => WaitsOnlyWithoutCommand
  BY DEF UntouchedInv, WaitsOnlyWithoutCommand
<1>2. QED
  BY <1>1, Untouched, PTL

-------------------------------------------------------------------------------

Resting == requests = <<>> /\ robot.mode # "moving"

(***************************************************************************)
(* From the end of a movement on, the robot rests where the cursor says:   *)
(* while its execution ends, while the next turn is planned, and until the *)
(* next turn is executed.                                                  *)
(***************************************************************************)
RestInv ==
    /\ cursor.detached => ~cursor.inProgress
    /\ cursor.sentinel => cursor.detached
    /\ execution = "ended" => cursor.detached
    /\ execution \in {"none", "initializing"} /\ ~finished => ~cursor.detached
    /\ cursor.detached /\ ~finished /\ execution \in {"running", "ended"} /\ ~overtaken
          => Resting /\ cursor.location = robot.place
    /\ pc = "planning" /\ ~overtaken => Resting /\ startLocation = robot.place
    /\ pc \in {"publishing", "waiting"} /\ ~overtaken
          => Resting /\ cursor.location = robot.place

LEMMA RestOnCommand ==
    ASSUME TunerTypes, RestInv, Command
    PROVE  RestInv'
<1>1. /\ UNCHANGED <<pc, startLocation, execution, requests, robot, overtaken>>
      /\ cursor'.location = cursor.location /\ cursor'.sentinel = cursor.sentinel
  BY DEF Command, CommandForward, CommandBackward, CommandStepForward, CommandStepBackward,
     CommandPause, CommandFinish, MoveTo, Receive, Operated, serverVars, TunerTypes, Cursors
<1>2. CASE CommandFinish
  BY <1>1, <1>2 DEF CommandFinish, RestInv, TunerTypes, Cursors, Resting
<1>3. CASE ~CommandFinish
  <2>1. /\ UNCHANGED finished /\ cursor'.detached = cursor.detached
        /\ cursor.detached => UNCHANGED cursor
    BY <1>3 DEF Command, CommandForward, CommandBackward, CommandStepForward,
       CommandStepBackward, CommandPause, MoveTo, Operated, TunerTypes, Cursors
  <2>2. QED
    BY <1>1, <2>1 DEF RestInv, Resting
<1>4. QED
  BY <1>2, <1>3

LEMMA RestStep ==
    ASSUME TunerTypes, UntouchedInv, RestInv, [Next]_vars
    PROVE  RestInv'
<1> USE DEF RestInv, Resting
<1>1. CASE PlanReady
  BY <1>1 DEF PlanReady, NoCursor, serverVars, historyVars
<1>2. CASE Published \/ Continue \/ ExecutionRaises \/ PlanFails
  <2>1. CASE Published
    BY <2>1 DEF Published, serverVars, historyVars
  <2>2. CASE Continue
    BY <2>2 DEF Continue, UntouchedInv, serverVars, historyVars
  <2>3. CASE ExecutionRaises \/ PlanFails
    BY <2>3 DEF ExecutionRaises, PlanFails, serverVars
  <2>4. QED
    BY <1>2, <2>1, <2>2, <2>3
<1>3. CASE StatesEnd
  <2>1. cursor.detached /\ pc = "iterating" /\ pc' = "awaiting"
    BY <1>3 DEF StatesEnd
  <2>2. /\ cursor'.detached /\ ~cursor'.inProgress
        /\ cursor'.location = cursor.location
    BY <1>3 DEF StatesEnd, TunerTypes, Cursors
  <2>3. QED
    BY <1>3, <2>1, <2>2 DEF StatesEnd, serverVars, historyVars
<1>4. CASE NextTurn
  BY <1>4 DEF NextTurn, serverVars, historyVars
<1>5. CASE Cancelled \/ InitializationFails
  BY <1>5 DEF Cancelled, InitializationFails, loopVars, serverVars
<1>6. CASE Execution
  <2>0. pc \notin {"planning", "publishing", "waiting"} /\ UNCHANGED loopVars
    <3>1. execution \in {"initializing", "running"} /\ UNCHANGED loopVars
      BY <1>6 DEF Execution, Initialized, SendIntent, MonitorReport, ExecutionEnds
    <3>2. QED
      BY <3>1 DEF UntouchedInv
  <2>1. CASE Initialized
    BY <2>0, <2>1 DEF Initialized, loopVars, historyVars
  <2>2. CASE SendIntent
    BY <2>0, <2>2 DEF SendIntent, loopVars, historyVars, TunerTypes, Cursors
  <2>3. CASE MonitorReport
    BY <2>0, <2>3 DEF MonitorReport, loopVars, serverVars, TunerTypes, Cursors
  <2>4. CASE ExecutionEnds
    BY <2>0, <2>4 DEF ExecutionEnds, loopVars, serverVars, historyVars, TunerTypes, Cursors
  <2>5. QED
    BY <1>6, <2>1, <2>2, <2>3, <2>4 DEF Execution
<1>7. CASE MovementFails
  <2>1. pc \notin {"planning", "publishing", "waiting"}
    BY <1>7 DEF MovementFails, UntouchedInv
  <2>2. QED
    BY <1>7, <2>1 DEF MovementFails, loopVars, serverVars, TunerTypes, Cursors
<1>8. CASE ServerStep
  BY <1>8 DEF ServerStep, loopVars, historyVars
<1>9. CASE RobotMove
  BY <1>9 DEF RobotMove, loopVars, historyVars, TunerTypes
<1>10. CASE UNCHANGED vars
  BY <1>10 DEF vars, loopVars, serverVars, historyVars
<1>11. QED
  BY <1>1, <1>2, <1>3, <1>4, <1>5, <1>6, <1>7, <1>8, <1>9, <1>10, RestOnCommand DEF Next, Tune

LEMMA RestInit == Init => RestInv
BY DEF Init, NoCursor, RestInv, Resting

(***************************************************************************)
(* The cursor of every turn starts where the robot is, unless a command    *)
(* was still on the wire when the turn before ended.                       *)
(***************************************************************************)
THEOREM TurnsStartAtTheRobot == Spec => []ResumesWhereItStopped
<1>1. RestInv => ResumesWhereItStopped
  BY DEF RestInv, ResumesWhereItStopped
<1>2. QED
  BY <1>1, RestInit, RestStep, Types, Untouched, PTL DEF Spec

-------------------------------------------------------------------------------
(* The cursors of the tuner are those TrajectoryCursor implements.         *)

(***************************************************************************)
(* An execution that has not begun leaves the iteration open, one that has *)
(* ended leaves it at its end, and only past the iteration the execution   *)
(* is awaited.  The first cursor is created before anything happens.       *)
(***************************************************************************)
OwnedInv ==
    /\ execution \in {"none", "initializing", "running", "ended", "failed"}
    /\ execution \in {"none", "initializing"} => ~cursor.sentinel
    /\ execution = "ended" => cursor.sentinel
    /\ pc = "awaiting" => cursor.sentinel
    /\ pc = "planning" /\ execution = "none" => cursor = NoCursor /\ startLocation = 0

\* What a command does to the cursor.
LEMMA CommandOnCursor ==
    ASSUME TunerTypes, Command
    PROVE  /\ UNCHANGED <<pc, startLocation, execution>> /\ cursor.exists
           /\ \/ UNCHANGED cursor
              \/ \E intent \in Int \ {NoIntent} :
                    ~cursor.detached /\ cursor' = [cursor EXCEPT !.intent = intent, !.inProgress = TRUE]
              \/ cursor' = [cursor EXCEPT !.detached = TRUE, !.inProgress = FALSE]
<1>1. UNCHANGED <<pc, startLocation, execution>> /\ cursor.exists
  BY DEF Command, CommandForward, CommandBackward, CommandStepForward, CommandStepBackward,
     CommandPause, CommandFinish, MoveTo, Receive
<1>2. ASSUME NEW intent \in Int \ {NoIntent}, cursor' = Operated(intent)
      PROVE  \/ UNCHANGED cursor
             \/ \E i \in Int \ {NoIntent} :
                   ~cursor.detached /\ cursor' = [cursor EXCEPT !.intent = i, !.inProgress = TRUE]
  BY <1>2 DEF Operated
<1>3. ASSUME NEW target, MoveTo(target)
      PROVE  UNCHANGED cursor \/ (target \in Int \ {NoIntent} /\ cursor' = Operated(target))
  BY <1>3, EndAssumption DEF MoveTo, NoIntent
<1>4. CASE CommandPause
  <2>1. Pause \in Int \ {NoIntent}
    BY DEF Pause, NoIntent
  <2>2. UNCHANGED cursor \/ cursor' = Operated(Pause)
    BY <1>4 DEF CommandPause
  <2>3. QED
    BY <1>1, <1>2, <2>1, <2>2
<1>5. CASE CommandFinish
  BY <1>1, <1>5 DEF CommandFinish
<1>6. CASE CommandForward \/ CommandBackward \/ CommandStepForward \/ CommandStepBackward
  <2>1. PICK target : MoveTo(target)
    BY <1>6 DEF CommandForward, CommandBackward, CommandStepForward, CommandStepBackward
  <2>2. QED
    BY <1>1, <1>2, <1>3, <2>1
<1>7. QED
  BY <1>4, <1>5, <1>6 DEF Command

LEMMA OwnedInvStep ==
    ASSUME TunerTypes, UntouchedInv, RestInv, OwnedInv, [Next]_vars
    PROVE  OwnedInv'
<1> USE DEF OwnedInv
<1>1. CASE Command
  <2>1. /\ UNCHANGED <<pc, startLocation, execution>> /\ cursor.exists
        /\ cursor'.sentinel = cursor.sentinel
    BY <1>1, CommandOnCursor DEF TunerTypes, Cursors
  <2>2. QED
    BY <2>1 DEF NoCursor
<1>2. CASE PlanReady
  BY <1>2 DEF PlanReady, NoCursor
<1>3. CASE Published \/ Continue \/ StatesEnd \/ NextTurn \/ ExecutionRaises
  BY <1>3 DEF Published, Continue, StatesEnd, NextTurn, ExecutionRaises, UntouchedInv, TunerTypes,
     Cursors
<1>4. CASE PlanFails \/ Cancelled
  BY <1>4 DEF PlanFails, Cancelled
<1>5. CASE Execution \/ InitializationFails \/ MovementFails
  <2>1. execution \in {"initializing", "running"} /\ UNCHANGED loopVars
    BY <1>5 DEF Execution, Initialized, SendIntent, MonitorReport, ExecutionEnds,
       InitializationFails, MovementFails
  <2>2. /\ execution' \in {execution, "running", "ended", "failed"}
        /\ execution' = "initializing" => UNCHANGED cursor
        /\ cursor.sentinel => cursor'.sentinel
        /\ execution' = "ended" => cursor'.sentinel
    BY <1>5 DEF Execution, Initialized, SendIntent, MonitorReport, ExecutionEnds,
       InitializationFails, MovementFails, TunerTypes, Cursors
  <2>3. QED
    BY <2>1, <2>2 DEF loopVars, UntouchedInv
<1>6. CASE ServerStep \/ RobotMove \/ UNCHANGED vars
  BY <1>6 DEF ServerStep, RobotMove, vars, loopVars
<1>7. QED
  BY <1>1, <1>2, <1>3, <1>4, <1>5, <1>6 DEF Next, Tune

LEMMA NextOwned ==
    ASSUME TunerTypes, UntouchedInv, RestInv, OwnedInv, [Next]_vars
    PROVE  [Owned!CursorNext]_(Owned!cursorVars)
<1> USE DEF Owned!CursorNext, Owned!cursorVars
<1>0. UNCHANGED <<cursor, execution>> => UNCHANGED Owned!cursorVars
  BY DEF ExecutionOfStates
<1>1. CASE Command
  <2>1. CASE UNCHANGED cursor
    BY <1>0, <1>1, <2>1, CommandOnCursor
  <2>2. ASSUME NEW intent \in Int \ {NoIntent}, ~cursor.detached, UNCHANGED execution,
               cursor' = [cursor EXCEPT !.intent = intent, !.inProgress = TRUE]
        PROVE  Owned!Operate
    BY <2>2 DEF Owned!Operate, ExecutionOfStates, TunerTypes, Cursors
  <2>3. ASSUME UNCHANGED execution,
               cursor' = [cursor EXCEPT !.detached = TRUE, !.inProgress = FALSE]
        PROVE  Owned!Detach
    BY <2>3 DEF Owned!Detach, ExecutionOfStates, TunerTypes, Cursors
  <2>4. QED
    BY <1>1, <2>1, <2>2, <2>3, CommandOnCursor
<1>2. CASE PlanReady
  <2>1. /\ pc = "planning" /\ execution' = "none"
        /\ cursor' = [NoCursor EXCEPT !.exists = TRUE, !.location = startLocation]
    BY <1>2 DEF PlanReady
  <2>2. CASE execution = "ended"
    BY <2>1, <2>2 DEF Owned!Renew, Owned!Untouched, ExecutionOfStates, NoCursor
  <2>3. CASE execution = "none"
    <3>1. cursor = NoCursor /\ cursor' = [NoCursor EXCEPT !.exists = TRUE, !.location = 0]
      BY <2>1, <2>3 DEF OwnedInv
    <3>2. /\ cursor'.detached = cursor.detached /\ cursor'.sentinel = cursor.sentinel
          /\ cursor'.inProgress = cursor.inProgress /\ cursor'.intent = cursor.intent
          /\ cursor'.location = cursor.location
      BY <3>1 DEF NoCursor
    <3>3. UNCHANGED ExecutionOfStates
      BY <2>1, <2>3, <3>2 DEF ExecutionOfStates
    <3>4. QED
      BY <3>2, <3>3
  <2>4. QED
    BY <2>1, <2>2, <2>3 DEF UntouchedInv
<1>3. CASE Continue
  BY <1>3 DEF Continue, UntouchedInv, OwnedInv, Owned!Execute, ExecutionOfStates
<1>4. CASE StatesEnd
  BY <1>4 DEF StatesEnd, Owned!Detach, ExecutionOfStates, TunerTypes, Cursors
<1>5. CASE Published \/ NextTurn \/ ExecutionRaises \/ PlanFails
  BY <1>0, <1>5 DEF Published, NextTurn, ExecutionRaises, PlanFails
<1>6. CASE Cancelled
  <2>1. UNCHANGED cursor /\ (UNCHANGED execution \/ pc = "awaiting")
    BY <1>6 DEF Cancelled
  <2>2. QED
    BY <1>0, <2>1 DEF OwnedInv, ExecutionOfStates
<1>7. CASE Initialized \/ InitializationFails
  BY <1>7 DEF Initialized, InitializationFails, OwnedInv, Owned!Begin, Owned!StartFails,
     ExecutionOfStates
<1>8. CASE SendIntent
  BY <1>8 DEF SendIntent, RestInv, Owned!SendIntent, ExecutionOfStates, TunerTypes, Cursors
<1>9. CASE MonitorReport
  <2>1. /\ execution = "running" /\ UNCHANGED execution
        /\ cursor.inProgress /\ ~cursor.detached /\ ~cursor.sentinel
    BY <1>9 DEF MonitorReport, RestInv, TunerTypes, Cursors
  <2>2. CASE robot.mode = "ended"
    BY <1>9, <2>1, <2>2 DEF MonitorReport, Owned!Close, ExecutionOfStates, TunerTypes, Cursors
  <2>3. CASE robot.mode # "ended"
    BY <1>9, <2>1, <2>3 DEF MonitorReport, Owned!Report, ExecutionOfStates, TunerTypes, Cursors
  <2>4. QED
    BY <2>2, <2>3
<1>10. CASE ExecutionEnds
  <2>1. /\ execution = "running" /\ execution' = "ended" /\ cursor.detached /\ ~cursor.inProgress
        /\ cursor' = [cursor EXCEPT !.sentinel = TRUE]
    BY <1>10 DEF ExecutionEnds, RestInv, TunerTypes, Cursors
  <2>2. CASE cursor.sentinel
    BY <2>1, <2>2 DEF ExecutionOfStates, TunerTypes, Cursors
  <2>3. CASE ~cursor.sentinel
    BY <2>1, <2>3 DEF Owned!Close, ExecutionOfStates, TunerTypes, Cursors
  <2>4. QED
    BY <2>2, <2>3
<1>11. CASE MovementFails
  <2>1. ~cursor.sentinel
    BY <1>11 DEF MovementFails, RestInv
  <2>2. QED
    BY <1>11, <2>1 DEF MovementFails, Owned!Close, ExecutionOfStates, TunerTypes, Cursors
<1>12. CASE ServerStep \/ RobotMove \/ UNCHANGED vars
  BY <1>0, <1>12 DEF ServerStep, RobotMove, vars
<1>13. QED
  BY <1>1, <1>2, <1>3, <1>4, <1>5, <1>6, <1>7, <1>8, <1>9, <1>10, <1>11, <1>12
     DEF Next, Tune, Execution

(***************************************************************************)
(* The tuner's cursors, one after the other, are what DetachableCursor     *)
(* describes and TrajectoryCursor implements.                              *)
(***************************************************************************)
THEOREM CursorsAreOwned == Spec => OwnerCanRely
<1>1. Init => OwnedInv /\ Owned!CursorInit
  BY DEF Init, OwnedInv, NoCursor, Owned!CursorInit, Owned!Untouched, ExecutionOfStates
<1>2. QED
  BY <1>1, OwnedInvStep, NextOwned, RestInit, RestStep, Types, Untouched, PTL
     DEF Spec, OwnerCanRely, Owned!CursorSpec

===============================================================================

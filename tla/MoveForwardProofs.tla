--------------------------- MODULE MoveForwardProofs ---------------------------
(***************************************************************************)
(* The default controller and its execution, for a queue of any length and *)
(* every set of faults.                                                    *)
(***************************************************************************)
EXTENDS MoveForward, TLAPS

LEMMA QueueTypes ==
    ASSUME NEW S, NEW queue \in Seq(S)
    PROVE  /\ \A item \in S : Append(queue, item) \in Seq(S)
           /\ queue # <<>> => Tail(queue) \in Seq(S)
OBVIOUS

LEMMA OneItem ==
    ASSUME NEW item
    PROVE  /\ Append(<<>>, item) = <<item>>
           /\ Head(<<item>>) = item /\ Tail(<<item>>) = <<>> /\ <<item>> # <<>>
OBVIOUS

LEMMA ProcessedType ==
    ASSUME NEW state \in MachineStates \ {"error"}, NEW report
    PROVE  Processed(state, report) \in MachineStates \ {"error"}
BY DEF Processed, HandleExecuting, MachineStates

LEMMA MoverType ==
    ASSUME TypeOK, Mover
    PROVE  TypeOK'
<1> USE DEF TypeOK, MoverStates, Outcomes, TaskStates, Over, watchVars, groupVars, wireVars
<1>1. CASE MoverInitialize \/ MoverStart
  <2>1. PICK request \in {"init", "start"} : requests' = Append(requests, request)
    BY <1>1 DEF MoverInitialize, MoverStart
  <2>2. requests' \in Seq({"init", "start"})
    BY <2>1, QueueTypes
  <2>3. QED
    BY <1>1, <2>2 DEF MoverInitialize, MoverStart
<1>2. CASE MoverInitialized
  <2>1. responses' \in Seq(Responses)
    BY <1>2 DEF MoverInitialized
  <2>2. QED
    BY <1>2, <2>1 DEF MoverInitialized, MachineStates
<1>3. CASE MoverStarted
  <2>1. responses' \in Seq(Responses)
    BY <1>3 DEF MoverStarted
  <2>2. QED
    BY <1>3, <2>1 DEF MoverStarted
<1>4. CASE MoverTimeout
  BY <1>4 DEF MoverTimeout
<1>5. CASE MoverWakes
  BY <1>5 DEF MoverWakes, Cancelled, Decide
<1>6. CASE MoverEnds
  BY <1>6 DEF MoverEnds
<1>7. CASE MoverCancelled
  BY <1>7 DEF MoverCancelled, Cancelled
<1>8. QED
  BY <1>1, <1>2, <1>3, <1>4, <1>5, <1>6, <1>7 DEF Mover

LEMMA TaskType ==
    ASSUME TypeOK, Watch \/ Errors \/ WatchBreaks
    PROVE  TypeOK'
<1> USE DEF TypeOK, TaskStates, moverVars, groupVars, wireVars
<1>1. CASE WatchStep
  BY <1>1, ProcessedType DEF WatchStep
<1>2. CASE WatchBreaks
  BY <1>2 DEF WatchBreaks, May
<1>3. CASE WatchCancelled
  BY <1>3 DEF WatchCancelled
<1>4. CASE ErrorsStep
  <2>1. responses' \in Seq(Responses)
    BY <1>4 DEF ErrorsStep
  <2>2. QED
    BY <1>4, <2>1 DEF ErrorsStep, watchVars
<1>5. CASE ErrorsCancelled
  BY <1>5 DEF ErrorsCancelled, watchVars
<1>6. QED
  BY <1>1, <1>2, <1>3, <1>4, <1>5 DEF Watch, Errors

LEMMA GroupType ==
    ASSUME TypeOK, Collector \/ ExecutionEnds \/ Caller \/ CollectorBreaks \/ CallerLeaves
    PROVE  TypeOK'
<1> USE DEF TypeOK, Over, moverVars, watchVars, wireVars
<1>1. CASE CollectorStep
  BY <1>1 DEF CollectorStep
<1>2. CASE ExecutionEnds
  <2>1. states' \in Seq({"state", "sentinel"})
    BY <1>2 DEF ExecutionEnds, SentinelQueued
  <2>2. QED
    BY <1>2, <2>1 DEF ExecutionEnds, AbortedByExecution
<1>3. CASE CallerGets
  <2>1. states' \in Seq({"state", "sentinel"})
    BY <1>3 DEF CallerGets
  <2>2. QED
    BY <1>3, <2>1 DEF CallerGets
<1>4. CASE CollectorCancelled \/ CallerResumes \/ CallerInterrupted \/ CallerEnds
  BY <1>4 DEF CollectorCancelled, CallerResumes, CallerInterrupted, CallerEnds
<1>5. CASE CollectorBreaks \/ CallerLeaves
  BY <1>5 DEF CollectorBreaks, CallerLeaves, May
<1>6. QED
  BY <1>1, <1>2, <1>3, <1>4, <1>5 DEF Collector, Caller

RemoteFault == RobotPausedByUser \/ ServerBreaks \/ WatchFallsSilent

LEMMA RemoteType ==
    ASSUME TypeOK, ServerStep \/ Robot \/ RemoteFault
    PROVE  TypeOK'
<1> USE DEF TypeOK, moverVars, watchVars, groupVars, wireVars, Details, TrajectoryStates,
            EndReports
<1>1. CASE ServerStep
  <2>0. requests # <<>> /\ requests' = Tail(requests)
    BY <1>1 DEF ServerStep
  <2>1. requests' \in Seq({"init", "start"})
    BY <2>0, QueueTypes
  <2>2. PICK response \in Responses : responses' = Append(responses, response)
    BY <1>1 DEF ServerStep, Responses
  <2>3. responses' \in Seq(Responses)
    BY <2>2, QueueTypes
  <2>4. robot' = robot \/ robot' = [details |-> "WaitForIO", standstill |-> TRUE]
    BY <1>1 DEF ServerStep
  <2>5. faults' \subseteq Faults
    BY <1>1 DEF ServerStep, May
  <2>6. UNCHANGED <<moverVars, watchVars, errors, groupVars>>
    BY <1>1 DEF ServerStep
  <2>7. robot' \in [details : Details, standstill : BOOLEAN]
    <3>1. [details |-> "WaitForIO", standstill |-> TRUE]
             \in [details : Details, standstill : BOOLEAN]
      OBVIOUS
    <3>2. QED
      BY <2>4, <3>1, Zenon
  <2>8. QED
    BY <2>1, <2>3, <2>5, <2>6, <2>7
<1>2. CASE Robot \/ RobotPausedByUser
  <2>1. /\ UNCHANGED <<moverVars, watchVars, errors, groupVars, wireVars>>
        /\ faults' \subseteq Faults
    BY <1>2 DEF Robot, RobotMoves, RobotEnds, RobotSettles, RobotPausedByUser, May
  <2>2. robot' \in [details : Details, standstill : BOOLEAN]
    <3>1. CASE RobotMoves
      BY <3>1 DEF RobotMoves
    <3>2. CASE RobotEnds
      BY <3>2 DEF RobotEnds
    <3>3. CASE RobotPausedByUser
      BY <3>3 DEF RobotPausedByUser
    <3>4. CASE RobotSettles
      BY <3>4 DEF RobotSettles
    <3>5. QED
      BY <1>2, <3>1, <3>2, <3>3, <3>4 DEF Robot
  <2>3. QED
    BY <2>1, <2>2
<1>3. CASE ServerBreaks
  <2>1. PICK response \in Responses : responses' = Append(responses, response)
    BY <1>3 DEF ServerBreaks, Responses
  <2>2. responses' \in Seq(Responses)
    BY <2>1, QueueTypes
  <2>3. QED
    BY <1>3, <2>2 DEF ServerBreaks, May
<1>4. CASE WatchFallsSilent
  BY <1>4 DEF WatchFallsSilent, May
<1>5. QED
  BY <1>1, <1>2, <1>3, <1>4 DEF RemoteFault

LEMMA StepType ==
    ASSUME TypeOK, [Next]_vars
    PROVE  TypeOK'
<1>1. CASE UNCHANGED vars
  BY <1>1 DEF TypeOK, vars, moverVars, watchVars, groupVars, wireVars
<1>2. QED
  BY <1>1, MoverType, TaskType, GroupType, RemoteType DEF Next, Fault, RemoteFault

LEMMA InitType == Init => TypeOK
<1> SUFFICES ASSUME Init PROVE TypeOK
  OBVIOUS
<1>1. seen \in BOOLEAN /\ watchLost \in BOOLEAN /\ aborted \in BOOLEAN
  BY Zenon DEF Init
<1>2. robot \in [details : Details, standstill : BOOLEAN]
  BY DEF Init, Details
<1>3. QED
  BY <1>1, <1>2 DEF Init, TypeOK, MoverStates, Outcomes, TaskStates, MachineStates, Over

(***************************************************************************)
(* Every variable keeps to its values; the machine never gets to its error *)
(* state.                                                                  *)
(***************************************************************************)
THEOREM TypeCorrect == Spec => []TypeOK
BY InitType, StepType, PTL DEF Spec

-------------------------------------------------------------------------------

(***************************************************************************)
(* How the end of the controller passes the group to the caller.  While    *)
(* the group holds, an execution that is over completed: a failure would   *)
(* have shut the group down, and so would whatever cancelled it.           *)
(***************************************************************************)
EndInv ==
    /\ execution = "done" => mover \in Over
    /\ execution = "done" /\ ~aborted => outcome = "completed"
    /\ outcome = "cancelled" => aborted
    /\ mover = "returned" => outcome = "completed"
    /\ caller \in Over => execution = "done" /\ collector = "done"
    /\ caller = "returned" => outcome = "completed"

(***************************************************************************)
(* The error consumer runs only while the mover waits, and a mover that    *)
(* got past that wait is over only with both of its tasks.                 *)
(***************************************************************************)
MoverTasksInv ==
    /\ errors = "running" => mover = "waiting"
    /\ mover \in Over /\ outcome \in {"completed", "movement_error"} =>
          watch = "done" /\ errors = "done"

(***************************************************************************)
(* One request is on its way at most, and the robot has no part in the     *)
(* execution until the start has been answered.                            *)
(***************************************************************************)
WireInv ==
    /\ requests \in {<<>>, <<"init">>, <<"start">>}
    /\ mover \in {"created", "starting"} => requests = <<>>
    /\ mover = "created" => responses = <<>>
    /\ mover = "initializing" =>
          \/ requests = <<"init">> /\ responses = <<>>
          \/ requests = <<>>
    /\ requests # <<>> \/ mover \in {"created", "initializing", "starting"} =>
          robot = [details |-> "none", standstill |-> TRUE]

(***************************************************************************)
(* What the machine of the watch tells of the robot: it is "ending" and    *)
(* "ended" only after a report of the end, and the robot does not leave a  *)
(* reported end again.  A watch nobody cancelled is over only because the  *)
(* machine has ended or its stream has.                                    *)
(***************************************************************************)
WatchInv ==
    /\ watch = "running" => machine # "ended"
    /\ machine = "ending" => robot.details \in EndReports
    /\ machine = "ended" => robot.details \in EndReports /\ robot.standstill
    /\ mover \in {"created", "initializing"} => machine = "idle"
    /\ mover \in {"starting", "sent", "waiting"} =>
          watch = "running" \/ (watch = "done" /\ (watchLost \/ machine = "ended"))
    /\ mover \in {"sent", "waiting"} => seen
    /\ outcome = "completed" =>
          /\ mover \in {"cleaning"} \cup Over
          /\ watch = "done"
          /\ watchLost \/ machine = "ended"

IInv == TypeOK /\ EndInv /\ MoverTasksInv /\ WireInv /\ WatchInv

LEMMA EndStep ==
    ASSUME IInv, [Next]_vars
    PROVE  EndInv'
<1> USE DEF IInv, EndInv, Over, moverVars, watchVars, groupVars, wireVars
<1>1. CASE Mover
  <2>1. UNCHANGED groupVars
    BY <1>1 DEF Mover, MoverInitialize, MoverInitialized, MoverStart, MoverTimeout,
       MoverStarted, MoverWakes, MoverEnds, MoverCancelled
  <2>2. mover \notin Over
    BY <1>1 DEF Mover, MoverInitialize, MoverInitialized, MoverStart, MoverTimeout,
       MoverStarted, MoverWakes, MoverEnds, MoverCancelled
  <2>3. outcome' = "cancelled" => aborted
    BY <1>1 DEF Mover, MoverInitialize, MoverInitialized, MoverStart, MoverTimeout,
       MoverStarted, MoverWakes, MoverEnds, MoverCancelled, Decide
  <2>4. mover' = "returned" => outcome' = "completed"
    BY <1>1 DEF Mover, MoverInitialize, MoverInitialized, MoverStart, MoverTimeout,
       MoverStarted, MoverWakes, MoverEnds, MoverCancelled
  <2>5. QED
    BY <2>1, <2>2, <2>3, <2>4
<1>2. CASE ExecutionEnds
  BY <1>2 DEF ExecutionEnds, AbortedByExecution, TypeOK, MoverStates
<1>3. CASE CallerEnds
  BY <1>3 DEF CallerEnds
<1>4. CASE \/ CollectorStep \/ CollectorCancelled \/ CallerGets \/ CallerResumes
           \/ CallerInterrupted
  BY <1>4 DEF CollectorStep, CollectorCancelled, CallerGets, CallerResumes, CallerInterrupted
<1>5. CASE CollectorBreaks \/ CallerLeaves
  BY <1>5 DEF CollectorBreaks, CallerLeaves, May
<1>6. CASE Watch \/ Errors \/ WatchBreaks \/ ServerStep \/ Robot \/ RemoteFault
           \/ UNCHANGED vars
  <2>1. UNCHANGED <<moverVars, groupVars>>
    BY <1>6 DEF Watch, WatchStep, WatchCancelled, Errors, ErrorsStep, ErrorsCancelled,
       WatchBreaks, ServerStep, Robot, RobotMoves, RobotEnds, RobotSettles, RemoteFault,
       RobotPausedByUser, ServerBreaks, WatchFallsSilent, vars
  <2>2. QED
    BY <2>1
<1>7. QED
  BY <1>1, <1>2, <1>3, <1>4, <1>5, <1>6 DEF Next, Collector, Caller, Fault, RemoteFault

LEMMA MoverTasksStep ==
    ASSUME IInv, [Next]_vars
    PROVE  MoverTasksInv'
<1> USE DEF IInv, MoverTasksInv, TypeOK, TaskStates, Over, moverVars, watchVars, groupVars,
            wireVars
<1>1. CASE MoverInitialize \/ MoverInitialized \/ MoverStart \/ MoverTimeout \/ MoverStarted
  BY <1>1 DEF MoverInitialize, MoverInitialized, MoverStart, MoverTimeout, MoverStarted
<1>2. CASE MoverWakes \/ MoverCancelled
  BY <1>2 DEF MoverWakes, MoverCancelled, Cancelled
<1>3. CASE MoverEnds
  BY <1>3 DEF MoverEnds, TasksFinished
<1>4. CASE Watch \/ WatchBreaks
  BY <1>4 DEF Watch, WatchStep, WatchCancelled, WatchBreaks
<1>5. CASE Errors
  BY <1>5 DEF Errors, ErrorsStep, ErrorsCancelled
<1>6. CASE Collector \/ ExecutionEnds \/ Caller \/ CollectorBreaks \/ CallerLeaves
           \/ ServerStep \/ Robot \/ RemoteFault \/ UNCHANGED vars
  <2>1. UNCHANGED <<moverVars, watch, errors>>
    BY <1>6 DEF Collector, CollectorStep, CollectorCancelled, ExecutionEnds, Caller,
       CallerGets, CallerResumes, CallerInterrupted, CallerEnds, CollectorBreaks,
       CallerLeaves, ServerStep, Robot, RobotMoves, RobotEnds, RobotSettles, RemoteFault,
       RobotPausedByUser, ServerBreaks, WatchFallsSilent, vars
  <2>2. QED
    BY <2>1
<1>7. QED
  BY <1>1, <1>2, <1>3, <1>4, <1>5, <1>6 DEF Next, Mover, Fault, RemoteFault

LEMMA WireStep ==
    ASSUME IInv, [Next]_vars
    PROVE  WireInv'
<1> USE DEF IInv, WireInv, Over, moverVars, watchVars, groupVars, wireVars
<1>1. CASE MoverInitialize
  BY <1>1, OneItem DEF MoverInitialize
<1>2. CASE MoverInitialized
  BY <1>2 DEF MoverInitialized
<1>3. CASE MoverStart
  BY <1>3, OneItem DEF MoverStart
<1>4. CASE MoverTimeout \/ MoverWakes \/ MoverEnds \/ MoverCancelled
  <2>1. UNCHANGED <<wireVars, robot>>
    BY <1>4 DEF MoverTimeout, MoverWakes, MoverEnds, MoverCancelled
  <2>2. mover' \in {"cleaning"} \cup Over
    BY <1>4 DEF MoverTimeout, MoverWakes, MoverEnds, MoverCancelled
  <2>3. QED
    BY <2>1, <2>2
<1>5. CASE MoverStarted
  BY <1>5 DEF MoverStarted
<1>6. CASE ServerStep
  <2>1. requests' = <<>> /\ UNCHANGED mover
    BY <1>6, OneItem DEF ServerStep
  <2>2. ASSUME mover \in {"created", "initializing", "starting"}
        PROVE  robot' = [details |-> "none", standstill |-> TRUE]
    <3>1. requests = <<"init">>
      BY <1>6, <2>2 DEF ServerStep
    <3>2. Head(requests) = "init"
      BY <3>1, OneItem
    <3>3. UNCHANGED robot
      BY <1>6, <3>2 DEF ServerStep
    <3>4. robot = [details |-> "none", standstill |-> TRUE]
      BY <2>2
    <3>5. QED
      BY <3>3, <3>4, Zenon
  <2>3. mover' \in {"created", "initializing", "starting"} =>
           robot' = [details |-> "none", standstill |-> TRUE]
    BY <2>1, <2>2
  <2>4. mover' # "created"
    BY <1>6, <2>1 DEF ServerStep
  <2>5. QED
    BY <2>1, <2>3, <2>4
<1>7. CASE Robot \/ RobotPausedByUser
  <2>1. robot.details # "none"
    BY <1>7 DEF Robot, RobotMoves, RobotEnds, RobotSettles, RobotPausedByUser, EndReports
  <2>2. UNCHANGED <<mover, requests, responses>>
    BY <1>7 DEF Robot, RobotMoves, RobotEnds, RobotSettles, RobotPausedByUser
  <2>3. QED
    BY <2>1, <2>2
<1>8. CASE ServerBreaks
  BY <1>8 DEF ServerBreaks
<1>9. CASE ErrorsStep
  BY <1>9 DEF ErrorsStep, MoverTasksInv
<1>10. CASE \/ Watch \/ WatchBreaks \/ ErrorsCancelled \/ Collector \/ ExecutionEnds \/ Caller
            \/ CollectorBreaks \/ CallerLeaves \/ WatchFallsSilent \/ UNCHANGED vars
  <2>1. UNCHANGED <<mover, wireVars, robot>>
    BY <1>10 DEF Watch, WatchStep, WatchCancelled, WatchBreaks, ErrorsCancelled, Collector,
       CollectorStep, CollectorCancelled, ExecutionEnds, Caller, CallerGets, CallerResumes,
       CallerInterrupted, CallerEnds, CollectorBreaks, CallerLeaves, WatchFallsSilent, vars
  <2>2. QED
    BY <2>1
<1>11. QED
  BY <1>1, <1>2, <1>3, <1>4, <1>5, <1>6, <1>7, <1>8, <1>9, <1>10
     DEF Next, Mover, Errors, Fault

LEMMA WatchInvStep ==
    ASSUME IInv, [Next]_vars
    PROVE  WatchInv'
<1> USE DEF IInv, WatchInv, Over, moverVars, watchVars, groupVars, wireVars
<1>1. CASE MoverInitialize \/ MoverTimeout \/ MoverEnds
  BY <1>1 DEF MoverInitialize, MoverTimeout, MoverEnds
<1>2. CASE MoverInitialized
  BY <1>2 DEF MoverInitialized
<1>3. CASE MoverStart \/ MoverStarted
  BY <1>3 DEF MoverStart, MoverStarted, StreamStarted
<1>4. CASE MoverWakes
  BY <1>4 DEF MoverWakes, Cancelled, Decide
<1>5. CASE MoverCancelled
  BY <1>5 DEF MoverCancelled, Cancelled
<1>6. CASE WatchStep
  <2>1. machine' = "ending" => robot.details \in EndReports
    BY <1>6 DEF WatchStep, Processed, HandleExecuting
  <2>2. machine' = "ended" => robot.details \in EndReports /\ robot.standstill
    BY <1>6 DEF WatchStep, Processed, HandleExecuting
  <2>3. mover \in {"created", "initializing"} => machine' = "idle"
    BY <1>6 DEF WatchStep, WireInv, HasExecute
  <2>4. UNCHANGED <<mover, outcome, robot, watchLost>> /\ seen'
    BY <1>6, Zenon DEF WatchStep
  <2>5. outcome # "completed"
    BY <1>6 DEF WatchStep
  <2>6. watch' = IF machine' = "ended" THEN "done" ELSE "running"
    BY <1>6 DEF WatchStep
  <2>7. QED
    BY <2>1, <2>2, <2>3, <2>4, <2>5, <2>6
<1>7. CASE WatchBreaks
  BY <1>7 DEF WatchBreaks
<1>8. CASE WatchCancelled
  BY <1>8 DEF WatchCancelled
<1>9. CASE ServerStep
  <2>1. machine \notin {"ending", "ended"} \/ UNCHANGED robot
    BY <1>9 DEF ServerStep, WireInv, EndReports
  <2>2. UNCHANGED <<moverVars, watchVars>>
    BY <1>9 DEF ServerStep
  <2>3. QED
    BY <2>1, <2>2
<1>10. CASE Robot \/ RobotPausedByUser
  <2>1. UNCHANGED <<moverVars, watchVars>>
    BY <1>10 DEF Robot, RobotMoves, RobotEnds, RobotSettles, RobotPausedByUser
  <2>2. machine = "ending" => robot'.details \in EndReports
    BY <1>10 DEF Robot, RobotMoves, RobotEnds, RobotSettles, RobotPausedByUser, EndReports,
       TypeOK
  <2>3. machine # "ended"
    BY <1>10 DEF Robot, RobotMoves, RobotEnds, RobotSettles, RobotPausedByUser, EndReports
  <2>4. QED
    BY <2>1, <2>2, <2>3
<1>11. CASE \/ Errors \/ Collector \/ ExecutionEnds \/ Caller \/ CollectorBreaks
            \/ CallerLeaves \/ WatchFallsSilent \/ ServerBreaks \/ UNCHANGED vars
  <2>1. UNCHANGED <<moverVars, watchVars, robot>>
    BY <1>11 DEF Errors, ErrorsStep, ErrorsCancelled, Collector, CollectorStep,
       CollectorCancelled, ExecutionEnds, Caller, CallerGets, CallerResumes,
       CallerInterrupted, CallerEnds, CollectorBreaks, CallerLeaves, WatchFallsSilent,
       ServerBreaks, vars
  <2>2. QED
    BY <2>1
<1>12. QED
  BY <1>1, <1>2, <1>3, <1>4, <1>5, <1>6, <1>7, <1>8, <1>9, <1>10, <1>11
     DEF Next, Mover, Watch, Fault

LEMMA InitInv == Init => IInv
<1> SUFFICES ASSUME Init PROVE IInv
  OBVIOUS
<1>1. WireInv
  BY DEF Init, WireInv
<1>2. EndInv /\ MoverTasksInv /\ WatchInv
  BY DEF Init, EndInv, MoverTasksInv, WatchInv, Over
<1>3. QED
  BY <1>1, <1>2, InitType DEF IInv

(***************************************************************************)
(* The inductive invariant: types, the passing of the end, the mover's     *)
(* tasks, the wire and what the watch knows of the robot.                  *)
(***************************************************************************)
THEOREM Invariant == Spec => []IInv
<1>1. IInv /\ [Next]_vars => IInv'
  BY StepType, EndStep, MoverTasksStep, WireStep, WatchInvStep DEF IInv
<1>2. QED
  BY <1>1, InitInv, PTL DEF Spec

(***************************************************************************)
(* No failure is swallowed between the generator and the caller: an        *)
(* iteration without an exception completed (motion_group.py:1014-1036).   *)
(***************************************************************************)
THEOREM FailuresReachTheCaller == Spec => []NormalEndMeansCompleted
<1>1. IInv => NormalEndMeansCompleted
  BY DEF IInv, EndInv, NormalEndMeansCompleted
<1>2. QED
  BY <1>1, Invariant, PTL

(***************************************************************************)
(* No task of an execution outlives it, except the watch of a mover that   *)
(* raised before its wait (move_forward.py:160-170).                       *)
(***************************************************************************)
THEOREM ExecutionLeavesNothing == Spec => []NothingOutlives
<1>1. IInv => NothingOutlives
  BY DEF IInv, EndInv, MoverTasksInv, NothingOutlives, Over
<1>2. QED
  BY <1>1, Invariant, PTL

(***************************************************************************)
(* The robot moves only under a watch that receives states and goes on     *)
(* until it stands still (move_forward.py:88-104).                         *)
(***************************************************************************)
THEOREM NothingMovesUnwatched == Spec => []MovementIsWatched
<1>1. IInv => MovementIsWatched
  BY DEF IInv, WatchInv, MovementIsWatched
<1>2. QED
  BY <1>1, Invariant, PTL

(***************************************************************************)
(* Completion of a watch whose stream held means a reported end and        *)
(* standstill (move_forward.py:44-50).                                     *)
(***************************************************************************)
THEOREM CompletionAtTheEnd == Spec => []CompletedAtTheEnd
<1>1. IInv => CompletedAtTheEnd
  BY DEF IInv, WatchInv, CompletedAtTheEnd
<1>2. QED
  BY <1>1, Invariant, PTL

-------------------------------------------------------------------------------
(* The end of the wait. *)

(***************************************************************************)
(* What the wait can rely on besides: both of its tasks exist, no watch    *)
(* falls silent after its first state, a lost stream is a finished watch,  *)
(* and a pause by the user is the last the robot reports.                  *)
(***************************************************************************)
WaitInv ==
    /\ mover \in {"created", "initializing"} => watch = "none"
    /\ mover \in {"waiting", "cleaning"} => errors # "none" /\ watch # "none"
    /\ mover = "cleaning" => watch # "running" /\ errors # "running"
    /\ seen => ~WatchIsSilent
    /\ watchLost => watch = "done"
    /\ watch = "running" => machine # "idle"
    /\ machine \in {"pausing", "paused"} => robot.details = "PausedByUser"

LEMMA WaitInvStep ==
    ASSUME IInv, WaitInv, [Next]_vars
    PROVE  WaitInv'
<1> USE DEF IInv, WaitInv, moverVars, watchVars, groupVars, wireVars
<1>1. CASE MoverInitialize \/ MoverStart \/ MoverTimeout \/ MoverEnds
  <2>1. UNCHANGED <<seen, machine, watchLost, errors, robot, faults>>
    BY <1>1 DEF MoverInitialize, MoverStart, MoverTimeout, MoverEnds
  <2>2. /\ watch' = watch \/ (watch = "running" /\ watch' = "cancelling")
        /\ mover' = "initializing" => mover = "created" /\ UNCHANGED watch
        /\ mover' \notin {"created", "waiting", "cleaning"}
    BY <1>1 DEF MoverInitialize, MoverStart, MoverTimeout, MoverEnds
  <2>3. QED
    BY <2>1, <2>2, Zenon DEF WatchIsSilent
<1>2. CASE MoverInitialized
  BY <1>2 DEF MoverInitialized, WatchIsSilent, WatchInv
<1>3. CASE MoverStarted
  BY <1>3 DEF MoverStarted, WatchIsSilent, WatchInv
<1>4. CASE MoverWakes \/ MoverCancelled
  <2>1. UNCHANGED <<seen, machine, watchLost, robot, faults>>
    BY <1>4 DEF MoverWakes, MoverCancelled
  <2>2. mover' = "cleaning" => watch' = Cancelled(watch) /\ errors' = Cancelled(errors)
                               /\ mover \in {"waiting", "cleaning"}
    BY <1>4 DEF MoverWakes, MoverCancelled
  <2>3. mover' # "cleaning" => UNCHANGED <<watch, errors>> /\ mover' = "raised"
    BY <1>4 DEF MoverWakes, MoverCancelled
  <2>4. QED
    BY <2>1, <2>2, <2>3 DEF Cancelled, WatchIsSilent
<1>5. CASE Watch
  <2>1. CASE WatchStep
    <3>1. machine' = "idle" => FALSE
      BY <2>1 DEF WatchStep, Processed, HandleExecuting
    <3>2. machine' \in {"pausing", "paused"} => robot.details = "PausedByUser"
      BY <2>1 DEF WatchStep, Processed, HandleExecuting, EndReports
    <3>3. /\ UNCHANGED <<mover, watchLost, errors, robot, faults>>
          /\ watch = "running" /\ watch' \in {"running", "done"} /\ ~WatchIsSilent
      BY <2>1 DEF WatchStep
    <3>4. QED
      BY <3>1, <3>2, <3>3 DEF WatchIsSilent
  <2>2. CASE WatchCancelled
    BY <2>2 DEF WatchCancelled, WatchIsSilent
  <2>3. QED
    BY <1>5, <2>1, <2>2 DEF Watch
<1>6. CASE WatchBreaks
  BY <1>6 DEF WatchBreaks, May, WatchIsSilent
<1>7. CASE Errors
  BY <1>7 DEF Errors, ErrorsStep, ErrorsCancelled, WatchIsSilent
<1>8. CASE ServerStep
  <2>1. machine \in {"pausing", "paused"} => FALSE
    BY <1>8 DEF ServerStep, WireInv
  <2>2. WatchIsSilent' = WatchIsSilent
    BY <1>8 DEF ServerStep, May, WatchIsSilent
  <2>3. UNCHANGED <<mover, watchVars, errors>>
    BY <1>8 DEF ServerStep
  <2>4. QED
    BY <2>1, <2>2, <2>3
<1>9. CASE Robot \/ RobotPausedByUser
  <2>1. robot.details = "PausedByUser" => robot'.details = "PausedByUser"
    BY <1>9 DEF Robot, RobotMoves, RobotEnds, RobotSettles, RobotPausedByUser, TypeOK
  <2>2. WatchIsSilent' = WatchIsSilent
    BY <1>9 DEF Robot, RobotMoves, RobotEnds, RobotSettles, RobotPausedByUser, May,
       WatchIsSilent
  <2>3. UNCHANGED <<mover, watchVars, errors>>
    BY <1>9 DEF Robot, RobotMoves, RobotEnds, RobotSettles, RobotPausedByUser
  <2>4. QED
    BY <2>1, <2>2, <2>3
<1>10. CASE WatchFallsSilent
  BY <1>10 DEF WatchFallsSilent
<1>11. CASE \/ Collector \/ ExecutionEnds \/ Caller \/ CollectorBreaks \/ CallerLeaves
            \/ ServerBreaks \/ UNCHANGED vars
  <2>1. UNCHANGED <<mover, watchVars, errors, robot>>
    BY <1>11 DEF Collector, CollectorStep, CollectorCancelled, ExecutionEnds, Caller,
       CallerGets, CallerResumes, CallerInterrupted, CallerEnds, CollectorBreaks,
       CallerLeaves, ServerBreaks, vars
  <2>2. WatchIsSilent' = WatchIsSilent
    BY <1>11 DEF Collector, CollectorStep, CollectorCancelled, ExecutionEnds, Caller,
       CallerGets, CallerResumes, CallerInterrupted, CallerEnds, CollectorBreaks,
       CallerLeaves, ServerBreaks, vars, May, WatchIsSilent
  <2>3. QED
    BY <2>1, <2>2
<1>12. QED
  BY <1>1, <1>2, <1>3, <1>4, <1>5, <1>6, <1>7, <1>8, <1>9, <1>10, <1>11
     DEF Next, Mover, Fault

\* Where the mover can go from its wait, and what does not change meanwhile.
LEMMA WhileWaiting ==
    ASSUME IInv, [Next]_vars, mover = "waiting"
    PROVE  \/ mover' = "cleaning"
           \/ /\ mover' = "waiting"
              /\ watch' \in {watch, "done"}
              /\ \/ errors' = "done"
                 \/ errors' = errors /\ (responses # <<>> => responses' # <<>>)
              /\ robot.details \in EndReports =>
                    robot'.details \in EndReports /\ (robot.standstill => robot'.standstill)
<1> USE DEF moverVars, watchVars, groupVars, wireVars
<1>1. CASE Mover
  BY <1>1 DEF Mover, MoverInitialize, MoverInitialized, MoverStart, MoverTimeout,
     MoverStarted, MoverWakes, MoverEnds, MoverCancelled
<1>2. CASE Watch \/ WatchBreaks
  BY <1>2 DEF Watch, WatchStep, WatchCancelled, WatchBreaks
<1>3. CASE Errors
  BY <1>3 DEF Errors, ErrorsStep, ErrorsCancelled
<1>4. CASE ServerStep
  <2>1. UNCHANGED <<mover, watch, errors>> /\ responses' # <<>>
    <3>1. \E response : responses' = Append(responses, response)
      BY <1>4 DEF ServerStep
    <3>2. responses \in Seq(Responses)
      BY DEF IInv, TypeOK
    <3>3. QED
      BY <1>4, <3>1, <3>2 DEF ServerStep
  <2>2. robot.details \notin EndReports
    BY <1>4 DEF ServerStep, IInv, WireInv, EndReports
  <2>3. QED
    BY <2>1, <2>2
<1>5. CASE ServerBreaks
  <2>1. responses' # <<>>
    <3>1. \E response : responses' = Append(responses, response)
      BY <1>5 DEF ServerBreaks
    <3>2. responses \in Seq(Responses)
      BY DEF IInv, TypeOK
    <3>3. QED
      BY <3>1, <3>2
  <2>2. QED
    BY <1>5, <2>1 DEF ServerBreaks
<1>6. CASE Robot \/ RobotPausedByUser
  <2>1. UNCHANGED <<mover, watch, errors, responses>>
    BY <1>6 DEF Robot, RobotMoves, RobotEnds, RobotSettles, RobotPausedByUser
  <2>2. robot.details \in EndReports =>
           robot'.details \in EndReports /\ (robot.standstill => robot'.standstill)
    BY <1>6 DEF Robot, RobotMoves, RobotEnds, RobotSettles, RobotPausedByUser, EndReports,
       IInv, TypeOK
  <2>3. QED
    BY <2>1, <2>2
<1>7. CASE \/ Collector \/ ExecutionEnds \/ Caller \/ CollectorBreaks \/ CallerLeaves
           \/ WatchFallsSilent \/ UNCHANGED vars
  <2>1. UNCHANGED <<mover, watch, errors, responses, robot>>
    BY <1>7 DEF Collector, CollectorStep, CollectorCancelled, ExecutionEnds, Caller,
       CallerGets, CallerResumes, CallerInterrupted, CallerEnds, CollectorBreaks,
       CallerLeaves, WatchFallsSilent, vars
  <2>2. QED
    BY <2>1
<1>8. QED
  BY <1>1, <1>2, <1>3, <1>4, <1>5, <1>6, <1>7 DEF Next, Fault

\* The same of its finally block.
LEMMA WhileCleaning ==
    ASSUME WaitInv, [Next]_vars, mover = "cleaning"
    PROVE  \/ mover' \in Over
           \/ /\ mover' = "cleaning"
              /\ watch' \in {watch, "done"} /\ errors' \in {errors, "done"}
              /\ outcome' \in {outcome, "cancelled"}
<1> USE DEF moverVars, watchVars, groupVars, wireVars
<1>1. CASE Mover
  BY <1>1 DEF Mover, MoverInitialize, MoverInitialized, MoverStart, MoverTimeout,
     MoverStarted, MoverWakes, MoverEnds, MoverCancelled, Cancelled, WaitInv, Over
<1>2. CASE Watch \/ WatchBreaks
  BY <1>2 DEF Watch, WatchStep, WatchCancelled, WatchBreaks, WaitInv
<1>3. CASE Errors
  BY <1>3 DEF Errors, ErrorsStep, ErrorsCancelled
<1>4. CASE \/ Collector \/ ExecutionEnds \/ Caller \/ CollectorBreaks \/ CallerLeaves
           \/ ServerStep \/ Robot \/ RemoteFault \/ UNCHANGED vars
  <2>1. UNCHANGED <<moverVars, watch, errors>>
    BY <1>4 DEF Collector, CollectorStep, CollectorCancelled, ExecutionEnds, Caller,
       CallerGets, CallerResumes, CallerInterrupted, CallerEnds, CollectorBreaks,
       CallerLeaves, ServerStep, Robot, RobotMoves, RobotEnds, RobotSettles, RemoteFault,
       RobotPausedByUser, ServerBreaks, WatchFallsSilent, vars
  <2>2. QED
    BY <2>1
<1>5. QED
  BY <1>1, <1>2, <1>3, <1>4 DEF Next, Fault, RemoteFault

WaitIInv == IInv /\ WaitInv

LEMMA WaitInvariant == Spec => []WaitIInv
<1>1. Init => WaitInv
  BY DEF Init, WaitInv, WatchIsSilent
<1>2. WaitIInv /\ [Next]_vars => WaitIInv'
  <2>1. IInv /\ [Next]_vars => IInv'
    BY StepType, EndStep, MoverTasksStep, WireStep, WatchInvStep DEF IInv
  <2>2. QED
    BY <2>1, WaitInvStep DEF WaitIInv
<1>3. QED
  BY <1>1, <1>2, InitInv, PTL DEF Spec, WaitIInv

\* Where a wait stands that is going to end.
Settling == mover = "waiting" /\ robot.details \in EndReports /\ ~robot.standstill

Settled == mover = "waiting" /\ robot.details \in EndReports /\ robot.standstill

Answered == /\ mover = "waiting"
            /\ (errors = "running" /\ responses # <<>>) \/ errors = "cancelling"

Woken == mover = "waiting" /\ FirstCompleted

Cleaning(watchDone, errorsDone) ==
    /\ mover = "cleaning"
    /\ watchDone => watch = "done"
    /\ errorsDone => errors = "done"

Interrupted == outcome = "cancelled"

MoverIsOver == mover \in Over

\* A settled end is reported to a watch that is running.
LEMMA SettledIsReported == WaitIInv /\ Settled => EndIsReported \/ Woken
BY DEF WaitIInv, IInv, TypeOK, MachineStates, WatchInv, WaitInv, Settled, EndIsReported, Woken,
   FirstCompleted, EndReports

\* One step of a wait that is going to end: it does not fall back, and the step that
\* fairness grants takes it on.
LEMMA WaitingSteps ==
    /\ WaitIInv /\ Settling /\ [Next]_vars =>
          Settling' \/ Settled' \/ Cleaning(FALSE, FALSE)'
    /\ WaitIInv /\ Settling /\ <<RobotSettles>>_vars => Settled'
    /\ WaitIInv /\ Settled /\ [Next]_vars => Settled' \/ Cleaning(FALSE, FALSE)'
    /\ WaitIInv /\ Settled /\ ~Woken /\ <<Watch>>_vars => Woken'
    /\ WaitIInv /\ Answered /\ [Next]_vars => Answered' \/ Woken' \/ Cleaning(FALSE, FALSE)'
    /\ WaitIInv /\ Answered /\ <<Errors>>_vars => Woken'
    /\ WaitIInv /\ Woken /\ [Next]_vars => Woken' \/ Cleaning(FALSE, FALSE)'
    /\ WaitIInv /\ Woken /\ <<Mover>>_vars => Cleaning(FALSE, FALSE)'
<1> USE DEF Settling, Settled, Answered, Woken, Cleaning, FirstCompleted
<1>1. WaitIInv /\ Settling /\ [Next]_vars =>
         Settling' \/ Settled' \/ Cleaning(FALSE, FALSE)'
  BY WhileWaiting DEF WaitIInv
<1>2. WaitIInv /\ Settling /\ <<RobotSettles>>_vars => Settled'
  BY DEF RobotSettles, moverVars, WaitIInv, IInv, TypeOK
<1>3. WaitIInv /\ Settled /\ [Next]_vars => Settled' \/ Cleaning(FALSE, FALSE)'
  BY WhileWaiting DEF WaitIInv
<1>4. WaitIInv /\ Settled /\ ~Woken /\ <<Watch>>_vars => Woken'
  <2> SUFFICES ASSUME WaitIInv, Settled, ~Woken, Watch PROVE Woken'
    OBVIOUS
  <2>1. EndIsReported
    BY SettledIsReported
  <2>2. WatchStep
    BY <2>1 DEF Watch, WatchCancelled, EndIsReported
  <2>3. machine' = "ended"
    BY <2>1, <2>2 DEF WatchStep, EndIsReported, HasExecute, Processed, HandleExecuting,
       IsTrajectory, TrajectoryStates, EndReports
  <2>4. QED
    BY <2>2, <2>3 DEF WatchStep, moverVars
<1>5. WaitIInv /\ Answered /\ [Next]_vars =>
         Answered' \/ Woken' \/ Cleaning(FALSE, FALSE)'
  BY WhileWaiting DEF WaitIInv
<1>6. WaitIInv /\ Answered /\ <<Errors>>_vars => Woken'
  BY DEF Errors, ErrorsStep, ErrorsCancelled, moverVars
<1>7. WaitIInv /\ Woken /\ [Next]_vars => Woken' \/ Cleaning(FALSE, FALSE)'
  BY WhileWaiting DEF WaitIInv
<1>8. WaitIInv /\ Woken /\ <<Mover>>_vars => Cleaning(FALSE, FALSE)'
  BY DEF Mover, MoverInitialize, MoverInitialized, MoverStart, MoverTimeout,
     MoverStarted, MoverWakes, MoverEnds, MoverCancelled
<1>9. QED
  BY <1>1, <1>2, <1>3, <1>4, <1>5, <1>6, <1>7, <1>8

\* The same of the finally block: both tasks first, then the end, which a cancellation
\* delays by one step.
LEMMA CleaningSteps ==
    /\ WaitIInv /\ [Next]_vars /\ Cleaning(FALSE, FALSE) =>
          Cleaning(FALSE, FALSE)' \/ MoverIsOver'
    /\ WaitIInv /\ [Next]_vars /\ Cleaning(TRUE, FALSE) =>
          Cleaning(TRUE, FALSE)' \/ MoverIsOver'
    /\ WaitIInv /\ [Next]_vars /\ Cleaning(TRUE, TRUE) =>
          Cleaning(TRUE, TRUE)' \/ MoverIsOver'
    /\ WaitIInv /\ Cleaning(FALSE, FALSE) /\ ~Cleaning(TRUE, FALSE) => watch = "cancelling"
    /\ WaitIInv /\ Cleaning(TRUE, FALSE) /\ ~Cleaning(TRUE, TRUE) => errors = "cancelling"
    /\ Cleaning(TRUE, TRUE) => MoverIsReady
    /\ WaitIInv /\ Cleaning(FALSE, FALSE) /\ ~Cleaning(TRUE, FALSE) /\ <<Watch>>_vars =>
          Cleaning(TRUE, FALSE)'
    /\ WaitIInv /\ Cleaning(TRUE, FALSE) /\ ~Cleaning(TRUE, TRUE) /\ <<Errors>>_vars =>
          Cleaning(TRUE, TRUE)'
    /\ WaitIInv /\ Cleaning(TRUE, TRUE) /\ ~Interrupted /\ <<Mover>>_vars =>
          MoverIsOver' \/ (Cleaning(TRUE, TRUE) /\ Interrupted)'
    /\ WaitIInv /\ Cleaning(TRUE, TRUE) /\ Interrupted /\ <<Mover>>_vars =>
          MoverIsOver'
    /\ WaitIInv /\ [Next]_vars /\ Cleaning(TRUE, TRUE) /\ Interrupted =>
          (Cleaning(TRUE, TRUE) /\ Interrupted)' \/ MoverIsOver'
<1> USE DEF Cleaning, MoverIsOver, Interrupted
<1>1. /\ WaitIInv /\ [Next]_vars /\ Cleaning(FALSE, FALSE) =>
            Cleaning(FALSE, FALSE)' \/ MoverIsOver'
      /\ WaitIInv /\ [Next]_vars /\ Cleaning(TRUE, FALSE) =>
            Cleaning(TRUE, FALSE)' \/ MoverIsOver'
      /\ WaitIInv /\ [Next]_vars /\ Cleaning(TRUE, TRUE) =>
            Cleaning(TRUE, TRUE)' \/ MoverIsOver'
      /\ WaitIInv /\ [Next]_vars /\ Cleaning(TRUE, TRUE) /\ Interrupted =>
            (Cleaning(TRUE, TRUE) /\ Interrupted)' \/ MoverIsOver'
  BY WhileCleaning DEF WaitIInv
<1>2. /\ WaitIInv /\ Cleaning(FALSE, FALSE) /\ ~Cleaning(TRUE, FALSE) => watch = "cancelling"
      /\ WaitIInv /\ Cleaning(TRUE, FALSE) /\ ~Cleaning(TRUE, TRUE) => errors = "cancelling"
      /\ Cleaning(TRUE, TRUE) => MoverIsReady
  BY DEF WaitIInv, WaitInv, IInv, TypeOK, TaskStates, MoverIsReady
<1>3. WaitIInv /\ Cleaning(FALSE, FALSE) /\ ~Cleaning(TRUE, FALSE) /\ <<Watch>>_vars =>
         Cleaning(TRUE, FALSE)'
  BY <1>2 DEF Watch, WatchStep, WatchCancelled, moverVars
<1>4. WaitIInv /\ Cleaning(TRUE, FALSE) /\ ~Cleaning(TRUE, TRUE) /\ <<Errors>>_vars =>
         Cleaning(TRUE, TRUE)'
  BY <1>2 DEF Errors, ErrorsStep, ErrorsCancelled, moverVars, watchVars
<1>5. ASSUME WaitIInv, Cleaning(TRUE, TRUE), Mover
      PROVE  \/ MoverIsOver'
             \/ ~Interrupted /\ (Cleaning(TRUE, TRUE) /\ Interrupted)'
  <2>1. MoverEnds \/ MoverCancelled
    BY <1>5 DEF Mover, MoverInitialize, MoverInitialized, MoverStart, MoverTimeout,
       MoverStarted, MoverWakes
  <2>2. QED
    BY <1>5, <2>1 DEF MoverEnds, MoverCancelled, Cancelled, Over
<1>6. QED
  BY <1>1, <1>2, <1>3, <1>4, <1>5

LEMMA CleaningEnds ==
    FairSpec /\ []NothingElseHolds => (Cleaning(FALSE, FALSE) ~> MoverIsOver)
<1>1. FairSpec /\ []NothingElseHolds => (Cleaning(FALSE, FALSE) ~> Cleaning(TRUE, FALSE) \/ MoverIsOver)
  BY CleaningSteps, WaitInvariant, PTL DEF FairSpec, Spec, Fairness, NothingElseHolds
<1>2. FairSpec /\ []NothingElseHolds => (Cleaning(TRUE, FALSE) ~> Cleaning(TRUE, TRUE) \/ MoverIsOver)
  BY CleaningSteps, WaitInvariant, PTL DEF FairSpec, Spec, Fairness, NothingElseHolds
<1>3. FairSpec /\ []NothingElseHolds =>
         (Cleaning(TRUE, TRUE) ~> (Cleaning(TRUE, TRUE) /\ Interrupted) \/ MoverIsOver)
  BY CleaningSteps, WaitInvariant, PTL DEF FairSpec, Spec, Fairness, NothingElseHolds
<1>4. FairSpec /\ []NothingElseHolds =>
         (Cleaning(TRUE, TRUE) /\ Interrupted ~> MoverIsOver)
  BY CleaningSteps, WaitInvariant, PTL DEF FairSpec, Spec, Fairness, NothingElseHolds
<1>5. QED
  BY <1>1, <1>2, <1>3, <1>4, PTL

\* What wakes the mover.
AwaitedHappened ==
    mover = "waiting" /\ (responses # <<>> \/ watchLost \/ robot.details \in EndReports)

LEMMA AwaitedIsNoticed ==
    WaitIInv /\ AwaitedHappened => Answered \/ Woken \/ Settling \/ Settled
BY DEF AwaitedHappened, WaitIInv, WaitInv, IInv, TypeOK, TaskStates, Answered, Woken,
   FirstCompleted, Settling, Settled

LEMMA SteadyGuards ==
    /\ Settling => robot.details \in EndReports /\ ~robot.standstill
    /\ Answered => (errors = "running" /\ responses # <<>>) \/ errors = "cancelling"
    /\ Woken => MoverIsReady
BY DEF Settling, Answered, Woken, FirstCompleted, MoverIsReady

(***************************************************************************)
(* Whatever was to end the mover's wait ends it: the robot settles, the    *)
(* watch or the error consumer is done with it, the mover wakes, its       *)
(* finally block gets both tasks and the generator is over (move_forward.  *)
(* py:143-170).  That the tasks can take these steps when they are due is  *)
(* NothingElseHolds.                                                       *)
(***************************************************************************)
THEOREM WaitIsOver == FairSpec /\ []NothingElseHolds => WaitEnds
<1>1. FairSpec /\ []NothingElseHolds => (Woken ~> MoverIsOver)
  <2>1. FairSpec /\ []NothingElseHolds => (Woken ~> Cleaning(FALSE, FALSE))
    BY WaitingSteps, SteadyGuards, WaitInvariant, PTL
       DEF FairSpec, Spec, Fairness, NothingElseHolds
  <2>2. QED
    BY <2>1, CleaningEnds, PTL
<1>2. FairSpec /\ []NothingElseHolds => (Answered ~> MoverIsOver)
  <2>1. FairSpec /\ []NothingElseHolds => (Answered ~> Woken \/ Cleaning(FALSE, FALSE))
    BY WaitingSteps, SteadyGuards, WaitInvariant, PTL
       DEF FairSpec, Spec, Fairness, NothingElseHolds
  <2>2. QED
    BY <1>1, <2>1, CleaningEnds, PTL
<1>3. FairSpec /\ []NothingElseHolds => (Settled ~> MoverIsOver)
  <2>1. FairSpec /\ []NothingElseHolds => (Settled ~> Woken \/ Cleaning(FALSE, FALSE))
    BY WaitingSteps, SettledIsReported, WaitInvariant, PTL
       DEF FairSpec, Spec, Fairness, NothingElseHolds
  <2>2. QED
    BY <1>1, <2>1, CleaningEnds, PTL
<1>4. FairSpec /\ []NothingElseHolds => (Settling ~> MoverIsOver)
  <2>1. FairSpec /\ []NothingElseHolds => (Settling ~> Settled \/ Cleaning(FALSE, FALSE))
    BY WaitingSteps, SteadyGuards, WaitInvariant, PTL
       DEF FairSpec, Spec, Fairness, NothingElseHolds
  <2>2. QED
    BY <1>3, <2>1, CleaningEnds, PTL
<1>5. FairSpec /\ []NothingElseHolds => (AwaitedHappened ~> MoverIsOver)
  <2>1. FairSpec => []WaitIInv
    BY WaitInvariant, PTL DEF FairSpec
  <2>2. QED
    BY <1>1, <1>2, <1>3, <1>4, <2>1, AwaitedIsNoticed, PTL
<1>6. AwaitedHappened <=>
         (mover = "waiting" /\ (\/ responses # <<>> \/ watchLost
                                \/ robot.details \in EndReports))
  BY DEF AwaitedHappened
<1>7. MoverIsOver <=> mover \in Over
  BY DEF MoverIsOver
<1>8. QED
  BY <1>5, <1>6, <1>7, PTL DEF WaitEnds
================================================================================

------------------------- MODULE TrajectoryCursorProofs -------------------------
(***************************************************************************)
(* The trajectory cursor's safety properties and its implementation of     *)
(* OperationFutures, for every number of operations, length of trajectory, *)
(* choice of options and set of faults.                                    *)
(***************************************************************************)
EXTENDS TrajectoryCursorTypes, SequenceTheorems

(***************************************************************************)
(* Operations not started yet have no future: the next call gets a fresh   *)
(* one (OperationHandler.start creates it).                                *)
(***************************************************************************)
UnstartedUnused == \A i \in Ops : i > started => fut[i] = "unused"

(***************************************************************************)
(* What is left to yield of an intent is at most its movement command, and *)
(* nothing is left when the next intent is taken (_request_loop).          *)
(***************************************************************************)
RestIsMovement ==
    /\ commands = <<>> \/ (Len(commands) = 1 /\ commands[1].kind # "speed")
    /\ cntrl \in {"created", "initializing", "starting", "waiting"} => commands = <<>>

(***************************************************************************)
(* The child tasks exist only inside the task group, and the monitor       *)
(* leaves only by its finally block.                                       *)
(***************************************************************************)
TasksFollowCntrl ==
    /\ cntrl \in {"created", "initializing"} => monitor = "none" /\ consumer = "none"
    /\ cntrl \in InGroup => monitor # "none" /\ consumer # "none"
    /\ cntrl \in Finished => monitor # "running" /\ consumer # "running"
    /\ monitor = "done" => sentinel /\ stopEvent

\* The intent in the slot is that of the latest operation (_set_intent).
IntentIsLatest == intent # NoIntent => intent.op = started

\* What concerns the handler, the intent slot, the commands and the tasks.
FuturesInv == UnstartedUnused /\ OnlyCurrentPending /\ StoppedMeansNoPending
DispatchInv == RestIsMovement /\ PendingIsDispatched

IntentInv == NoLostIntent /\ IntentIsLatest

IInv == TypeOK /\ FuturesInv /\ IntentInv /\ DispatchInv /\ TasksFollowCntrl

-------------------------------------------------------------------------------
LEMMA InitInv == Init => IInv
<1> SUFFICES ASSUME Init PROVE IInv
  OBVIOUS
<1>1. TypeOK
  BY InitType
<1>2. FuturesInv
  BY DEF Init, FuturesInv, UnstartedUnused, OnlyCurrentPending, StoppedMeansNoPending
<1>3. IntentInv /\ TasksFollowCntrl
  BY DEF Init, IntentInv, IntentIsLatest, NoLostIntent, TasksFollowCntrl, InGroup, Finished
<1>4. DispatchInv
  BY DEF Init, DispatchInv, RestIsMovement, PendingIsDispatched
<1>5. QED
  BY <1>1, <1>2, <1>3, <1>4 DEF IInv

-------------------------------------------------------------------------------
(* The futures. *)

\* A call that starts an operation hands out its future.
LEMMA StartHandsOut ==
    ASSUME TypeOK, FuturesInv, ~stopEvent, stopEvent' = stopEvent,
           NEW type, StartOperation(type)
    PROVE  /\ FuturesInv'
           /\ started + 1 \in Ops
           /\ Futures!HandOut(started + 1)
<1> USE MaxOpsAssumption DEF TypeOK, FuturesInv, Ops
<1>1. started + 1 \in Ops /\ fut[started + 1] = "unused"
  BY DEF StartOperation, UnstartedUnused
<1>2. \A i \in Ops : fut[i] = "pending" <=> InProgress /\ i = operation
  BY DEF OnlyCurrentPending, InProgress, None
<1>3. fut' = [i \in Ops |-> IF i = started + 1 THEN "pending"
                            ELSE IF fut[i] = "pending" THEN "cancelled" ELSE fut[i]]
  BY <1>2 DEF StartOperation
<1>4. FuturesInv'
  BY <1>1, <1>3 DEF UnstartedUnused, OnlyCurrentPending, StoppedMeansNoPending, StartOperation
<1>5. fut' = [Futures!CancelledIn(fut, Ops) EXCEPT ![started + 1] = "pending"]
  BY <1>1, <1>3 DEF Futures!CancelledIn, Futures!Ops
<1>6. QED
  BY <1>1, <1>4, <1>5 DEF Futures!HandOut, Futures!Ops

\* Deciding the current future, or no future, keeps what concerns futures.
LEMMA DecidingKeeps ==
    ASSUME TypeOK, FuturesInv, started' = started, TypeOK',
           \A i \in Ops : fut'[i] = fut[i] \/ (fut[i] = "pending" /\ fut'[i] # "pending"),
           operation' = operation \/ \A i \in Ops : fut'[i] # "pending",
           stopEvent' = stopEvent \/ \A i \in Ops : fut'[i] # "pending"
    PROVE  FuturesInv'
BY DEF TypeOK, FuturesInv, UnstartedUnused, OnlyCurrentPending, StoppedMeansNoPending, Ops

\* detach() closes the futures.
LEMMA DetachCloses ==
    ASSUME TypeOK, FuturesInv, DetachFrom(fut)
    PROVE  /\ \A i \in Ops : fut'[i] = IF fut[i] = "pending" THEN "cancelled" ELSE fut[i]
           /\ stopEvent'
           /\ Futures!Close
<1>1. \A i \in Ops : fut[i] = "pending" => i = operation /\ operation # None
  BY DEF FuturesInv, OnlyCurrentPending, Ops, None
<1>2. fut' = Futures!CancelledIn(fut, Ops)
  BY <1>1 DEF TypeOK, DetachFrom, Futures!CancelledIn, Futures!Ops, Ops, None
<1>3. QED
  BY <1>2 DEF DetachFrom, Futures!Close, Futures!CancelledIn, Futures!Ops, Ops

\* A report handled resolves the future in progress, and may close all, or
\* leaves all as they are.
LEMMA ReportDecides ==
    ASSUME TypeOK, FuturesInv, InProgress, HandleReport
    PROVE  /\ \A i \in Ops : fut'[i] = fut[i] \/ (fut[i] = "pending" /\ fut'[i] = "result")
           /\ operation' = operation \/ \A i \in Ops : fut'[i] # "pending"
           /\ stopEvent' = stopEvent \/ (stopEvent' /\ \A i \in Ops : fut'[i] # "pending")
           /\ \/ Futures!Close
              \/ Futures!Decide(operation)
              \/ UNCHANGED <<fut, stopEvent>>
<1> DEFINE resolved == [fut EXCEPT ![operation] = "result"]
           next == Processed(Kicked, robot)
<1>1. operation \in Ops /\ fut[operation] = "pending"
  BY MaxOpsAssumption DEF TypeOK, InProgress, Ops, None
<1>2. \A i \in Ops : i # operation => fut[i] # "pending"
  BY DEF FuturesInv, OnlyCurrentPending
<1>3. /\ resolved \in [Ops -> FutureStates]
      /\ \A i \in Ops : resolved[i] = IF i = operation THEN "result" ELSE fut[i]
  BY <1>1 DEF TypeOK, FutureStates
<1>4. \A i \in Ops : resolved[i] # "pending"
  BY <1>2, <1>3
<1>5. CASE next = "ended" /\ DetachOnStandstill
  <2>1. fut' = resolved /\ stopEvent' = TRUE
    BY <1>1, <1>4, <1>5 DEF HandleReport, MonitorFinally, DetachFrom
  <2>2. resolved = [Futures!CancelledIn(fut, Ops) EXCEPT ![operation] = "result"]
    BY <1>1, <1>2 DEF Futures!CancelledIn, Futures!Ops, TypeOK, Ops
  <2>3. Futures!Close
    BY <1>1, <2>1, <2>2 DEF Futures!Close, Futures!CancelledIn, Futures!Ops, Ops
  <2>4. QED
    BY <1>1, <1>3, <1>4, <2>1, <2>3
<1>6. CASE ~(next = "ended" /\ DetachOnStandstill)
  <2>1. /\ fut' = IF next \in {"ended", "paused"} THEN resolved ELSE fut
        /\ operation' = IF next \in {"ended", "paused"} THEN None ELSE operation
        /\ stopEvent' = stopEvent
    BY <1>6 DEF HandleReport
  <2>2. fut' = resolved => Futures!Decide(operation)
    BY <1>1, <2>1 DEF Futures!Decide
  <2>3. QED
    BY <1>1, <1>3, <1>4, <2>1, <2>2
<1>7. QED
  BY <1>5, <1>6

\* Only the user and the monitor touch the futures; every other step keeps them.
OthersStep == Cntrl \/ Consumer \/ ServerStep \/ Robot \/ OuterCancel \/ ServerError
              \/ StreamFallsSilent \/ UNCHANGED vars

LEMMA OthersKeepFutures ==
    ASSUME OthersStep
    PROVE  UNCHANGED <<started, fut, operation, stopEvent>>
<1> USE DEF handlerVars
<1>1. CASE Cntrl
  BY <1>1 DEF Cntrl, CntrlInitialize, CntrlInitialized, CntrlReady, CntrlStartupTimeout,
     TakeIntent, YieldNext, IntentDone, StopRequested, CntrlExit
<1>2. CASE Consumer
  BY <1>2 DEF Consumer, ConsumerStep, ConsumerCancelled
<1>3. CASE ServerStep
  BY <1>3 DEF ServerStep
<1>4. CASE Robot
  BY <1>4 DEF Robot, RobotBegin, RobotMove, RobotSettle
<1>5. CASE OuterCancel \/ ServerError \/ StreamFallsSilent
  BY <1>5 DEF OuterCancel, ServerError, StreamFallsSilent
<1>6. CASE UNCHANGED vars
  BY <1>6 DEF vars
<1>7. QED
  BY <1>1, <1>2, <1>3, <1>4, <1>5, <1>6 DEF OthersStep

\* The steps that end the monitor from outside its loop.
MonitorEnds == MonitorCancelled \/ \E fault \in AllFaults : StreamBreaks(fault)

\* Every step is one of these.
LEMMA Steps ==
    ASSUME TypeOK, [Next]_vars
    PROVE  \/ \E type \in {"forward", "backward"}, target \in Targets, speed \in BOOLEAN :
                 Move(type, target, speed)
           \/ Pause
           \/ Detach
           \/ \E i \in Ops : CancelAwaiter(i)
           \/ MonitorStep
           \/ MonitorEnds
           \/ OthersStep
BY UserCalls DEF Next, Fault, Monitor, MonitorEnds, OthersStep, AllFaults

\* Every step keeps what concerns the futures and is a step, or a stutter, of
\* OperationFutures.
LEMMA NextFutures ==
    ASSUME TypeOK, TypeOK', FuturesInv, [Next]_vars
    PROVE  /\ FuturesInv'
           /\ [Futures!FuturesNext]_(Futures!futuresVars)
<1> USE DEF Futures!FuturesNext, Futures!futuresVars, Futures!Ops, Ops
<1>1. CASE \E type \in {"forward", "backward"}, target \in Targets, speed \in BOOLEAN :
             Move(type, target, speed)
  BY <1>1, StartHandsOut DEF Move
<1>2. CASE Pause
  <2>1. ~stopEvent /\ stopEvent' = stopEvent
    BY <1>2, MaxOpsAssumption
       DEF Pause, InProgress, FuturesInv, StoppedMeansNoPending, TypeOK, None
  <2>2. QED
    BY <1>2, <2>1, StartHandsOut DEF Pause
<1>3. CASE Detach
  <2>1. DetachFrom(fut) /\ UNCHANGED <<started, operation>>
    BY <1>3 DEF Detach
  <2>2. QED
    BY <2>1, DetachCloses, DecidingKeeps
<1>4. CASE \E i \in Ops : CancelAwaiter(i)
  <2>1. PICK i \in Ops : CancelAwaiter(i)
    BY <1>4
  <2>2. Futures!Decide(i) /\ UNCHANGED <<started, operation, stopEvent>>
    BY <2>1 DEF CancelAwaiter, Futures!Decide
  <2>3. \A j \in Ops : fut'[j] = fut[j] \/ (fut[j] = "pending" /\ fut'[j] # "pending")
    BY <2>1 DEF CancelAwaiter, TypeOK
  <2>4. QED
    BY <2>2, <2>3, DecidingKeeps
<1>5. CASE MonitorStep
  <2>1. CASE InProgress /\ HasExecute(robot)
    <3>1. HandleReport /\ started' = started /\ operation \in Ops
      BY <1>5, <2>1, MaxOpsAssumption DEF MonitorStep, TypeOK, InProgress, None
    <3>2. QED
      BY <2>1, <3>1, ReportDecides, DecidingKeeps
  <2>2. CASE ~(InProgress /\ HasExecute(robot))
    <3>1. UNCHANGED <<started, fut, operation, stopEvent>>
      BY <1>5, <2>2 DEF MonitorStep, handlerVars
    <3>2. QED
      BY <3>1, DecidingKeeps
  <2>3. QED
    BY <2>1, <2>2
<1>6. CASE MonitorEnds
  <2>1. DetachFrom(fut) /\ UNCHANGED <<started, operation>>
    BY <1>6 DEF MonitorEnds, MonitorCancelled, StreamBreaks, MonitorFinally
  <2>2. QED
    BY <2>1, DetachCloses, DecidingKeeps
<1>7. CASE OthersStep
  BY <1>7, OthersKeepFutures, DecidingKeeps
<1>8. QED
  BY <1>1, <1>2, <1>3, <1>4, <1>5, <1>6, <1>7, Steps

-------------------------------------------------------------------------------
(* The intent slot. *)

LEMMA NextIntent ==
    ASSUME TypeOK, IntentInv, [Next]_vars
    PROVE  IntentInv'
<1> USE DEF IntentInv, NoLostIntent, IntentIsLatest
<1>1. CASE \E type \in {"forward", "backward"}, target \in Targets, speed \in BOOLEAN :
             Move(type, target, speed)
  BY <1>1 DEF Move, StartOperation, SetIntent, NoIntent, None, TypeOK
<1>2. CASE Pause
  BY <1>2 DEF Pause, StartOperation, SetIntent, NoIntent, None, TypeOK
<1>3. CASE Detach
  BY <1>3 DEF Detach, DetachFrom
<1>4. CASE \E i \in Ops : CancelAwaiter(i)
  BY <1>4 DEF CancelAwaiter, intentVars
<1>5. CASE MonitorStep
  <2>1. UNCHANGED <<intent, started>>
    BY <1>5 DEF MonitorStep, handlerVars
  <2>2. CASE UNCHANGED <<intentEvent, stopEvent>>
    BY <2>1, <2>2
  <2>3. CASE ~UNCHANGED <<intentEvent, stopEvent>>
    <3>1. HandleReport
      BY <1>5, <2>3 DEF MonitorStep
    <3>2. \E futures : MonitorFinally(futures)
      BY <2>3, <3>1 DEF HandleReport
    <3>3. intentEvent' = TRUE /\ stopEvent' = TRUE
      BY <3>2 DEF MonitorFinally, DetachFrom
    <3>4. QED
      BY <2>1, <3>3
  <2>4. QED
    BY <2>2, <2>3
<1>6. CASE MonitorEnds
  BY <1>6 DEF MonitorEnds, MonitorCancelled, StreamBreaks, MonitorFinally, DetachFrom
<1>7. CASE OthersStep
  <2>1. UNCHANGED <<intent, intentEvent, stopEvent, started>> \/ TakeIntent
    <3> USE DEF intentVars, handlerVars
    <3>1. CASE Cntrl
      BY <3>1 DEF Cntrl, CntrlInitialize, CntrlInitialized, CntrlReady, CntrlStartupTimeout,
         YieldNext, IntentDone, StopRequested, CntrlExit
    <3>2. CASE Consumer \/ ServerStep \/ Robot
      BY <3>2 DEF Consumer, ConsumerStep, ConsumerCancelled, ServerStep, Robot, RobotBegin,
         RobotMove, RobotSettle
    <3>3. CASE OuterCancel \/ ServerError \/ StreamFallsSilent \/ UNCHANGED vars
      BY <3>3 DEF OuterCancel, ServerError, StreamFallsSilent, vars
    <3>4. QED
      BY <1>7, <3>1, <3>2, <3>3 DEF OthersStep
  <2>2. CASE TakeIntent
    BY <2>2 DEF TakeIntent, handlerVars
  <2>3. QED
    BY <2>1, <2>2
<1>8. QED
  BY <1>1, <1>2, <1>3, <1>4, <1>5, <1>6, <1>7, Steps

-------------------------------------------------------------------------------
(* The commands. *)

\* The places of cntrl() before the first intent and between two.
BetweenIntents == {"created", "initializing", "starting", "waiting"}

\* A step that leaves the commands alone and starts no operation.
LEMMA DispatchKept ==
    ASSUME DispatchInv, UNCHANGED <<intent, commands, delivered>>,
           cntrl' \in BetweenIntents => cntrl \in BetweenIntents \/ commands = <<>>,
           \A i \in Ops : fut'[i] = "pending" => fut[i] = "pending"
    PROVE  DispatchInv'
BY DEF DispatchInv, RestIsMovement, PendingIsDispatched, BetweenIntents

\* A call that starts an operation puts its intent into the slot.
LEMMA StartDispatch ==
    ASSUME FuturesInv', DispatchInv, NEW type, NEW target, NEW speed,
           StartOperation(type), SetIntent(type, target, speed),
           UNCHANGED <<commands, delivered, cntrl>>
    PROVE  DispatchInv'
<1>1. RestIsMovement'
  BY DEF DispatchInv, RestIsMovement
<1>2. \A i \in Ops : fut'[i] = "pending" => intent'.op = i
  BY DEF FuturesInv, OnlyCurrentPending, StartOperation, SetIntent
<1>3. QED
  BY <1>1, <1>2 DEF DispatchInv, PendingIsDispatched

LEMMA TakeIntentDispatch ==
    ASSUME TypeOK, DispatchInv, TakeIntent
    PROVE  DispatchInv'
<1>1. fut' = fut /\ commands = <<>> /\ cntrl = "waiting"
  BY DEF TakeIntent, handlerVars, DispatchInv, RestIsMovement
<1>2. CASE intent = NoIntent
  BY <1>1, <1>2, DispatchKept DEF TakeIntent
<1>3. CASE intent # NoIntent
  <2> DEFINE m == MovementCommand(intent)
  <2>1. intent \in Intents
    BY <1>3 DEF TypeOK
  <2>2. /\ m \in Commands /\ m.op = intent.op /\ m.kind # "speed"
        /\ \/ ToCommands(intent) = <<m>>
           \/ \E c \in Commands : c.kind = "speed" /\ ToCommands(intent) = <<c, m>>
    BY <2>1, CommandsOfIntent
  <2>3. /\ cntrl' = "yielded"
        /\ commands' = Tail(ToCommands(intent))
        /\ delivered' = IF Head(ToCommands(intent)).kind = "speed" THEN delivered
                        ELSE delivered \cup {Head(ToCommands(intent)).op}
    BY <1>3 DEF TakeIntent, Yield
  <2> HIDE DEF m
  <2>4. \A i \in Ops : fut[i] = "pending" => intent.op = i \/ i \in delivered
    BY <1>1 DEF DispatchInv, PendingIsDispatched
  <2>5. CASE ToCommands(intent) = <<m>>
    <3>1. Head(<<m>>) = m /\ Tail(<<m>>) = <<>>
      BY <2>2
    <3>2. commands' = <<>> /\ delivered' = delivered \cup {m.op}
      BY <2>2, <2>3, <2>5, <3>1
    <3>3. QED
      BY <1>1, <2>2, <2>3, <2>4, <3>2 DEF DispatchInv, RestIsMovement, PendingIsDispatched
  <2>6. CASE \E c \in Commands : c.kind = "speed" /\ ToCommands(intent) = <<c, m>>
    <3>1. PICK c \in Commands : c.kind = "speed" /\ ToCommands(intent) = <<c, m>>
      BY <2>6
    <3>2. Head(<<c, m>>) = c /\ Tail(<<c, m>>) = <<m>>
      BY <2>2
    <3>3. commands' = <<m>> /\ delivered' = delivered
      BY <2>3, <3>1, <3>2
    <3>4. Len(<<m>>) = 1 /\ <<m>>[1] = m /\ 1 \in DOMAIN <<m>>
      BY <2>2
    <3>5. RestIsMovement'
      BY <2>2, <2>3, <3>3, <3>4 DEF RestIsMovement
    <3>6. \A i \in Ops : fut'[i] = "pending" =>
             i \in delivered' \/ (commands'[1].op = i /\ commands'[1].kind # "speed"
                                 /\ 1 \in DOMAIN commands')
      BY <1>1, <2>2, <2>4, <3>3, <3>4
    <3>7. QED
      BY <3>5, <3>6 DEF DispatchInv, PendingIsDispatched
  <2>7. QED
    BY <2>2, <2>5, <2>6
<1>4. QED
  BY <1>2, <1>3

LEMMA YieldNextDispatch ==
    ASSUME TypeOK, DispatchInv, YieldNext
    PROVE  DispatchInv'
<1>1. commands \in Seq(Commands) /\ Len(commands) = 1 /\ commands[1].kind # "speed"
  BY DEF YieldNext, DispatchInv, RestIsMovement, TypeOK
<1>2. Head(commands) = commands[1] /\ Tail(commands) = <<>> /\ DOMAIN commands = {1}
  <2>1. DOMAIN commands = {1} /\ Head(commands) = commands[1]
    BY <1>1
  <2>2. Tail(commands) \in Seq(Commands) /\ Len(Tail(commands)) = 0
    BY <1>1, HeadTailProperties
  <2>3. Tail(commands) = <<>>
    BY <2>2, EmptySeq
  <2>4. QED
    BY <2>1, <2>3
<1>3. /\ commands' = <<>> /\ delivered' = delivered \cup {commands[1].op}
      /\ UNCHANGED <<cntrl, intent, fut>>
  BY <1>1, <1>2 DEF YieldNext, Yield, handlerVars, intentVars
<1>4. QED
  BY <1>2, <1>3 DEF DispatchInv, RestIsMovement, PendingIsDispatched

LEMMA NextDispatch ==
    ASSUME TypeOK, TypeOK', FuturesInv, FuturesInv', DispatchInv, [Next]_vars
    PROVE  DispatchInv'
<1> USE DEF taskVars
<1>1. CASE \E type \in {"forward", "backward"}, target \in Targets, speed \in BOOLEAN :
             Move(type, target, speed)
  BY <1>1, StartDispatch DEF Move
<1>2. CASE Pause
  BY <1>2, StartDispatch DEF Pause
<1>3. CASE Detach
  <2>1. DetachFrom(fut) /\ UNCHANGED <<intent, commands, delivered, cntrl>>
    BY <1>3 DEF Detach
  <2>2. QED
    BY <2>1, DetachCloses, DispatchKept
<1>4. CASE \E i \in Ops : CancelAwaiter(i)
  <2>1. PICK i \in Ops : CancelAwaiter(i)
    BY <1>4
  <2>2. \A j \in Ops : fut'[j] = "pending" => fut[j] = "pending"
    BY <2>1 DEF CancelAwaiter, TypeOK
  <2>3. UNCHANGED <<intent, commands, delivered, cntrl>>
    BY <2>1 DEF CancelAwaiter, intentVars
  <2>4. QED
    BY <2>2, <2>3, DispatchKept
<1>5. CASE MonitorStep
  <2>1. UNCHANGED <<intent, commands, delivered, cntrl>>
    BY <1>5 DEF MonitorStep
  <2>2. \A i \in Ops : fut'[i] = "pending" => fut[i] = "pending"
    <3>1. CASE InProgress /\ HasExecute(robot)
      <4>1. HandleReport
        BY <1>5, <3>1 DEF MonitorStep
      <4>2. QED
        BY <3>1, <4>1, ReportDecides
    <3>2. CASE ~(InProgress /\ HasExecute(robot))
      BY <1>5, <3>2 DEF MonitorStep, handlerVars
    <3>3. QED
      BY <3>1, <3>2
  <2>3. QED
    BY <2>1, <2>2, DispatchKept
<1>6. CASE MonitorEnds
  <2>1. /\ DetachFrom(fut) /\ UNCHANGED <<intent, commands, delivered>>
        /\ cntrl' = cntrl \/ cntrl' = "raising"
    BY <1>6 DEF MonitorEnds, MonitorCancelled, StreamBreaks, MonitorFinally
  <2>2. QED
    BY <2>1, DetachCloses, DispatchKept DEF BetweenIntents
<1>7. CASE OthersStep
  <2>1. CASE TakeIntent
    BY <2>1, TakeIntentDispatch
  <2>2. CASE YieldNext
    BY <2>2, YieldNextDispatch
  <2>3. CASE ~TakeIntent /\ ~YieldNext
    <3>1. /\ UNCHANGED <<intent, commands, delivered>>
          /\ cntrl' \in BetweenIntents => cntrl \in BetweenIntents \/ commands = <<>>
      <4> USE DEF intentVars, BetweenIntents
      <4>1. CASE Cntrl
        BY <2>3, <4>1 DEF Cntrl, CntrlInitialize, CntrlInitialized, CntrlReady,
           CntrlStartupTimeout, IntentDone, StopRequested, CntrlExit
      <4>2. CASE Consumer \/ ServerStep \/ Robot
        BY <4>2 DEF Consumer, ConsumerStep, ConsumerCancelled, ServerStep, Robot, RobotBegin,
           RobotMove, RobotSettle
      <4>3. CASE OuterCancel \/ ServerError \/ StreamFallsSilent \/ UNCHANGED vars
        BY <4>3 DEF OuterCancel, ServerError, StreamFallsSilent, vars
      <4>4. QED
        BY <1>7, <4>1, <4>2, <4>3 DEF OthersStep
    <3>2. QED
      BY <1>7, <3>1, OthersKeepFutures, DispatchKept
  <2>4. QED
    BY <2>1, <2>2, <2>3
<1>8. QED
  BY <1>1, <1>2, <1>3, <1>4, <1>5, <1>6, <1>7, Steps

-------------------------------------------------------------------------------
(* The tasks. *)

LEMMA NextTasks ==
    ASSUME TypeOK, TasksFollowCntrl, [Next]_vars
    PROVE  TasksFollowCntrl'
<1> USE DEF TasksFollowCntrl, InGroup, Finished, taskVars, childVars, monitorVars
<1>1. CASE (\E type \in {"forward", "backward"}, target \in Targets, speed \in BOOLEAN :
              Move(type, target, speed))
           \/ Pause \/ \E i \in Ops : CancelAwaiter(i)
  BY <1>1 DEF Move, Pause, CancelAwaiter
<1>2. CASE Detach
  BY <1>2 DEF Detach, DetachFrom
<1>3. CASE MonitorStep
  <2>1. cntrl \in {"starting", "waiting", "yielded"} /\ UNCHANGED <<cntrl, consumer>>
    BY <1>3 DEF MonitorStep, Active
  <2>2. UNCHANGED <<monitor, sentinel, stopEvent>> \/ \E futures : MonitorFinally(futures)
    BY <1>3 DEF MonitorStep, HandleReport
  <2>3. CASE \E futures : MonitorFinally(futures)
    BY <2>1, <2>3 DEF MonitorFinally, DetachFrom
  <2>4. QED
    BY <2>1, <2>2, <2>3
<1>4. CASE MonitorEnds
  BY <1>4 DEF MonitorEnds, MonitorCancelled, StreamBreaks, MonitorFinally, DetachFrom, Active
<1>5. CASE OthersStep
  <2>1. CASE Cntrl
    BY <2>1 DEF Cntrl, CntrlInitialize, CntrlInitialized, CntrlReady, CntrlStartupTimeout,
       TakeIntent, YieldNext, IntentDone, StopRequested, CntrlExit
  <2>2. CASE Consumer
    BY <2>2 DEF Consumer, ConsumerStep, ConsumerCancelled, Active
  <2>3. CASE ServerStep \/ Robot
    BY <2>3 DEF ServerStep, Robot, RobotBegin, RobotMove, RobotSettle
  <2>4. CASE OuterCancel \/ ServerError \/ StreamFallsSilent \/ UNCHANGED vars
    BY <2>4 DEF OuterCancel, ServerError, StreamFallsSilent, vars, Active
  <2>5. QED
    BY <1>5, <2>1, <2>2, <2>3, <2>4 DEF OthersStep
<1>6. QED
  BY <1>1, <1>2, <1>3, <1>4, <1>5, Steps

-------------------------------------------------------------------------------
(***************************************************************************)
(* The inductive invariant: the types, and why each future, intent,        *)
(* command and task is where the properties below need it.                 *)
(***************************************************************************)
THEOREM Invariant == Spec => []IInv
<1>1. Init => IInv
  BY InitInv
<1>2. IInv /\ [Next]_vars => IInv'
  BY NextType, NextFutures, NextIntent, NextDispatch, NextTasks DEF IInv
<1>3. QED
  BY <1>1, <1>2, PTL DEF Spec

(***************************************************************************)
(* After detach(), by whomever, no caller is left waiting (935-948).       *)
(***************************************************************************)
THEOREM NobodyWaitsAfterDetach == Spec => []StoppedMeansNoPending
<1>1. IInv => StoppedMeansNoPending
  BY DEF IInv, FuturesInv
<1>2. QED
  BY <1>1, Invariant, PTL

(***************************************************************************)
(* A superseded caller is always released (OperationHandler.start).        *)
(***************************************************************************)
THEOREM SupersededAreReleased == Spec => []OnlyCurrentPending
<1>1. IInv => OnlyCurrentPending
  BY DEF IInv, FuturesInv
<1>2. QED
  BY <1>1, Invariant, PTL

(***************************************************************************)
(* The request loop misses no wake-up (_set_intent, _request_loop).        *)
(***************************************************************************)
THEOREM NoWakeUpIsLost == Spec => []NoLostIntent
<1>1. IInv => NoLostIntent
  BY DEF IInv, IntentInv
<1>2. QED
  BY <1>1, Invariant, PTL

(***************************************************************************)
(* The command of the operation a caller waits for is never dropped        *)
(* (_set_intent, _request_loop, Intent.to_commands).                       *)
(***************************************************************************)
THEOREM NoCommandIsDropped == Spec => []PendingIsDispatched
<1>1. IInv => PendingIsDispatched
  BY DEF IInv, DispatchInv
<1>2. QED
  BY <1>1, Invariant, PTL

(***************************************************************************)
(* However the task group ended, the iteration has its sentinel, nobody    *)
(* waits for a future, no child task is left (cntrl(), the monitor's       *)
(* finally block).                                                         *)
(***************************************************************************)
THEOREM GroupLeavesNothingBehind == Spec => []ClosedIsQuiet
<1>1. IInv => ClosedIsQuiet
  <2> SUFFICES ASSUME IInv PROVE ClosedIsQuiet
    OBVIOUS
  <2>1. stopEvent => ~InProgress
    BY MaxOpsAssumption DEF IInv, FuturesInv, StoppedMeansNoPending, InProgress, TypeOK,
       Ops, None
  <2>2. QED
    BY <2>1 DEF IInv, TasksFollowCntrl, ClosedIsQuiet
<1>2. QED
  BY <1>1, Invariant, PTL

(***************************************************************************)
(* The cursor implements OperationFutures: a future is handed out only     *)
(* while the cursor is attached, is decided once, and detaching decides    *)
(* every one (OperationHandler, detach).                                   *)
(***************************************************************************)
THEOREM Refinement == Spec => FuturesRefined
<1>1. Init => Futures!FuturesInit
  BY DEF Init, Futures!FuturesInit, Futures!Ops, Ops
<1>2. IInv /\ IInv' /\ [Next]_vars => [Futures!FuturesNext]_(Futures!futuresVars)
  BY NextFutures DEF IInv
<1>3. QED
  BY <1>1, <1>2, Invariant, PTL DEF Spec, FuturesRefined, Futures!FuturesSpec

-------------------------------------------------------------------------------
(* Steps. *)

\* A report ends a movement only if it is a trajectory's, at standstill.
LEMMA FinishedAtStandstill ==
    ASSUME TypeOK, Processed(Kicked, robot) \in {"ended", "paused"}
    PROVE  robot.standstill /\ IsTrajectory(robot)
<1>1. Kicked \in {"executing", "ending", "pausing"}
  BY DEF TypeOK, Kicked, MachineStates, StartableStates
<1>2. robot.standstill \in BOOLEAN
  BY DEF TypeOK, Robots
<1>3. QED
  BY <1>1, <1>2 DEF Processed, HandleExecuting

(***************************************************************************)
(* A future resolves with a result only on a trajectory's report at        *)
(* standstill, and with the location reported (process_motion_state, 681). *)
(***************************************************************************)
THEOREM ResultsAtStandstill == Spec => ResolvedAtStandstill
<1>1. ASSUME IInv, IInv', [Next]_vars,
             NEW i \in Ops, fut[i] = "pending", fut'[i] = "result"
      PROVE  robot.standstill /\ currentLocation' = robot.position
  <2> USE DEF IInv
  <2>1. CASE \E type \in {"forward", "backward"}, target \in Targets, speed \in BOOLEAN :
               Move(type, target, speed)
    BY <1>1, <2>1 DEF Move, StartOperation
  <2>2. CASE Pause
    BY <1>1, <2>2 DEF Pause, StartOperation
  <2>3. CASE Detach \/ MonitorEnds
    <3>1. DetachFrom(fut)
      BY <2>3 DEF Detach, MonitorEnds, MonitorCancelled, StreamBreaks, MonitorFinally
    <3>2. QED
      BY <1>1, <3>1, DetachCloses
  <2>4. CASE \E j \in Ops : CancelAwaiter(j)
    BY <1>1, <2>4 DEF CancelAwaiter, TypeOK
  <2>5. CASE MonitorStep
    <3>1. InProgress /\ HandleReport
      BY <1>1, <2>5 DEF MonitorStep, handlerVars
    <3>2. Processed(Kicked, robot) \in {"ended", "paused"}
      BY <1>1, <3>1 DEF HandleReport
    <3>3. robot.standstill /\ IsTrajectory(robot)
      BY <1>1, <3>2, FinishedAtStandstill
    <3>4. currentLocation' = IF IsTrajectory(robot) THEN robot.position ELSE currentLocation
      BY <3>1 DEF HandleReport
    <3>5. QED
      BY <3>3, <3>4
  <2>6. CASE OthersStep
    BY <1>1, <2>6, OthersKeepFutures
  <2>7. QED
    BY <1>1, <2>1, <2>2, <2>3, <2>4, <2>5, <2>6, Steps
<1>2. IInv /\ IInv' /\ [Next]_vars =>
        [\A i \in Ops : fut[i] = "pending" /\ fut'[i] = "result" =>
            robot.standstill /\ currentLocation' = robot.position]_vars
  BY <1>1
<1>3. QED
  BY <1>2, Invariant, PTL DEF Spec, ResolvedAtStandstill

(***************************************************************************)
(* The first command yielded for an intent is that of the latest           *)
(* operation, and is not yielded after a detach (_request_loop).           *)
(***************************************************************************)
THEOREM FirstCommandOfLatest == Spec => FirstCommandIsFresh
<1>1. ASSUME IInv, [Next]_vars, cntrl = "waiting", cntrl' = "yielded"
      PROVE  requests'[Len(requests')].op = started /\ ~stopEvent
  <2> USE DEF IInv
  <2>1. TakeIntent
    <3> USE DEF taskVars
    <3>1. CASE (\E type \in {"forward", "backward"}, target \in Targets, speed \in BOOLEAN :
                  Move(type, target, speed))
               \/ Pause \/ Detach \/ \E i \in Ops : CancelAwaiter(i)
      BY <1>1, <3>1 DEF Move, Pause, Detach, CancelAwaiter
    <3>2. CASE MonitorStep \/ MonitorEnds
      BY <1>1, <3>2 DEF MonitorStep, MonitorEnds, MonitorCancelled, StreamBreaks
    <3>3. CASE Consumer \/ ServerStep \/ Robot
      BY <1>1, <3>3 DEF Consumer, ConsumerStep, ConsumerCancelled, ServerStep, Robot,
         RobotBegin, RobotMove, RobotSettle
    <3>4. CASE OuterCancel \/ ServerError \/ StreamFallsSilent \/ UNCHANGED vars
      BY <1>1, <3>4 DEF OuterCancel, ServerError, StreamFallsSilent, vars
    <3>5. CASE Cntrl
      BY <1>1, <3>5 DEF Cntrl, CntrlInitialize, CntrlInitialized, CntrlReady,
         CntrlStartupTimeout, YieldNext, IntentDone, StopRequested, CntrlExit
    <3>6. QED
      BY <1>1, <3>1, <3>2, <3>3, <3>4, <3>5, Steps DEF OthersStep
  <2>2. intent # NoIntent /\ ~stopEvent
    BY <1>1, <2>1 DEF TakeIntent
  <2>3. intent \in Intents /\ intent.op = started
    BY <1>1, <2>2 DEF TypeOK, IntentInv, IntentIsLatest
  <2> DEFINE command == Head(ToCommands(intent))
  <2>4. command.op = started
    BY <2>3 DEF ToCommands, MovementCommand
  <2>5. command \in Commands
    BY <2>3, CommandsOfIntent
  <2>6. requests' = Append(requests, command)
    BY <2>1, <2>2 DEF TakeIntent, Yield
  <2> HIDE DEF command
  <2>7. requests'[Len(requests')] = command
    BY <1>1, <2>5, <2>6 DEF TypeOK
  <2>8. QED
    BY <2>2, <2>4, <2>7
<1>2. IInv /\ [Next]_vars =>
        [cntrl = "waiting" /\ cntrl' = "yielded" =>
            requests'[Len(requests')].op = started /\ ~stopEvent]_vars
  BY <1>1
<1>3. QED
  BY <1>2, Invariant, PTL DEF Spec, FirstCommandIsFresh

-------------------------------------------------------------------------------
(* The end of a detached cursor. *)

\* A step inside the group: the tasks only end, the two events are not cleared for a
\* detached cursor, and cntrl() goes on or out, after at most one more command.
LEMMA WhileStopping ==
    ASSUME IInv, [Next]_vars, cntrl \in InGroup
    PROVE  /\ monitor' \in {monitor, "done"} /\ consumer' \in {consumer, "done"}
           /\ stopEvent => stopEvent'
           /\ streamReady => streamReady'
           /\ StreamIsSilent => StreamIsSilent'
           /\ cntrl = "starting" => cntrl' \in {"starting", "waiting", "raising"}
           /\ cntrl = "waiting" /\ stopEvent => cntrl' \in {"waiting", "closing", "raising"}
           /\ cntrl = "yielded" /\ commands # <<>> => cntrl' \in {"yielded", "raising"}
           /\ cntrl = "yielded" => cntrl' \in {"yielded", "waiting", "raising"}
           /\ cntrl = "yielded" /\ commands = <<>> => commands' = <<>>
           /\ cntrl \in {"closing", "raising"} => cntrl' = cntrl \/ cntrl' \in Finished
<1> USE DEF InGroup, Finished, taskVars, childVars, IInv
<1>1. CASE (\E type \in {"forward", "backward"}, target \in Targets, speed \in BOOLEAN :
              Move(type, target, speed))
           \/ Pause \/ \E i \in Ops : CancelAwaiter(i)
  <2>1. UNCHANGED <<taskVars, stopEvent, faults>>
    BY <1>1 DEF Move, Pause, CancelAwaiter
  <2>2. QED
    BY <2>1 DEF StreamIsSilent
<1>2. CASE Detach
  BY <1>2 DEF Detach, DetachFrom, StreamIsSilent
<1>3. CASE MonitorStep
  <2>1. UNCHANGED <<cntrl, consumer, commands, faults>> /\ streamReady'
    BY <1>3, Zenon DEF MonitorStep
  <2>2. UNCHANGED <<monitor, stopEvent>> \/ \E futures : MonitorFinally(futures)
    BY <1>3 DEF MonitorStep, HandleReport
  <2>3. monitor' \in {monitor, "done"} /\ (stopEvent => stopEvent')
    BY <2>2 DEF MonitorFinally, DetachFrom
  <2>4. QED
    BY <2>1, <2>3 DEF StreamIsSilent
<1>4. CASE MonitorEnds
  <2>1. /\ monitor' = "done" /\ stopEvent' = TRUE /\ UNCHANGED <<consumer, streamReady, commands>>
        /\ faults' \subseteq faults
    BY <1>4, Zenon DEF MonitorEnds, MonitorCancelled, StreamBreaks, MonitorFinally, DetachFrom
  <2>2. cntrl' = cntrl \/ (Active /\ cntrl' = "raising")
    BY <1>4 DEF MonitorEnds, MonitorCancelled, StreamBreaks
  <2>3. QED
    BY <2>1, <2>2 DEF StreamIsSilent, Active
<1>5. CASE Cntrl
  <2>1. /\ UNCHANGED <<monitor, consumer, stopEvent, streamReady, faults>>
    BY <1>5 DEF Cntrl, CntrlInitialize, CntrlInitialized, CntrlReady, CntrlStartupTimeout,
       TakeIntent, YieldNext, IntentDone, StopRequested, CntrlExit
  <2>2. cntrl = "yielded" => \/ cntrl' = "yielded" /\ commands # <<>>
                             \/ cntrl' = "waiting" /\ commands = <<>> /\ commands' = <<>>
    BY <1>5 DEF Cntrl, CntrlInitialize, CntrlInitialized, CntrlReady, CntrlStartupTimeout,
       TakeIntent, YieldNext, IntentDone, StopRequested, CntrlExit
  <2>3. /\ cntrl = "starting" => cntrl' \in {"waiting", "raising"}
        /\ cntrl = "waiting" /\ stopEvent => cntrl' = "closing"
        /\ cntrl \in {"closing", "raising"} => cntrl' \in Finished
    BY <1>5 DEF Cntrl, CntrlInitialize, CntrlInitialized, CntrlReady, CntrlStartupTimeout,
       TakeIntent, YieldNext, IntentDone, StopRequested, CntrlExit
  <2>4. QED
    BY <2>1, <2>2, <2>3 DEF StreamIsSilent
<1>6. CASE Consumer
  <2>1. /\ UNCHANGED <<monitor, stopEvent, streamReady, faults, commands>>
        /\ consumer' \in {consumer, "done"}
        /\ cntrl' = cntrl \/ (Active /\ cntrl' = "raising")
    BY <1>6 DEF Consumer, ConsumerStep, ConsumerCancelled
  <2>2. QED
    BY <2>1 DEF StreamIsSilent, Active
<1>7. CASE OuterCancel
  BY <1>7 DEF OuterCancel, StreamIsSilent, Active
<1>8. CASE ServerStep \/ Robot \/ ServerError \/ StreamFallsSilent \/ UNCHANGED vars
  <2>1. UNCHANGED <<cntrl, commands, monitor, consumer, stopEvent, streamReady>>
    BY <1>8 DEF ServerStep, Robot, RobotBegin, RobotMove, RobotSettle, ServerError,
       StreamFallsSilent, vars
  <2>2. faults' \subseteq faults
    BY <1>8 DEF ServerStep, Robot, RobotBegin, RobotMove, RobotSettle, ServerError,
       StreamFallsSilent, vars
  <2>3. QED
    BY <2>1, <2>2 DEF StreamIsSilent
<1>9. QED
  BY <1>1, <1>2, <1>3, <1>4, <1>5, <1>6, <1>7, <1>8, Steps DEF OthersStep

\* Where a group stands that is going to end.
Starting == cntrl = "starting" /\ stopEvent

Yielding == cntrl = "yielded" /\ stopEvent

Waiting == cntrl = "waiting" /\ stopEvent

ShuttingDown(monitorDone, consumerDone) ==
    /\ cntrl \in {"closing", "raising"}
    /\ monitorDone => monitor = "done"
    /\ consumerDone => consumer = "done"

GroupIsOver == cntrl \in Finished

NothingLeftToYield == commands = <<>>

\* One step of each: it does not fall back, and the step that fairness grants takes it on.
LEMMA StoppingSteps ==
    /\ IInv /\ [Next]_vars /\ Starting => Starting' \/ Waiting' \/ ShuttingDown(FALSE, FALSE)'
    /\ IInv /\ [Next]_vars /\ Starting /\ StartIsDecided =>
          (Starting /\ StartIsDecided)' \/ Waiting' \/ ShuttingDown(FALSE, FALSE)'
    /\ IInv /\ Starting /\ ~StartIsDecided => MonitorIsDue
    /\ IInv /\ Starting /\ ~StartIsDecided /\ <<Monitor>>_vars => (Starting /\ StartIsDecided)'
    /\ Starting /\ StartIsDecided => CntrlIsDue
    /\ IInv /\ Starting /\ <<Cntrl>>_vars => Waiting' \/ ShuttingDown(FALSE, FALSE)'
    /\ IInv /\ [Next]_vars /\ Yielding => Yielding' \/ Waiting' \/ ShuttingDown(FALSE, FALSE)'
    /\ IInv /\ [Next]_vars /\ Yielding /\ NothingLeftToYield =>
          (Yielding /\ NothingLeftToYield)' \/ Waiting' \/ ShuttingDown(FALSE, FALSE)'
    /\ Yielding \/ Waiting => CntrlIsDue
    /\ IInv /\ Yielding /\ ~NothingLeftToYield /\ <<Cntrl>>_vars =>
          (Yielding /\ NothingLeftToYield)'
    /\ IInv /\ Yielding /\ NothingLeftToYield /\ <<Cntrl>>_vars => Waiting'
    /\ IInv /\ [Next]_vars /\ Waiting => Waiting' \/ ShuttingDown(FALSE, FALSE)'
    /\ IInv /\ Waiting /\ <<Cntrl>>_vars => ShuttingDown(FALSE, FALSE)'
<1> USE DEF Starting, Yielding, Waiting, ShuttingDown, StartIsDecided, NothingLeftToYield
<1>1. IInv /\ [Next]_vars /\ Starting => Starting' \/ Waiting' \/ ShuttingDown(FALSE, FALSE)'
  BY WhileStopping DEF InGroup
<1>2. IInv /\ [Next]_vars /\ Starting /\ StartIsDecided =>
         (Starting /\ StartIsDecided)' \/ Waiting' \/ ShuttingDown(FALSE, FALSE)'
  <2> SUFFICES ASSUME IInv, [Next]_vars, Starting, StartIsDecided, cntrl' = "starting"
               PROVE  streamReady' \/ StreamIsSilent' \/ monitor' = "done"
    BY <1>1
  <2>1. monitor = "done" => monitor' = "done"
    BY WhileStopping DEF InGroup
  <2>2. (streamReady => streamReady') /\ (StreamIsSilent => StreamIsSilent')
    BY WhileStopping DEF InGroup
  <2>3. QED
    BY <2>1, <2>2
<1>3. IInv /\ Starting /\ ~StartIsDecided => MonitorIsDue
  BY DEF IInv, TypeOK, TaskStates, TasksFollowCntrl, InGroup, MonitorIsDue
<1>4. IInv /\ Starting /\ ~StartIsDecided /\ <<Monitor>>_vars => (Starting /\ StartIsDecided)'
  <2> SUFFICES ASSUME IInv, Starting, Monitor, [Next]_vars
               PROVE  (Starting /\ StartIsDecided)'
    BY DEF Next
  <2>1. MonitorStep
    BY DEF Monitor, MonitorCancelled
  <2>2. cntrl' = cntrl /\ streamReady' = TRUE
    BY <2>1 DEF MonitorStep
  <2>3. stopEvent'
    BY WhileStopping DEF InGroup
  <2>4. QED
    BY <2>2, <2>3
<1>5. Starting /\ StartIsDecided => CntrlIsDue
  BY DEF CntrlIsDue
<1>6. IInv /\ Starting /\ <<Cntrl>>_vars => Waiting' \/ ShuttingDown(FALSE, FALSE)'
  BY DEF Cntrl, CntrlInitialize, CntrlInitialized, CntrlReady, CntrlStartupTimeout,
     TakeIntent, YieldNext, IntentDone, StopRequested, CntrlExit
<1>7. IInv /\ [Next]_vars /\ Yielding => Yielding' \/ Waiting' \/ ShuttingDown(FALSE, FALSE)'
  BY WhileStopping DEF InGroup
<1>8. IInv /\ [Next]_vars /\ Yielding /\ NothingLeftToYield =>
         (Yielding /\ NothingLeftToYield)' \/ Waiting' \/ ShuttingDown(FALSE, FALSE)'
  BY WhileStopping DEF InGroup
<1>9. Yielding \/ Waiting => CntrlIsDue
  BY DEF CntrlIsDue
<1>10. IInv /\ Yielding /\ ~NothingLeftToYield /\ <<Cntrl>>_vars =>
          (Yielding /\ NothingLeftToYield)'
  <2> SUFFICES ASSUME IInv, Yielding, ~NothingLeftToYield, Cntrl
               PROVE  (Yielding /\ NothingLeftToYield)'
    OBVIOUS
  <2>1. YieldNext
    BY DEF Cntrl, CntrlInitialize, CntrlInitialized, CntrlReady, CntrlStartupTimeout,
       TakeIntent, IntentDone, StopRequested, CntrlExit
  <2>2. UNCHANGED <<cntrl, stopEvent>> /\ commands' = Tail(commands)
    BY <2>1 DEF YieldNext
  <2>3. commands \in Seq(Commands) /\ Len(commands) = 1
    BY DEF IInv, TypeOK, DispatchInv, RestIsMovement
  <2>4. Tail(commands) \in Seq(Commands) /\ Len(Tail(commands)) = 0
    BY <2>3, HeadTailProperties
  <2>5. QED
    BY <2>2, <2>4, EmptySeq
<1>11. IInv /\ Yielding /\ NothingLeftToYield /\ <<Cntrl>>_vars => Waiting'
  BY DEF Cntrl, CntrlInitialize, CntrlInitialized, CntrlReady, CntrlStartupTimeout,
     TakeIntent, YieldNext, IntentDone, StopRequested, CntrlExit
<1>12. IInv /\ [Next]_vars /\ Waiting => Waiting' \/ ShuttingDown(FALSE, FALSE)'
  BY WhileStopping DEF InGroup
<1>13. IInv /\ Waiting /\ <<Cntrl>>_vars => ShuttingDown(FALSE, FALSE)'
  BY DEF Cntrl, CntrlInitialize, CntrlInitialized, CntrlReady, CntrlStartupTimeout,
     TakeIntent, YieldNext, IntentDone, StopRequested, CntrlExit
<1>14. QED
  BY <1>1, <1>2, <1>3, <1>4, <1>5, <1>6, <1>7, <1>8, <1>9, <1>10, <1>11, <1>12, <1>13

\* The same of a group that shuts down: the monitor, the consumer, the end.
LEMMA ShutDownSteps ==
    /\ IInv /\ [Next]_vars /\ ShuttingDown(FALSE, FALSE) =>
          ShuttingDown(FALSE, FALSE)' \/ GroupIsOver'
    /\ IInv /\ [Next]_vars /\ ShuttingDown(TRUE, FALSE) =>
          ShuttingDown(TRUE, FALSE)' \/ GroupIsOver'
    /\ IInv /\ [Next]_vars /\ ShuttingDown(TRUE, TRUE) =>
          ShuttingDown(TRUE, TRUE)' \/ GroupIsOver'
    /\ IInv /\ ShuttingDown(FALSE, FALSE) /\ ~ShuttingDown(TRUE, FALSE) => MonitorIsDue
    /\ IInv /\ ShuttingDown(TRUE, FALSE) /\ ~ShuttingDown(TRUE, TRUE) => ConsumerIsDue
    /\ ShuttingDown(TRUE, TRUE) => CntrlIsDue
    /\ IInv /\ ShuttingDown(FALSE, FALSE) /\ <<Monitor>>_vars => ShuttingDown(TRUE, FALSE)'
    /\ IInv /\ ShuttingDown(TRUE, FALSE) /\ <<Consumer>>_vars => ShuttingDown(TRUE, TRUE)'
    /\ IInv /\ ShuttingDown(TRUE, TRUE) /\ <<Cntrl>>_vars => GroupIsOver'
<1> USE DEF ShuttingDown, GroupIsOver
<1>1. /\ IInv /\ [Next]_vars /\ ShuttingDown(FALSE, FALSE) =>
            ShuttingDown(FALSE, FALSE)' \/ GroupIsOver'
      /\ IInv /\ [Next]_vars /\ ShuttingDown(TRUE, FALSE) =>
            ShuttingDown(TRUE, FALSE)' \/ GroupIsOver'
      /\ IInv /\ [Next]_vars /\ ShuttingDown(TRUE, TRUE) =>
            ShuttingDown(TRUE, TRUE)' \/ GroupIsOver'
  BY WhileStopping DEF InGroup
<1>2. /\ IInv /\ ShuttingDown(FALSE, FALSE) /\ ~ShuttingDown(TRUE, FALSE) => MonitorIsDue
      /\ IInv /\ ShuttingDown(TRUE, FALSE) /\ ~ShuttingDown(TRUE, TRUE) => ConsumerIsDue
      /\ ShuttingDown(TRUE, TRUE) => CntrlIsDue
  BY DEF IInv, TypeOK, TaskStates, TasksFollowCntrl, InGroup, MonitorIsDue, ConsumerIsDue,
     CntrlIsDue
<1>3. IInv /\ ShuttingDown(FALSE, FALSE) /\ <<Monitor>>_vars => ShuttingDown(TRUE, FALSE)'
  BY DEF Monitor, MonitorStep, MonitorCancelled, MonitorFinally, Active
<1>4. IInv /\ ShuttingDown(TRUE, FALSE) /\ <<Consumer>>_vars => ShuttingDown(TRUE, TRUE)'
  BY DEF Consumer, ConsumerStep, ConsumerCancelled, Active
<1>5. IInv /\ ShuttingDown(TRUE, TRUE) /\ <<Cntrl>>_vars => GroupIsOver'
  BY DEF Cntrl, CntrlInitialize, CntrlInitialized, CntrlReady, CntrlStartupTimeout,
     TakeIntent, YieldNext, IntentDone, StopRequested, CntrlExit, Finished
<1>6. QED
  BY <1>1, <1>2, <1>3, <1>4, <1>5

LEMMA ShutDownEnds ==
    FairSpec /\ []StoppingIsFree => (ShuttingDown(FALSE, FALSE) ~> GroupIsOver)
<1>1. FairSpec /\ []StoppingIsFree =>
         (ShuttingDown(FALSE, FALSE) ~> ShuttingDown(TRUE, FALSE) \/ GroupIsOver)
  BY ShutDownSteps, Invariant, PTL DEF FairSpec, Spec, Fairness, StoppingIsFree
<1>2. FairSpec /\ []StoppingIsFree =>
         (ShuttingDown(TRUE, FALSE) ~> ShuttingDown(TRUE, TRUE) \/ GroupIsOver)
  BY ShutDownSteps, Invariant, PTL DEF FairSpec, Spec, Fairness, StoppingIsFree
<1>3. FairSpec /\ []StoppingIsFree => (ShuttingDown(TRUE, TRUE) ~> GroupIsOver)
  BY ShutDownSteps, Invariant, PTL DEF FairSpec, Spec, Fairness, StoppingIsFree
<1>4. QED
  BY <1>1, <1>2, <1>3, PTL

(***************************************************************************)
(* Detaching, from wherever cntrl() stands in its group, or an error in    *)
(* the group ends cntrl(): a start is decided one way or the other, what   *)
(* is left of an intent is yielded, the request loop wakes and finds the   *)
(* stop event, and the group gets its two tasks (935-948, 1002-1045).      *)
(* That the tasks can take these steps when they are due is                *)
(* StoppingIsFree.                                                         *)
(***************************************************************************)
THEOREM DetachedGroupEnds == FairSpec /\ []StoppingIsFree => DetachEndsCntrl
<1>1. FairSpec /\ []StoppingIsFree => (Waiting ~> GroupIsOver)
  <2>1. FairSpec /\ []StoppingIsFree => (Waiting ~> ShuttingDown(FALSE, FALSE))
    BY StoppingSteps, Invariant, PTL DEF FairSpec, Spec, Fairness, StoppingIsFree
  <2>2. QED
    BY <2>1, ShutDownEnds, PTL
<1>2. FairSpec /\ []StoppingIsFree => (Yielding ~> GroupIsOver)
  <2>1. FairSpec /\ []StoppingIsFree =>
           (Yielding ~> (Yielding /\ NothingLeftToYield) \/ Waiting \/ ShuttingDown(FALSE, FALSE))
    BY StoppingSteps, Invariant, PTL DEF FairSpec, Spec, Fairness, StoppingIsFree
  <2>2. FairSpec /\ []StoppingIsFree =>
           (Yielding /\ NothingLeftToYield ~> Waiting \/ ShuttingDown(FALSE, FALSE))
    BY StoppingSteps, Invariant, PTL DEF FairSpec, Spec, Fairness, StoppingIsFree
  <2>3. QED
    BY <1>1, <2>1, <2>2, ShutDownEnds, PTL
<1>3. FairSpec /\ []StoppingIsFree => (Starting ~> GroupIsOver)
  <2>1. FairSpec /\ []StoppingIsFree =>
           (Starting ~> (Starting /\ StartIsDecided) \/ Waiting \/ ShuttingDown(FALSE, FALSE))
    BY StoppingSteps, Invariant, PTL DEF FairSpec, Spec, Fairness, StoppingIsFree
  <2>2. FairSpec /\ []StoppingIsFree =>
           (Starting /\ StartIsDecided ~> Waiting \/ ShuttingDown(FALSE, FALSE))
    BY StoppingSteps, Invariant, PTL DEF FairSpec, Spec, Fairness, StoppingIsFree
  <2>3. QED
    BY <1>1, <2>1, <2>2, ShutDownEnds, PTL
<1>4. cntrl \in InGroup /\ (stopEvent \/ ~Active) =>
         Starting \/ Yielding \/ Waiting \/ ShuttingDown(FALSE, FALSE)
  BY DEF InGroup, Active, Starting, Yielding, Waiting, ShuttingDown
<1>5. GroupIsOver <=> cntrl \in Finished
  BY DEF GroupIsOver
<1>6. QED
  BY <1>1, <1>2, <1>3, <1>4, <1>5, ShutDownEnds, PTL DEF DetachEndsCntrl

-------------------------------------------------------------------------------
(* The callers of a cursor that is over. *)

(***************************************************************************)
(* cntrl() is over without its task group ever having existed: nobody is   *)
(* left to detach the cursor.                                              *)
(***************************************************************************)
StartFailed == cntrl \in Finished /\ monitor = "none"

\* What makes a start fail: the answer to the initialization, or a cancellation.
StartWasRefused == {"init_rejected", "outer_cancel"} \cap (Faults \ faults) # {}

(***************************************************************************)
(* Until the group exists, the only answer there can be is the one to the  *)
(* initialization; a cntrl() that is over had a group, whose monitor has   *)
(* run its finally block, unless its start failed.                         *)
(***************************************************************************)
GroupInv ==
    /\ cntrl = "created" => requests = <<>> /\ responses = <<>>
    /\ cntrl = "initializing" =>
          \/ requests = <<InitCommand>> /\ responses = <<>>
          \/ requests = <<>> /\ responses = <<"init_ok">>
          \/ requests = <<>> /\ responses = <<"init_rejected">> /\ StartWasRefused
    /\ cntrl \in Finished => monitor = "done" \/ StartWasRefused

LEMMA NextGroup ==
    ASSUME IInv, GroupInv, [Next]_vars
    PROVE  GroupInv'
<1> USE DEF IInv, TypeOK
<1>0. faults' \subseteq faults => (StartWasRefused => StartWasRefused')
  BY DEF StartWasRefused
<1>1. CASE (\E type \in {"forward", "backward"}, target \in Targets, speed \in BOOLEAN :
              Move(type, target, speed))
           \/ Pause \/ Detach \/ \E i \in Ops : CancelAwaiter(i)
  <2>1. UNCHANGED <<cntrl, monitor, requests, responses, faults>>
    BY <1>1 DEF Move, Pause, Detach, CancelAwaiter, taskVars, childVars, wireVars
  <2>2. QED
    BY <2>1 DEF GroupInv, StartWasRefused
<1>2. CASE MonitorStep \/ MonitorEnds
  <2>1. /\ cntrl \in InGroup /\ cntrl' \in {cntrl, "raising"}
    BY <1>2 DEF MonitorStep, MonitorEnds, MonitorCancelled, StreamBreaks, Active, InGroup
  <2>2. QED
    BY <2>1 DEF GroupInv, InGroup, Finished
<1>3. CASE CntrlInitialize
  BY <1>3 DEF CntrlInitialize, GroupInv, Finished
<1>4. CASE CntrlInitialized
  BY <1>4 DEF CntrlInitialized, GroupInv, Finished, StartWasRefused
<1>5. CASE CntrlExit
  BY <1>5 DEF CntrlExit, GroupInv, Finished, childVars, StartWasRefused
<1>6. CASE \/ CntrlReady \/ CntrlStartupTimeout \/ TakeIntent \/ YieldNext \/ IntentDone
           \/ StopRequested \/ Consumer
  <2>1. cntrl' \in InGroup
    BY <1>6 DEF CntrlReady, CntrlStartupTimeout, TakeIntent, YieldNext, IntentDone,
       StopRequested, Consumer, ConsumerStep, ConsumerCancelled, InGroup, Active
  <2>2. QED
    BY <2>1 DEF GroupInv, InGroup, Finished
<1>7. CASE ServerStep
  <2>1. /\ UNCHANGED <<cntrl, monitor>> /\ requests # <<>> /\ requests' = Tail(requests)
        /\ faults' \subseteq faults
    BY <1>7 DEF ServerStep, taskVars, childVars
  <2>2. ASSUME requests = <<InitCommand>>, responses = <<>>
        PROVE  \/ requests' = <<>> /\ responses' = <<"init_ok">>
               \/ requests' = <<>> /\ responses' = <<"init_rejected">> /\ StartWasRefused'
    <3>1. Head(requests).kind = "init" /\ requests' = <<>>
      BY <2>1, <2>2 DEF InitCommand
    <3>2. \/ responses' = Append(responses, "init_ok")
          \/ /\ responses' = Append(responses, "init_rejected")
             /\ "init_rejected" \in faults /\ faults' = faults \ {"init_rejected"}
      BY <1>7, <3>1 DEF ServerStep
    <3>3. "init_rejected" \in faults /\ faults' = faults \ {"init_rejected"} => StartWasRefused'
      BY DEF StartWasRefused
    <3>4. QED
      BY <2>2, <3>1, <3>2, <3>3
  <2>3. QED
    BY <1>0, <2>1, <2>2 DEF GroupInv
<1>8. CASE Robot
  <2>1. UNCHANGED <<cntrl, monitor, requests, responses, faults>>
    BY <1>8 DEF Robot, RobotBegin, RobotMove, RobotSettle, taskVars, childVars, wireVars
  <2>2. QED
    BY <2>1 DEF GroupInv, StartWasRefused
<1>9. CASE OuterCancel
  <2>1. StartWasRefused'
    BY <1>9 DEF OuterCancel, StartWasRefused
  <2>2. cntrl' \in {"failed", "raising"}
    BY <1>9 DEF OuterCancel
  <2>3. QED
    BY <2>1, <2>2 DEF GroupInv
<1>10. CASE ServerError
  <2>1. cntrl' \in InGroup
    BY <1>10 DEF ServerError, Active, InGroup, taskVars
  <2>2. QED
    BY <2>1 DEF GroupInv, InGroup, Finished
<1>11. CASE StreamFallsSilent
  BY <1>11 DEF StreamFallsSilent, taskVars, GroupInv, Finished
<1>12. CASE UNCHANGED vars
  BY <1>12 DEF vars, taskVars, childVars, wireVars, GroupInv, StartWasRefused
<1>13. QED
  BY <1>1, <1>2, <1>3, <1>4, <1>5, <1>6, <1>7, <1>8, <1>9, <1>10, <1>11, <1>12, Steps
     DEF OthersStep, Cntrl

(***************************************************************************)
(* Nothing but a refused initialization or a cancellation leaves a cursor  *)
(* without a monitor that has run (cntrl() 995-1003).                      *)
(***************************************************************************)
THEOREM StartFailsOnlyIfRefused == Spec => [](StartFailed => StartWasRefused)
<1>1. Init => GroupInv
  BY DEF Init, GroupInv, Finished
<1>2. GroupInv => (StartFailed => StartWasRefused)
  BY DEF GroupInv, StartFailed, Finished
<1>3. QED
  BY <1>1, <1>2, NextGroup, Invariant, PTL DEF Spec

(***************************************************************************)
(* When cntrl() is over, no caller is left waiting, unless it was over     *)
(* before its task group existed: the monitor's finally block detaches     *)
(* the cursor whatever ended the group, and a detached cursor hands out no *)
(* future (985, 1131-1135).                                                *)
(***************************************************************************)
THEOREM EndReleasesCallers == Spec /\ []~StartFailed => FinishedReleasesCallers
<1> DEFINE Released == \A i \in Ops : fut[i] # "pending"
<1>1. IInv /\ ~StartFailed => (cntrl \in Finished => Released)
  BY DEF IInv, TypeOK, TaskStates, TasksFollowCntrl, FuturesInv, StoppedMeansNoPending, StartFailed, Finished
<1>2. QED
  BY <1>1, Invariant, PTL DEF FinishedReleasesCallers

-------------------------------------------------------------------------------
(* The cursor as its owner sees it.                                        *)

\* A detached cursor has no operation in progress.
LEMMA NothingInProgress ==
    ASSUME IInv, stopEvent
    PROVE  ~InProgress
BY MaxOpsAssumption DEF IInv, FuturesInv, StoppedMeansNoPending, InProgress, TypeOK, Ops, None

\* The monitor runs, is done, or does not exist yet.
LEMMA StatesOf ==
    ASSUME IInv
    PROVE  /\ monitor = "running" => ExecutionOfStates = "running"
           /\ monitor = "done" => ExecutionOfStates = "over" /\ stopEvent /\ sentinel
           /\ cntrl = "created" => ExecutionOfStates = "none" /\ monitor = "none"
           /\ cntrl = "initializing" => ExecutionOfStates = "initializing" /\ monitor = "none"
           /\ cntrl \in Finished /\ monitor = "none" => ExecutionOfStates = cntrl
           /\ cntrl \in InGroup => monitor \in {"running", "done"}
BY DEF IInv, TypeOK, TasksFollowCntrl, TaskStates, ExecutionOfStates, Finished, InGroup

\* Starting an operation puts one in progress, and its intent in the slot.
LEMMA OperationStarts ==
    ASSUME IInv, NEW type, NEW target, NEW speed,
           StartOperation(type), SetIntent(type, target, speed)
    PROVE  InProgress' /\ (intent # NoIntent)'
<1>1. started + 1 \in Ops /\ started + 1 # None
  BY MaxOpsAssumption DEF IInv, TypeOK, StartOperation, Ops, None
<1>2. fut'[started + 1] = "pending" /\ operation' = started + 1
  BY <1>1 DEF StartOperation
<1>3. intent'.op = started + 1 /\ NoIntent.op = None
  BY DEF SetIntent, NoIntent
<1>4. QED
  BY <1>1, <1>2, <1>3 DEF InProgress

LEMMA NextOwned ==
    ASSUME IInv, IInv', [Next]_vars
    PROVE  [Owned!CursorNext]_(Owned!cursorVars)
<1> USE DEF Owned!CursorNext, Owned!cursorVars
<1>0. /\ stopEvent => ~InProgress
      /\ stopEvent' => ~InProgress'
  <2>1. stopEvent' => ~InProgress'
    BY MaxOpsAssumption DEF IInv, FuturesInv, StoppedMeansNoPending, InProgress, TypeOK, Ops, None
  <2>2. QED
    BY <2>1, NothingInProgress
<1>1. CASE \E type \in {"forward", "backward"}, target \in Targets, speed \in BOOLEAN :
              Move(type, target, speed)
  <2>1. InProgress' /\ (intent # NoIntent)'
    BY <1>1, OperationStarts DEF Move
  <2>2. ~stopEvent /\ UNCHANGED <<stopEvent, sentinel, currentLocation, monitor, cntrl>>
    BY <1>1 DEF Move, taskVars, childVars, monitorVars
  <2>3. UNCHANGED ExecutionOfStates
    BY <2>2 DEF ExecutionOfStates
  <2>4. QED
    BY <2>1, <2>2, <2>3 DEF Owned!Operate
<1>2. CASE Pause
  <2>1. InProgress' /\ (intent # NoIntent)'
    BY <1>2, OperationStarts DEF Pause
  <2>2. UNCHANGED <<stopEvent, sentinel, currentLocation, monitor, cntrl>>
    BY <1>2 DEF Pause, taskVars, childVars, monitorVars
  <2>3. ~stopEvent
    BY <1>0, <1>2 DEF Pause
  <2>4. UNCHANGED ExecutionOfStates
    BY <2>2 DEF ExecutionOfStates
  <2>5. QED
    BY <2>1, <2>2, <2>3, <2>4 DEF Owned!Operate
<1>3. CASE Detach
  <2>1. stopEvent' = TRUE /\ UNCHANGED <<intent, sentinel, currentLocation, monitor, cntrl>>
    BY <1>3 DEF Detach, DetachFrom, taskVars, childVars, monitorVars
  <2>2. InProgress' = FALSE
    BY <1>0, <2>1 DEF InProgress
  <2>3. UNCHANGED ExecutionOfStates
    BY <2>1 DEF ExecutionOfStates
  <2>4. QED
    BY <2>1, <2>2, <2>3 DEF Owned!Detach
<1>4. CASE \E i \in Ops : CancelAwaiter(i)
  <2>1. PICK i \in Ops : CancelAwaiter(i)
    BY <1>4
  <2>2. i = operation /\ operation # None /\ fut[operation] = "pending"
    BY <2>1 DEF CancelAwaiter, IInv, FuturesInv, OnlyCurrentPending, Ops, None
  <2>3. InProgress /\ InProgress' = FALSE
    BY <2>1, <2>2 DEF CancelAwaiter, InProgress, IInv, TypeOK
  <2>4. UNCHANGED <<stopEvent, intent, sentinel, currentLocation, monitor, cntrl>>
    BY <2>1 DEF CancelAwaiter, intentVars, taskVars, childVars, monitorVars
  <2>5. UNCHANGED ExecutionOfStates
    BY <2>4 DEF ExecutionOfStates
  <2>6. QED
    BY <2>3, <2>4, <2>5 DEF Owned!Abandon
<1>5. CASE MonitorStep
  <2>1. ExecutionOfStates = "running" /\ UNCHANGED <<intent, cntrl>>
    BY <1>5, StatesOf DEF MonitorStep
  <2>2. CASE ~InProgress \/ ~HasExecute(robot)
    <3>1. UNCHANGED <<fut, operation, stopEvent, sentinel, currentLocation, monitor>>
      BY <1>5, <2>2 DEF MonitorStep, handlerVars, monitorVars
    <3>2. UNCHANGED <<InProgress, ExecutionOfStates>>
      BY <2>1, <3>1 DEF InProgress, ExecutionOfStates
    <3>3. QED
      BY <2>1, <3>1, <3>2
  <2>3. CASE InProgress /\ HandleReport /\ UNCHANGED <<stopEvent, sentinel, monitor>>
    <3>1. InProgress' \in BOOLEAN
      BY DEF InProgress
    <3>2. UNCHANGED ExecutionOfStates
      BY <2>1, <2>3 DEF ExecutionOfStates
    <3>3. QED
      BY <2>1, <2>3, <3>1, <3>2 DEF Owned!Report
  <2>4. CASE InProgress /\ HandleReport /\ \E futures : MonitorFinally(futures)
    <3>1. monitor' = "done" /\ stopEvent' = TRUE /\ sentinel' = TRUE
      BY <2>4 DEF MonitorFinally, DetachFrom
    <3>2. ExecutionOfStates' = "over" /\ InProgress' = FALSE
      BY <1>0, <3>1 DEF ExecutionOfStates, InProgress
    <3>3. QED
      BY <2>1, <2>4, <3>1, <3>2 DEF Owned!Close
  <2>5. InProgress /\ HasExecute(robot) => HandleReport
    BY <1>5 DEF MonitorStep
  <2>6. HandleReport => UNCHANGED <<stopEvent, sentinel, monitor>> \/ \E futures : MonitorFinally(futures)
    BY DEF HandleReport
  <2>7. QED
    BY <2>2, <2>3, <2>4, <2>5, <2>6
<1>6. CASE MonitorEnds
  <2>1. /\ monitor = "running" /\ monitor' = "done" /\ stopEvent' = TRUE /\ sentinel' = TRUE
        /\ UNCHANGED <<intent, currentLocation>>
    BY <1>6 DEF MonitorEnds, MonitorCancelled, StreamBreaks, MonitorFinally, DetachFrom
  <2>2. ExecutionOfStates = "running" /\ ExecutionOfStates' = "over" /\ InProgress' = FALSE
    BY <1>0, <2>1 DEF ExecutionOfStates, InProgress
  <2>3. QED
    BY <2>1, <2>2 DEF Owned!Close
<1>7. CASE OthersStep
  <2>1. UNCHANGED <<fut, operation, stopEvent>>
    BY <1>7, OthersKeepFutures
  <2>2. UNCHANGED InProgress
    BY <2>1 DEF InProgress
  <2>3. CASE CntrlInitialize
    <3>1. cntrl = "created" /\ cntrl' = "initializing" /\ UNCHANGED <<intent, sentinel, currentLocation, monitor>>
      BY <2>3 DEF CntrlInitialize, intentVars, childVars, monitorVars
    <3>2. ExecutionOfStates = "none" /\ ExecutionOfStates' = "initializing"
      BY <3>1, StatesOf DEF ExecutionOfStates
    <3>3. QED
      BY <2>1, <2>2, <3>1, <3>2 DEF Owned!Execute
  <2>4. CASE CntrlInitialized
    <3>1. /\ cntrl = "initializing" /\ UNCHANGED <<intent, sentinel, currentLocation>>
          /\ \/ monitor' = "running"
             \/ cntrl' = "failed" /\ monitor' = monitor
      BY <2>4 DEF CntrlInitialized, intentVars, monitorVars
    <3>2. /\ ExecutionOfStates = "initializing"
          /\ ExecutionOfStates' \in {"running", "failed"}
      BY <3>1, StatesOf DEF ExecutionOfStates
    <3>3. QED
      BY <2>1, <2>2, <3>1, <3>2 DEF Owned!Begin, Owned!StartFails
  <2>5. CASE OuterCancel
    <3>1. /\ UNCHANGED <<intent, sentinel, currentLocation, monitor>>
          /\ \/ cntrl \in {"created", "initializing"} /\ cntrl' = "failed"
             \/ cntrl \in InGroup
      BY <2>5 DEF OuterCancel, intentVars, childVars, monitorVars, Active, InGroup, taskVars
    <3>2. CASE cntrl \in {"created", "initializing"} /\ cntrl' = "failed"
      <4>1. ExecutionOfStates \in {"none", "initializing"} /\ ExecutionOfStates' = "failed"
        BY <3>1, <3>2, StatesOf DEF ExecutionOfStates
      <4>2. QED
        BY <2>1, <2>2, <3>1, <4>1 DEF Owned!StartFails
    <3>3. CASE cntrl \in InGroup
      <4>1. UNCHANGED ExecutionOfStates
        BY <3>1, <3>3, StatesOf DEF ExecutionOfStates
      <4>2. QED
        BY <2>1, <2>2, <3>1, <4>1
    <3>4. QED
      BY <3>1, <3>2, <3>3
  <2>6. CASE TakeIntent
    <3>1. /\ cntrl \in InGroup /\ ~stopEvent /\ intent' = NoIntent
          /\ UNCHANGED <<sentinel, currentLocation, monitor>>
      BY <2>6 DEF TakeIntent, InGroup, childVars, monitorVars
    <3>2. ExecutionOfStates = "running" /\ ExecutionOfStates' = "running"
      BY <3>1, StatesOf DEF ExecutionOfStates
    <3>3. QED
      BY <2>1, <2>2, <3>1, <3>2 DEF Owned!SendIntent
  <2>7. CASE ~CntrlInitialize /\ ~CntrlInitialized /\ ~OuterCancel /\ ~TakeIntent
    <3>1. /\ UNCHANGED <<intent, sentinel, currentLocation, monitor>>
          /\ cntrl' = cntrl \/ cntrl \in InGroup
      <4> USE DEF intentVars, monitorVars, taskVars, childVars
      <4>1. CASE Cntrl
        BY <2>7, <4>1 DEF Cntrl, CntrlReady, CntrlStartupTimeout, YieldNext, IntentDone,
           StopRequested, CntrlExit, InGroup
      <4>2. CASE Consumer
        BY <4>2 DEF Consumer, ConsumerStep, ConsumerCancelled, Active, InGroup
      <4>3. CASE ServerStep \/ Robot \/ ServerError \/ StreamFallsSilent \/ UNCHANGED vars
        BY <4>3 DEF ServerStep, Robot, RobotBegin, RobotMove, RobotSettle, ServerError,
           StreamFallsSilent, vars
      <4>4. QED
        BY <1>7, <2>7, <4>1, <4>2, <4>3 DEF OthersStep
    <3>2. UNCHANGED ExecutionOfStates
      BY <3>1, StatesOf DEF ExecutionOfStates
    <3>3. QED
      BY <2>1, <2>2, <3>1, <3>2
  <2>8. QED
    BY <2>3, <2>4, <2>5, <2>6, <2>7
<1>8. QED
  BY <1>1, <1>2, <1>3, <1>4, <1>5, <1>6, <1>7, Steps DEF IInv

(***************************************************************************)
(* The cursor implements DetachableCursor: whoever calls it, whatever      *)
(* fails, what its owner can rely on holds.                                *)
(***************************************************************************)
THEOREM CursorKeepsItsPromises == Spec => OwnerCanRely
<1>1. Init => Owned!CursorInit
  BY DEF Init, Owned!CursorInit, Owned!Untouched, ExecutionOfStates, InProgress
<1>2. IInv /\ IInv' /\ [Next]_vars => [Owned!CursorNext]_(Owned!cursorVars)
  BY NextOwned
<1>3. QED
  BY <1>1, <1>2, Invariant, PTL DEF Spec, OwnerCanRely, Owned!CursorSpec

================================================================================

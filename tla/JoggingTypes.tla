------------------------------ MODULE JoggingTypes ------------------------------
(***************************************************************************)
(* Type correctness of sessions, owners and writers.                       *)
(***************************************************************************)
EXTENDS JoggingSystem, TLAPS

PlaceOK == pc \in IF owner = "executor" THEN ExecutorPlaces ELSE JoggerPlaces

LEMMA SessionTypeFrame ==
    ASSUME SessionTypeOK, UNCHANGED sessionVars, faults' \subseteq faults
    PROVE  SessionTypeOK'
BY DEF SessionTypeOK, sessionVars, slotVars, flagVars, trackerVars

LEMMA MayOnlyUses ==
    ASSUME NEW fault, May(fault)
    PROVE  faults' \subseteq faults
BY DEF May

LEMMA SessionStepType ==
    ASSUME SessionTypeOK, NEW s \in Sessions, SessionStep(s)
    PROVE  SessionTypeOK'
<1> USE DEF SessionTypeOK, LoopStates, Failures, slotVars, flagVars, trackerVars
<1>1. CASE Respond(s)
  <2>1. CASE Confirmed(s)
    BY <1>1, <2>1 DEF Respond, FailAs
  <2>2. CASE ~Confirmed(s)
    <3>1. ticks' \in [Sessions -> 0..(ConfirmTicks - 1)]
      BY <1>1, <2>2, ConfirmTicksAssumption DEF Respond, Confirmed, CountedTicks
    <3>2. QED
      BY <1>1, <2>2, <3>1 DEF Respond, NextRequest, CaptureChunk, NoChunk
  <2>3. QED
    BY <2>1, <2>2
<1>2. CASE WakeForChunk(s)
  BY <1>2 DEF WakeForChunk, CaptureChunk, NoChunk
<1>3. CASE Resolve(s) \/ Open(s) \/ Sent(s) \/ LoopCancelled(s) \/ StreamCancelled(s)
  BY <1>3 DEF Resolve, Open, Sent, LoopCancelled, StreamCancelled
<1>4. QED
  BY <1>1, <1>2, <1>3 DEF SessionStep

LEMMA SessionFaultType ==
    ASSUME SessionTypeOK, NEW s \in Sessions, SessionFault(s)
    PROVE  SessionTypeOK'
<1> USE DEF SessionTypeOK, LoopStates, Failures, slotVars, flagVars, trackerVars
<1>1. CASE RespondAndStop(s)
  <2>1. ticks' \in [Sessions -> 0..(ConfirmTicks - 1)]
    BY <1>1, ConfirmTicksAssumption DEF RespondAndStop, Confirmed, CountedTicks
  <2>2. QED
    BY <1>1, <2>1, MayOnlyUses DEF RespondAndStop
<1>2. CASE Rejected(s) \/ Lost(s) \/ MotionErrorArrives(s)
  BY <1>2, MayOnlyUses DEF Rejected, Lost, MotionErrorArrives, FailAs
<1>3. CASE \/ ResolveFails(s) \/ Ended(s) \/ Crash(s) \/ Pause(s) \/ Recover(s)
           \/ StateLost(s)
  BY <1>3, MayOnlyUses DEF ResolveFails, Ended, Crash, Pause, Recover, StateLost
<1>4. QED
  BY <1>1, <1>2, <1>3 DEF SessionFault

\* What the owners do to sessions.
LEMMA OwnerCallsType ==
    ASSUME SessionTypeOK, NEW s \in Sessions
    PROVE  /\ CancelLoop(s) => /\ running' \in [Sessions -> BOOLEAN]
                               /\ loop' \in [Sessions -> LoopStates]
           /\ CreateTasks(s) =>
                 /\ loop' \in [Sessions -> LoopStates]
                 /\ stream' \in [Sessions -> {"none", "open", "cancelling", "done"}]
           /\ CancelStream(s) =>
                 stream' \in [Sessions -> {"none", "open", "cancelling", "done"}]
           /\ \A some \in SUBSET Sessions : UpdateChunk(some) =>
                 /\ pending' \in [Sessions -> Nat]
                 /\ pushed' \in [Sessions -> Nat]
                 /\ taken' \in [Sessions -> Nat]
           /\ \A some \in SUBSET Sessions : SetRunning(some) =>
                 running' \in [Sessions -> BOOLEAN]
<1> USE DEF SessionTypeOK, LoopStates
<1>1. ASSUME CancelLoop(s)
      PROVE  running' \in [Sessions -> BOOLEAN] /\ loop' \in [Sessions -> LoopStates]
  BY <1>1 DEF CancelLoop
<1>2. ASSUME CreateTasks(s)
      PROVE  /\ loop' \in [Sessions -> LoopStates]
             /\ stream' \in [Sessions -> {"none", "open", "cancelling", "done"}]
  BY <1>2 DEF CreateTasks
<1>3. ASSUME CancelStream(s)
      PROVE  stream' \in [Sessions -> {"none", "open", "cancelling", "done"}]
  BY <1>3 DEF CancelStream
<1>4. ASSUME NEW some \in SUBSET Sessions, UpdateChunk(some)
      PROVE  /\ pending' \in [Sessions -> Nat]
             /\ pushed' \in [Sessions -> Nat]
             /\ taken' \in [Sessions -> Nat]
  BY <1>4 DEF UpdateChunk
<1>5. ASSUME NEW some \in SUBSET Sessions, SetRunning(some)
      PROVE  running' \in [Sessions -> BOOLEAN]
  BY <1>5, Zenon DEF SetRunning
<1>6. QED
  BY <1>1, <1>2, <1>3, <1>4, <1>5

LEMMA OneIsASession == 1 \in Sessions /\ NumSessions \in Sessions
BY NumSessionsAssumption DEF Sessions

LEMMA StartType ==
    ASSUME SessionTypeOK, OwnerTypeOK
    PROVE  /\ StartFirst => /\ running' \in [Sessions -> BOOLEAN]
                            /\ at' \in Sessions /\ pc' = "starting"
           /\ StartNext /\ UNCHANGED entered =>
                 SessionTypeOK' /\ at' \in Sessions /\ UNCHANGED <<pc, owner, outcome>>
           /\ \A next : StartLast(next) =>
                 SessionTypeOK' /\ pc' = next /\ UNCHANGED <<owner, at, outcome, entered>>
<1>1. ASSUME StartFirst
      PROVE  running' \in [Sessions -> BOOLEAN] /\ at' \in Sessions /\ pc' = "starting"
  BY <1>1, OneIsASession DEF StartFirst, SetRunning, SessionTypeOK
<1>2. ASSUME StartNext
      PROVE  SessionTypeOK' /\ at' \in Sessions /\ UNCHANGED <<pc, owner, outcome>>
  <2>1. at \in Sessions /\ at + 1 \in Sessions
    BY <1>2, NumSessionsAssumption DEF StartNext, OwnerTypeOK, Sessions
  <2>2. running' \in [Sessions -> BOOLEAN]
    BY <1>2, <2>1, OwnerCallsType DEF StartNext
  <2>3. /\ loop' \in [Sessions -> LoopStates]
        /\ stream' \in [Sessions -> {"none", "open", "cancelling", "done"}]
    BY <1>2, <2>1, OwnerCallsType DEF StartNext
  <2>4. QED
    BY <1>2, <2>1, <2>2, <2>3 DEF StartNext, SessionTypeOK, slotVars, trackerVars
<1>3. ASSUME NEW next, StartLast(next)
      PROVE  SessionTypeOK' /\ pc' = next /\ UNCHANGED <<owner, at, outcome, entered>>
  <2>1. at \in Sessions
    BY DEF OwnerTypeOK
  <2>2. /\ loop' \in [Sessions -> LoopStates]
        /\ stream' \in [Sessions -> {"none", "open", "cancelling", "done"}]
    BY <1>3, <2>1, OwnerCallsType DEF StartLast
  <2>3. QED
    BY <1>3, <2>2 DEF StartLast, GoTo, SessionTypeOK, flagVars, slotVars, trackerVars
<1>4. QED
  BY <1>1, <1>2, <1>3

\* StopFirst with its frame, and the wait for one session after the other.
LEMMA StopType ==
    ASSUME SessionTypeOK, OwnerTypeOK
    PROVE  /\ \A reason \in Outcomes :
                 StopFirst(reason) /\ UNCHANGED NotStopped /\ faults' \subseteq faults =>
                    /\ SessionTypeOK' /\ at' \in Sessions /\ outcome' = reason
                    /\ pc' = "stopping_loop" /\ UNCHANGED <<owner, entered>>
           /\ \A next : StopSessions(next) =>
                 /\ SessionTypeOK' /\ OwnerTypeOK' /\ UNCHANGED owner
                 /\ pc' \in {"stopping_loop", "stopping_stream", "over", next}
<1>1. ASSUME NEW reason \in Outcomes, StopFirst(reason), UNCHANGED NotStopped,
             faults' \subseteq faults
      PROVE  /\ SessionTypeOK' /\ at' \in Sessions /\ outcome' = reason
             /\ pc' = "stopping_loop" /\ UNCHANGED <<owner, entered>>
  <2>1. running' \in [Sessions -> BOOLEAN] /\ loop' \in [Sessions -> LoopStates]
    BY <1>1, OneIsASession, OwnerCallsType DEF StopFirst
  <2>2. QED
    BY <1>1, <2>1, OneIsASession DEF StopFirst, LeaveFor, NotStopped, SessionTypeOK, slotVars,
       trackerVars
<1>2. at \in Sessions
  BY DEF OwnerTypeOK
<1>3. ASSUME AwaitLoop
      PROVE  SessionTypeOK' /\ OwnerTypeOK' /\ UNCHANGED owner /\ pc' = "stopping_stream"
  <2>1. stream' \in [Sessions -> {"none", "open", "cancelling", "done"}]
    BY <1>2, <1>3, OwnerCallsType DEF AwaitLoop
  <2>2. QED
    BY <1>3, <2>1 DEF AwaitLoop, GoTo, SessionTypeOK, OwnerTypeOK, flagVars, slotVars,
       trackerVars, estopVars
<1>4. ASSUME AwaitLoopRaises
      PROVE  SessionTypeOK' /\ OwnerTypeOK' /\ UNCHANGED owner /\ pc' = "over"
  <2>1. SessionTypeOK'
    BY <1>4, SessionTypeFrame DEF AwaitLoopRaises
  <2>2. QED
    BY <1>4, <2>1, OneIsASession DEF AwaitLoopRaises, LeaveFor, OwnerTypeOK, estopVars, Outcomes
<1>5. ASSUME NEW next, AwaitStream(next)
      PROVE  /\ SessionTypeOK' /\ OwnerTypeOK' /\ UNCHANGED owner
             /\ pc' \in {"stopping_loop", "stopping_stream", "over", next}
  <2>1. CASE at < NumSessions
    <3>1. at + 1 \in Sessions
      BY <1>2, <2>1, NumSessionsAssumption DEF Sessions
    <3>2. running' \in [Sessions -> BOOLEAN] /\ loop' \in [Sessions -> LoopStates]
      BY <1>5, <2>1, <3>1, OwnerCallsType DEF AwaitStream
    <3>3. QED
      BY <1>5, <2>1, <3>1, <3>2 DEF AwaitStream, NotStopped, SessionTypeOK, OwnerTypeOK,
         slotVars, trackerVars, estopVars
  <2>2. CASE ~(at < NumSessions)
    BY <1>5, <2>2 DEF AwaitStream, GoTo, NotStopped, SessionTypeOK, OwnerTypeOK, slotVars,
       trackerVars, estopVars
  <2>3. QED
    BY <2>1, <2>2
<1>6. ASSUME NEW next, StopSessions(next)
      PROVE  /\ SessionTypeOK' /\ OwnerTypeOK' /\ UNCHANGED owner
             /\ pc' \in {"stopping_loop", "stopping_stream", "over", next}
  BY <1>3, <1>4, <1>5, <1>6 DEF StopSessions
<1>7. QED
  BY <1>1, <1>6

-------------------------------------------------------------------------------

LEMMA ExecutorSetUpType ==
    ASSUME TypeOK, CamerasReady \/ StartSession \/ PolicyConnected \/ SessionsReady \/ SetupFails
    PROVE  TypeOK'
<1> USE DEF TypeOK, ExecutorPlaces, CommonPlaces, ExecutorLoop
<1>0. owner = "executor" \/ pc \notin {"cameras", "connecting"}
  BY DEF JoggerPlaces, Entering, JoggerLoop
<1>1. CASE CamerasReady
  <2>1. SessionTypeOK'
    BY <1>1, StartType DEF CamerasReady, NotStopped, SessionTypeOK, slotVars, trackerVars
  <2>2. QED
    BY <1>0, <1>1, <2>1, StartType, OneIsASession DEF CamerasReady, StartFirst, estopVars, writerVars,
       executorVars, deviceVars, OwnerTypeOK, WriterTypeOK, ExecutorTypeOK
<1>2. CASE StartSession
  <2>1. CASE StartNext /\ UNCHANGED <<entered, devices>>
    BY <1>2, <2>1, StartType DEF StartSession, estopVars, writerVars, OwnerTypeOK, WriterTypeOK,
       ExecutorTypeOK
  <2>2. CASE ~(StartNext /\ UNCHANGED <<entered, devices>>)
    <3>1. at \in Sessions /\ CreateTasks(at)
      BY <1>2, <2>2 DEF StartSession, OwnerTypeOK
    <3>2. SessionTypeOK'
      BY <1>2, <2>2, <3>1, OwnerCallsType DEF StartSession, SessionTypeOK, flagVars, slotVars,
         trackerVars
    <3>3. QED
      BY <1>2, <2>2, <3>2 DEF StartSession, estopVars, writerVars, OwnerTypeOK, WriterTypeOK,
         ExecutorTypeOK
  <2>3. QED
    BY <2>1, <2>2
<1>3. CASE PolicyConnected
  BY <1>0, <1>3, SessionTypeFrame DEF PolicyConnected, GoTo, writerVars, OwnerTypeOK, WriterTypeOK,
     ExecutorTypeOK
<1>4. CASE SessionsReady
  BY <1>4, SessionTypeFrame, OneIsASession DEF SessionsReady, NextTurn, GoTo, LeaveFor,
     estopVars, writerVars, executorVars, deviceVars, OwnerTypeOK, Outcomes, WriterTypeOK,
     ExecutorTypeOK
<1>5. CASE SetupFails
  <2>1. faults' \subseteq faults
    BY <1>5, MayOnlyUses DEF SetupFails
  <2>2. StopFirst("error") \/ StopFirst("cancelled")
    BY <1>5 DEF SetupFails
  <2>3. /\ SessionTypeOK' /\ at' \in Sessions /\ outcome' \in Outcomes
        /\ pc' = "stopping_loop" /\ UNCHANGED <<owner, entered>>
    BY <1>5, <2>1, <2>2, StopType DEF SetupFails, Outcomes
  <2>4. QED
    BY <1>5, <2>3 DEF SetupFails, estopVars, writerVars, executorVars, deviceVars, OwnerTypeOK,
       WriterTypeOK, ExecutorTypeOK
<1>6. QED
  BY <1>1, <1>2, <1>3, <1>4, <1>5

LEMMA ExecutorLoopType ==
    ASSUME TypeOK, TimedOut \/ Observe \/ StoppedBeforeSend \/ Send \/ WakeUp \/ EpisodeFails
    PROVE  TypeOK'
<1> USE DEF TypeOK, ExecutorPlaces, CommonPlaces, ExecutorLoop, OwnerTypeOK, Outcomes
<1>0. owner = "executor" \/ pc \notin {"yielding", "asking", "pausing"}
  BY DEF JoggerPlaces, Entering, JoggerLoop
<1>1. CASE Send
  <2>1. SessionTypeOK'
    BY <1>1, OneIsASession, OwnerCallsType DEF Send, Pushable, SessionTypeOK, flagVars, trackerVars
  <2>2. WriterTypeOK'
    <3>1. CASE UNCHANGED writerVars
      BY <3>1 DEF writerVars, WriterTypeOK
    <3>2. CASE \E value \in IOValues : StartWrite(value)
      BY <3>2, MaxWritesAssumption DEF StartWrite, WriterTypeOK
    <3>3. QED
      BY <1>1, <3>1, <3>2 DEF Send
  <2>3. ExecutorTypeOK'
    BY <1>1 DEF Send, ExecutorTypeOK, deviceVars
  <2>4. OwnerTypeOK' /\ PlaceOK'
    BY <1>0, <1>1, OneIsASession DEF Send, AfterSend, NextTurn, GoTo, LeaveFor, estopVars, PlaceOK
  <2>5. QED
    BY <2>1, <2>2, <2>3, <2>4 DEF PlaceOK
<1>2. CASE TimedOut \/ Observe \/ WakeUp
  BY <1>0, <1>2, SessionTypeFrame, OneIsASession DEF TimedOut, Observe, WakeUp, NextTurn, GoTo,
     LeaveFor, estopVars, writerVars, executorVars, deviceVars, WriterTypeOK, ExecutorTypeOK
<1>3. CASE StoppedBeforeSend \/ EpisodeFails
  <2>1. faults' \subseteq faults
    BY <1>3, MayOnlyUses DEF StoppedBeforeSend, EpisodeFails
  <2>2. QED
    BY <1>0, <1>3, <2>1, SessionTypeFrame, OneIsASession DEF StoppedBeforeSend, EpisodeFails,
       LeaveFor, estopVars, writerVars, executorVars, deviceVars, WriterTypeOK, ExecutorTypeOK
<1>4. QED
  BY <1>1, <1>2, <1>3

LEMMA ExecutorCleanUpType ==
    ASSUME TypeOK,
           EstopClosed \/ EstopRaises \/ DevicesClosed \/ StopNext \/ WritesGathered \/ PolicyClosed
    PROVE  TypeOK'
<1> USE DEF TypeOK, ExecutorPlaces, CommonPlaces
<1>0. owner = "executor" \/ pc \notin {"closing_devices", "gathering", "closing_policy"}
  BY DEF JoggerPlaces, Entering, JoggerLoop
<1>1. CASE EstopClosed \/ WritesGathered \/ PolicyClosed
  BY <1>0, <1>1, SessionTypeFrame DEF EstopClosed, WritesGathered, PolicyClosed, CloseEstop, GoTo,
     estopVars, writerVars, executorVars, deviceVars, OwnerTypeOK, WriterTypeOK, ExecutorTypeOK
<1>2. CASE EstopRaises
  BY <1>2, StopType DEF EstopRaises, Outcomes, estopVars, writerVars, executorVars,
     deviceVars, OwnerTypeOK, WriterTypeOK, ExecutorTypeOK
<1>3. CASE DevicesClosed
  <2>1. outcome \in Outcomes
    BY DEF OwnerTypeOK
  <2>2. QED
    BY <1>0, <1>3, <2>1, StopType DEF DevicesClosed, estopVars, writerVars, OwnerTypeOK,
       WriterTypeOK, ExecutorTypeOK
<1>4. CASE StopNext
  BY <1>4, StopType DEF StopNext, writerVars, executorVars, deviceVars, WriterTypeOK,
     ExecutorTypeOK
<1>5. QED
  BY <1>1, <1>2, <1>3, <1>4

LEMMA JoggerType ==
    ASSUME TypeOK, Jogging
    PROVE  TypeOK'
<1> USE DEF TypeOK, JoggerPlaces, CommonPlaces, Entering, JoggerLoop
<1>0. owner = "jogger" \/ pc \notin {"moving", "body", "sleeping"}
  BY DEF ExecutorPlaces, ExecutorLoop, OwnerTypeOK
<1>1. WriterTypeOK' /\ ExecutorTypeOK'
  BY DEF Jogging, writerVars, executorVars, deviceVars, WriterTypeOK, ExecutorTypeOK
<1> SUFFICES SessionTypeOK' /\ OwnerTypeOK' /\ PlaceOK'
  BY <1>1 DEF PlaceOK
<1>2. CASE MovedToStart
  <2>1. SessionTypeOK'
    BY <1>2, StartType DEF MovedToStart, NotStopped, SessionTypeOK, slotVars, trackerVars
  <2>2. QED
    BY <1>0, <1>2, <2>1, StartType DEF MovedToStart, StartFirst, estopVars, OwnerTypeOK, PlaceOK
<1>3. CASE StartSessions
  <2>1. CASE StartNext /\ UNCHANGED estop
    BY <1>3, <2>1, StartType DEF StartSessions, StartNext, OwnerTypeOK, PlaceOK
  <2>2. CASE StartLast("waiting") /\ estop' = "watching"
    BY <1>3, <2>2, StartType DEF StartSessions, OwnerTypeOK, PlaceOK
  <2>3. QED
    BY <1>3, <2>1, <2>2 DEF StartSessions
<1>4. CASE Entered \/ NextTick \/ EstopStopRaises
  <2>1. SessionTypeOK'
    BY <1>4, SessionTypeFrame DEF Entered, NextTick, EstopStopRaises
  <2>2. CASE Entered
    BY <1>0, <2>1, <2>2 DEF Entered, estopVars, OwnerTypeOK, PlaceOK
  <2>3. CASE NextTick
    BY <1>0, <2>1, <2>3, OneIsASession DEF NextTick, Turn, GoTo, LeaveFor, estopVars,
       OwnerTypeOK, Outcomes, PlaceOK
  <2>4. CASE EstopStopRaises
    BY <2>1, <2>4, OneIsASession DEF EstopStopRaises, LeaveFor, estopVars, OwnerTypeOK,
       Outcomes, PlaceOK
  <2>5. QED
    BY <1>4, <2>2, <2>3, <2>4
<1>5. CASE SetTarget
  <2>1. SessionTypeOK'
    BY <1>5, OneIsASession, OwnerCallsType DEF SetTarget, Pushable, SessionTypeOK, flagVars,
       trackerVars
  <2>2. QED
    BY <1>0, <1>5, <2>1 DEF SetTarget, GoTo, estopVars, OwnerTypeOK, PlaceOK
<1>6. CASE EstopStopped
  <2>1. outcome \in Outcomes
    BY DEF OwnerTypeOK
  <2>2. QED
    <3>1. /\ SessionTypeOK' /\ at' \in Sessions /\ outcome' = outcome
          /\ pc' = "stopping_loop" /\ UNCHANGED <<owner, entered>>
      BY <1>6, <2>1, StopType DEF EstopStopped
    <3>2. estop' \in {"none", "watching", "ended", "crashed", "closed"} /\ estopError' \in BOOLEAN
      BY <1>6 DEF EstopStopped, CloseEstop, OwnerTypeOK
    <3>3. QED
      BY <1>6, <3>1, <3>2 DEF EstopStopped, OwnerTypeOK, PlaceOK
<1>7. CASE SessionsStopped
  BY <1>7, StopType DEF SessionsStopped, PlaceOK
<1>8. CASE JoggerFault
  <2>1. faults' \subseteq faults
    BY <1>8, MayOnlyUses DEF JoggerFault, EnterFails, Break, BodyFails
  <2>2. QED
    BY <1>0, <1>8, <2>1, SessionTypeFrame, OneIsASession DEF JoggerFault, EnterFails, Break,
       BodyFails, LeaveFor, estopVars, OwnerTypeOK, Outcomes, PlaceOK
<1>9. QED
  BY <1>2, <1>3, <1>4, <1>5, <1>6, <1>7, <1>8 DEF Jogging, JoggerStep

LEMMA WriterType ==
    ASSUME TypeOK, Writer
    PROVE  TypeOK'
<1>1. faults' \subseteq faults
  BY MayOnlyUses DEF Writer, WriterStep, WriterFault, WriteSkipped, Written, WriteRejected,
     ReplyLost
<1>2. UNCHANGED sessionVars
  BY DEF Writer, WriterStep, WriterFault, WriteSkipped, Written, WriteRejected, ReplyLost,
     WriteEnds
<1>3. WriterTypeOK'
  <2>1. ASSUME NEW failing \in BOOLEAN, WriteEnds(failing)
        PROVE  /\ writes' \in Seq(IOValues) /\ Len(writes') <= numWrites'
               /\ asked' \in IOValues /\ failed' \in BOOLEAN /\ numWrites' \in 0..MaxWrites
               /\ Head(writes) \in IOValues
    BY <2>1, MaxWritesAssumption DEF WriteEnds, TypeOK, WriterTypeOK
  <2>2. QED
    BY <2>1 DEF Writer, WriterStep, WriterFault, WriteSkipped, Written, WriteRejected,
       ReplyLost, TypeOK, WriterTypeOK
<1>4. QED
  BY <1>1, <1>2, <1>3, SessionTypeFrame DEF Writer, TypeOK, ownerVars, estopVars, executorVars,
     deviceVars, OwnerTypeOK, ExecutorTypeOK

(***************************************************************************)
(* Type correctness, for any number of sessions, chunks and writes.        *)
(***************************************************************************)
THEOREM TypeCorrect == Spec => []TypeOK
<1>1. Init => TypeOK
  <2> SUFFICES ASSUME Init PROVE TypeOK
    OBVIOUS
  <2>1. SessionTypeOK
    BY ConfirmTicksAssumption DEF Init, SessionInit, SessionTypeOK, NoChunk, Failures, LoopStates
  <2>2. WriterTypeOK
    <3>1. writes \in Seq(IOValues) /\ Len(writes) <= numWrites
      BY DEF Init, WriterInit
    <3>2. {lastWritten, asked} \subseteq IOValues \cup {"none"} /\ output \in IOValues
      BY DEF Init, WriterInit, IOValues
    <3>3. failed \in BOOLEAN
      BY Zenon DEF Init, WriterInit
    <3>4. numWrites \in 0..MaxWrites
      BY MaxWritesAssumption DEF Init, WriterInit
    <3>5. QED
      BY <3>1, <3>2, <3>3, <3>4 DEF WriterTypeOK
  <2>3. OwnerTypeOK
    BY OneIsASession DEF Init, OwnerInit, ExecutorInit, JoggerInit, OwnerTypeOK, Outcomes
  <2>4. ExecutorTypeOK
    <3>1. {stopEvent, cameras, devices, policy} \subseteq BOOLEAN
      BY Zenon DEF Init, ExecutorInit
    <3>2. rate \in Rates \cup {"asap"} /\ lateSends = 0
      BY Zenon DEF Init, ExecutorInit
    <3>3. QED
      BY <3>1, <3>2, RatesAssumption DEF ExecutorTypeOK
  <2>5. PlaceOK
    BY DEF Init, ExecutorInit, JoggerInit, ExecutorPlaces, JoggerPlaces, Entering, PlaceOK
  <2>6. QED
    BY <2>1, <2>2, <2>3, <2>4, <2>5 DEF TypeOK, PlaceOK
<1>2. TypeOK /\ [Next]_vars => TypeOK'
  <2> SUFFICES ASSUME TypeOK, [Next]_vars PROVE TypeOK'
    OBVIOUS
  <2>1. CASE \E s \in Sessions : Session(s)
    <3>1. SessionTypeOK'
      BY <2>1, SessionStepType, SessionFaultType DEF Session, TypeOK
    <3>2. QED
      BY <2>1, <3>1 DEF Session, TypeOK, ownerVars, estopVars, writerVars, executorVars,
         deviceVars, OwnerTypeOK, WriterTypeOK, ExecutorTypeOK
  <2>2. CASE Estop
    <3>1. faults' \subseteq faults
      BY <2>2, MayOnlyUses DEF Estop, EstopFault, EstopFires, EstopLost, EstopCrashes
    <3>2. SessionTypeOK'
      BY <2>2, <3>1, SessionTypeFrame DEF Estop, EstopFault, EstopFires, EstopLost,
         EstopCrashes, TypeOK
    <3>3. QED
      BY <2>2, <3>2 DEF Estop, EstopFault, EstopFires, EstopLost, EstopCrashes, TypeOK,
         ownerVars, writerVars, executorVars, deviceVars, OwnerTypeOK, WriterTypeOK,
         ExecutorTypeOK
  <2>3. CASE UserStop \/ UNCHANGED vars
    BY <2>3, SessionTypeFrame DEF UserStop, vars, TypeOK, ownerVars, estopVars, writerVars,
       executorVars, deviceVars, OwnerTypeOK, WriterTypeOK, ExecutorTypeOK
  <2>4. QED
    BY <2>1, <2>2, <2>3, ExecutorSetUpType, ExecutorLoopType, ExecutorCleanUpType, JoggerType,
       WriterType DEF Next, Executor, ExecutorStep, ExecutorFault
<1>3. QED
  BY <1>1, <1>2, PTL DEF Spec
===============================================================================

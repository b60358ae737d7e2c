----------------------------- MODULE JoggingProofs -----------------------------
(***************************************************************************)
(* Sessions, owners and writers: proofs for any number of sessions, chunks *)
(* and writes, and every set of faults.                                    *)
(***************************************************************************)
EXTENDS JoggingTypes

(***************************************************************************)
(* The slots of the sessions are touched by two operations alone.          *)
(***************************************************************************)
LEMMA SlotInSession ==
    ASSUME NEW s \in Sessions, SessionStep(s) \/ SessionFault(s)
    PROVE  Chunks!Take(s) \/ UNCHANGED slotVars
<1>1. CASE Respond(s)
  BY <1>1 DEF Respond, NextRequest, CaptureChunk, slotVars, Chunks!Take, Chunks!Empty, NoChunk
<1>2. CASE WakeForChunk(s)
  BY <1>2 DEF WakeForChunk, CaptureChunk, slotVars, Chunks!Take, Chunks!Empty, NoChunk
<1>3. CASE \/ Resolve(s) \/ Open(s) \/ Sent(s) \/ LoopCancelled(s) \/ StreamCancelled(s)
           \/ SessionFault(s)
  BY <1>3 DEF SessionFault, Resolve, Open, Sent, LoopCancelled, StreamCancelled, ResolveFails,
     Rejected, Lost, Ended, Crash, MotionErrorArrives, RespondAndStop, Pause, Recover,
     StateLost, slotVars
<1>4. QED
  BY <1>1, <1>2, <1>3 DEF SessionStep

LEMMA SlotInExecutor ==
    ASSUME Executor
    PROVE  (\E some \in SUBSET Sessions : UpdateChunk(some)) \/ UNCHANGED slotVars
<1>1. CASE Send
  BY <1>1 DEF Send, Pushable
<1>2. CASE StopNext
  BY <1>2 DEF StopNext, StopSessions, AwaitLoop, AwaitLoopRaises, AwaitStream, NotStopped,
     sessionVars
<1>3. CASE CamerasReady \/ SetupFails \/ DevicesClosed \/ EstopRaises
  BY <1>3 DEF CamerasReady, SetupFails, DevicesClosed, EstopRaises, NotStopped
<1>4. CASE StartSession
  BY <1>4 DEF StartSession, StartNext
<1>5. CASE \/ PolicyConnected \/ SessionsReady \/ Observe \/ WakeUp \/ EstopClosed
           \/ WritesGathered \/ PolicyClosed \/ StoppedBeforeSend \/ EpisodeFails
           \/ TimedOut \/ UserStop
  BY <1>5 DEF PolicyConnected, SessionsReady, Observe, WakeUp, EstopClosed, WritesGathered,
     PolicyClosed, StoppedBeforeSend, EpisodeFails, TimedOut, UserStop, sessionVars
<1>6. QED
  BY <1>1, <1>2, <1>3, <1>4, <1>5 DEF Executor, ExecutorStep, ExecutorFault

LEMMA SlotInJogger ==
    ASSUME Jogging
    PROVE  (\E some \in SUBSET Sessions : UpdateChunk(some)) \/ UNCHANGED slotVars
<1>1. CASE SetTarget
  BY <1>1 DEF SetTarget, Pushable
<1>2. CASE SessionsStopped
  BY <1>2 DEF SessionsStopped, StopSessions, AwaitLoop, AwaitLoopRaises, AwaitStream,
     NotStopped, sessionVars
<1>3. CASE MovedToStart \/ EstopStopped
  BY <1>3 DEF MovedToStart, EstopStopped, NotStopped
<1>4. CASE StartSessions
  BY <1>4 DEF StartSessions, StartNext, StartLast
<1>5. CASE Entered \/ NextTick \/ EstopStopRaises \/ EnterFails \/ Break \/ BodyFails
  BY <1>5 DEF Entered, NextTick, EstopStopRaises, EnterFails, Break, BodyFails, sessionVars
<1>6. QED
  BY <1>1, <1>2, <1>3, <1>4, <1>5 DEF Jogging, JoggerStep, JoggerFault

(***************************************************************************)
(* The slot between update_chunk() and the jogging loop implements         *)
(* LatestValue: no chunk is lost but by a newer one, none is sent twice.   *)
(***************************************************************************)
THEOREM ChunksRefinement == Spec => ChunksRefined
<1>1. Init => Chunks!SlotInit
  BY DEF Init, SessionInit, Chunks!SlotInit, NoChunk, Chunks!Empty
<1>2. [Next]_vars => [Chunks!SlotNext]_(Chunks!slotVars)
  <2> SUFFICES ASSUME [Next]_vars
               PROVE  Chunks!SlotNext \/ UNCHANGED slotVars
    BY DEF slotVars, Chunks!slotVars
  <2>1. ASSUME NEW some \in SUBSET Sessions, UpdateChunk(some)
        PROVE  Chunks!PutFor(some)
    BY <2>1 DEF UpdateChunk, Chunks!PutFor
  <2>2. CASE \E s \in Sessions : Session(s)
    BY <2>2, SlotInSession DEF Session, Chunks!SlotNext
  <2>3. CASE Estop \/ Writer
    BY <2>3 DEF Estop, EstopFault, EstopFires, EstopLost, EstopCrashes, Writer, WriterStep,
       WriterFault, WriteSkipped, Written, WriteRejected, ReplyLost, WriteEnds, sessionVars
  <2>4. CASE Executor
    BY <2>1, <2>4, SlotInExecutor DEF Chunks!SlotNext
  <2>5. CASE Jogging
    BY <2>1, <2>5, SlotInJogger DEF Chunks!SlotNext
  <2>6. CASE UNCHANGED vars
    BY <2>6 DEF vars, sessionVars
  <2>7. QED
    BY <2>2, <2>3, <2>4, <2>5, <2>6 DEF Next
<1>3. QED
  BY <1>1, <1>2, PTL DEF Spec, ChunksRefined, Chunks!SlotSpec

-------------------------------------------------------------------------------

(***************************************************************************)
(* A chunk sent after stop() leaves the executor at a place from which     *)
(* only the top of the loop, where the event is looked at, leads back.     *)
(***************************************************************************)
StopInv ==
    /\ lateSends \in 0..1
    /\ lateSends = 1 => stopEvent /\ pc \notin {"yielding", "asking"}

LEMMA NextTurnKeepsStopInv ==
    ASSUME StopInv, lateSends' = lateSends, stopEvent' = stopEvent, NextTurn
    PROVE  StopInv'
BY DEF StopInv, NextTurn, GoTo, LeaveFor

LEMMA ExecutorKeepsStopInv ==
    ASSUME StopInv, Executor
    PROVE  StopInv'
<1>1. CASE Send
  <2>1. lateSends = 0 /\ stopEvent' = stopEvent
    BY <1>1 DEF Send, StopInv
  <2>2. lateSends' \in 0..1 /\ (lateSends' = 1 => stopEvent)
    BY <1>1, <2>1 DEF Send
  <2>3. stopEvent => pc' \notin {"yielding", "asking"}
    BY <1>1 DEF Send, AfterSend, NextTurn, GoTo, LeaveFor
  <2>4. QED
    BY <2>1, <2>2, <2>3 DEF StopInv
<1>2. CASE SessionsReady \/ WakeUp
  BY <1>2 DEF SessionsReady, WakeUp, executorVars, NextTurn, GoTo, LeaveFor, StopInv
<1>3. CASE Observe
  BY <1>3 DEF Observe, executorVars, GoTo, StopInv
<1>4. CASE StopNext
  BY <1>4 DEF StopNext, StopSessions, AwaitLoop, AwaitLoopRaises, AwaitStream, executorVars,
     GoTo, LeaveFor, StopInv
<1>5. CASE CamerasReady \/ SetupFails \/ DevicesClosed \/ EstopRaises
  BY <1>5 DEF CamerasReady, SetupFails, DevicesClosed, EstopRaises, StartFirst, StopFirst,
     LeaveFor, executorVars, StopInv
<1>6. CASE StartSession
  BY <1>6 DEF StartSession, StartNext, StopInv
<1>7. CASE \/ PolicyConnected \/ EstopClosed \/ WritesGathered \/ PolicyClosed
           \/ StoppedBeforeSend \/ EpisodeFails \/ TimedOut
  BY <1>7 DEF PolicyConnected, EstopClosed, WritesGathered, PolicyClosed, StoppedBeforeSend,
     EpisodeFails, TimedOut, GoTo, LeaveFor, executorVars, StopInv
<1>8. CASE UserStop
  BY <1>8 DEF UserStop, ownerVars, StopInv
<1>9. QED
  BY <1>1, <1>2, <1>3, <1>4, <1>5, <1>6, <1>7, <1>8 DEF Executor, ExecutorStep, ExecutorFault

LEMMA JoggerKeepsStopInv ==
    ASSUME StopInv, Jogging
    PROVE  StopInv'
<1>1. lateSends' = lateSends /\ stopEvent' = stopEvent
  BY DEF Jogging, executorVars
<1>2. pc' \notin {"yielding", "asking"} \/ pc' = pc
  <2>1. CASE SessionsStopped
    BY <2>1 DEF SessionsStopped, StopSessions, AwaitLoop, AwaitLoopRaises, AwaitStream, GoTo,
       LeaveFor
  <2>2. CASE MovedToStart \/ EstopStopped \/ EstopStopRaises \/ Entered \/ SetTarget
    BY <2>2 DEF MovedToStart, EstopStopped, EstopStopRaises, Entered, SetTarget, StartFirst,
       StopFirst, LeaveFor, GoTo
  <2>3. CASE StartSessions
    BY <2>3 DEF StartSessions, StartNext, StartLast, GoTo
  <2>4. CASE NextTick
    BY <2>4 DEF NextTick, Turn, LeaveFor, GoTo
  <2>5. CASE JoggerFault
    BY <2>5 DEF JoggerFault, EnterFails, Break, BodyFails, LeaveFor
  <2>6. QED
    BY <2>1, <2>2, <2>3, <2>4, <2>5 DEF Jogging, JoggerStep
<1>3. QED
  BY <1>1, <1>2 DEF StopInv

(***************************************************************************)
(* After stop() the executor sends at most the chunk it had asked for.     *)
(***************************************************************************)
THEOREM OneChunkAfterStop == Spec => []StopLetsOneChunkPass
<1>1. Init => StopInv
  BY DEF Init, ExecutorInit, StopInv
<1>2. StopInv /\ [Next]_vars => StopInv'
  <2> SUFFICES ASSUME StopInv, [Next]_vars PROVE StopInv'
    OBVIOUS
  <2>1. CASE (\E s \in Sessions : Session(s)) \/ Writer \/ UNCHANGED vars
    BY <2>1 DEF Session, Writer, vars, ownerVars, executorVars, StopInv
  <2>2. CASE Estop
    BY <2>2 DEF Estop, EstopFault, EstopFires, EstopLost, EstopCrashes, ownerVars,
       executorVars, StopInv
  <2>3. QED
    BY <2>1, <2>2, ExecutorKeepsStopInv, JoggerKeepsStopInv DEF Next
<1>3. StopInv => StopLetsOneChunkPass
  BY DEF StopInv, StopLetsOneChunkPass
<1>4. QED
  BY <1>1, <1>2, <1>3, PTL DEF Spec

-------------------------------------------------------------------------------

(***************************************************************************)
(* While no answer has been lost, what is remembered as written is in the  *)
(* output, and it is what the last successful task was to write.           *)
(***************************************************************************)
WriterInv ==
    /\ faults \subseteq Faults
    /\ ~Happened("reply_lost") =>
          /\ lastWritten # "none" => output = lastWritten
          /\ asked # "none" /\ ~failed => lastWritten = asked

\* What the writer knows, and nothing but the writer changes.
WriterKnows == <<lastWritten, output, asked, failed>>

LEMMA OthersLeaveTheWriter ==
    ASSUME (\E s \in Sessions : Session(s)) \/ Estop \/ Executor \/ Jogging
    PROVE  UNCHANGED WriterKnows
<1>1. CASE Send
  BY <1>1 DEF Send, StartWrite, writerVars, WriterKnows
<1>2. CASE (\E s \in Sessions : Session(s)) \/ Estop \/ Jogging
  BY <1>2 DEF Session, Estop, Jogging, writerVars, WriterKnows
<1>3. CASE Executor /\ ~Send
  BY <1>3 DEF Executor, ExecutorStep, ExecutorFault, CamerasReady, StartSession,
     PolicyConnected, SessionsReady, Observe, WakeUp, EstopClosed, EstopRaises, DevicesClosed,
     StopNext, WritesGathered, PolicyClosed, StoppedBeforeSend, SetupFails, EpisodeFails,
     TimedOut, UserStop, writerVars, WriterKnows
<1>4. QED
  BY <1>1, <1>2, <1>3

LEMMA FaultsOnlyShrink ==
    ASSUME Next
    PROVE  faults' \subseteq faults
<1>1. ASSUME NEW s \in Sessions, Session(s)
      PROVE  faults' \subseteq faults
  <2>1. CASE SessionStep(s)
    BY <2>1 DEF SessionStep, Resolve, Open, Respond, WakeForChunk, Sent, LoopCancelled,
       StreamCancelled
  <2>2. CASE SessionFault(s)
    BY <2>2, MayOnlyUses DEF SessionFault, ResolveFails, Rejected, Lost, Ended, Crash,
       MotionErrorArrives, RespondAndStop, Pause, Recover, StateLost
  <2>3. QED
    BY <1>1, <2>1, <2>2 DEF Session
<1>2. CASE Estop \/ Writer
  BY <1>2, MayOnlyUses DEF Estop, EstopFault, EstopFires, EstopLost, EstopCrashes, Writer,
     WriterStep, WriterFault, WriteSkipped, Written, WriteRejected, ReplyLost
<1>3. CASE Executor
  <2>1. CASE ExecutorFault
    BY <2>1, MayOnlyUses DEF ExecutorFault, StoppedBeforeSend, SetupFails, EpisodeFails
  <2>2. CASE StopNext \/ StartSession
    BY <2>2 DEF StopNext, StopSessions, AwaitLoop, AwaitLoopRaises, AwaitStream, StartSession,
       StartNext
  <2>3. CASE \/ CamerasReady \/ PolicyConnected \/ SessionsReady \/ Observe \/ Send
             \/ WakeUp \/ EstopClosed \/ EstopRaises \/ DevicesClosed
             \/ WritesGathered \/ PolicyClosed \/ TimedOut \/ UserStop
    BY <2>3 DEF CamerasReady, PolicyConnected, SessionsReady, Observe, Send, WakeUp,
       EstopClosed, EstopRaises, DevicesClosed, WritesGathered, PolicyClosed, TimedOut, UserStop
  <2>4. QED
    BY <1>3, <2>1, <2>2, <2>3 DEF Executor, ExecutorStep
<1>4. CASE Jogging
  <2>1. CASE JoggerFault
    BY <2>1, MayOnlyUses DEF JoggerFault, EnterFails, Break, BodyFails
  <2>2. CASE SessionsStopped \/ StartSessions
    BY <2>2 DEF SessionsStopped, StopSessions, AwaitLoop, AwaitLoopRaises, AwaitStream,
       StartSessions, StartNext, StartLast
  <2>3. CASE \/ MovedToStart \/ Entered \/ NextTick \/ SetTarget \/ EstopStopped
             \/ EstopStopRaises
    BY <2>3 DEF MovedToStart, Entered, NextTick, SetTarget, EstopStopped, EstopStopRaises
  <2>4. QED
    BY <1>4, <2>1, <2>2, <2>3 DEF Jogging, JoggerStep
<1>5. QED
  BY <1>1, <1>2, <1>3, <1>4 DEF Next

(***************************************************************************)
(* Unless an answer was lost, the output ends with the value asked for     *)
(* last: a rejected value is not taken for written.                        *)
(***************************************************************************)
THEOREM OutputIsTheLatest == Spec => []DeviceHasLatest
<1>1. Init => WriterInv
  BY DEF Init, SessionInit, WriterInit, WriterInv
<1>2. WriterInv /\ [Next]_vars => WriterInv'
  <2> SUFFICES ASSUME WriterInv, [Next]_vars PROVE WriterInv'
    OBVIOUS
  <2>1. CASE UNCHANGED vars
    BY <2>1 DEF vars, writerVars, WriterInv, Happened
  <2>2. CASE Next /\ UNCHANGED WriterKnows
    BY <2>2, FaultsOnlyShrink DEF WriterKnows, WriterInv, Happened
  <2>3. CASE WriteSkipped \/ Written
    BY <2>3 DEF WriteSkipped, Written, WriteEnds, WriterInv, Happened
  <2>4. CASE WriteRejected
    BY <2>4 DEF WriteRejected, WriteEnds, May, WriterInv, Happened
  <2>5. CASE ReplyLost
    BY <2>5 DEF ReplyLost, May, WriterInv, Happened
  <2>6. QED
    BY <2>1, <2>2, <2>3, <2>4, <2>5, OthersLeaveTheWriter DEF Next, Writer, WriterStep,
       WriterFault
<1>3. WriterInv => DeviceHasLatest
  BY DEF WriterInv, DeviceHasLatest
<1>4. QED
  BY <1>1, <1>2, <1>3, PTL DEF Spec

-------------------------------------------------------------------------------

Stopping == {"stopping_loop", "stopping_stream"}
SessionsStoppedAt == {"gathering", "closing_policy"}

\* The sessions are stopped one after the other, and a stopped session stays so.
StoppedSoFar ==
    /\ pc \in Stopping => \A s \in Sessions : s < at => LoopOver(s) /\ StreamOver(s)
    /\ pc = "stopping_stream" => LoopOver(at)
    /\ pc \in SessionsStoppedAt => SessionsReleased
    /\ pc = "over" /\ ~LoopCrashed /\ (owner = "jogger" => entered /\ estop # "crashed")
          => SessionsReleased

\* What entered and estop are before the try statement, and in __aenter__.
NotEnteredYet ==
    /\ pc \in {"cameras", "moving", "starting"} => ~entered
    /\ owner = "jogger" /\ pc = "waiting" => ~entered
    /\ pc \in {"cameras", "moving", "starting", "connecting"} => estop = "none"

WatchStopped ==
    /\ pc \in {"closing_devices"} \cup Stopping \cup SessionsStoppedAt => estop # "watching"
    /\ pc = "over" /\ (owner = "executor" \/ entered) => estop # "watching"

DevicesStopped ==
    pc \in Stopping \cup SessionsStoppedAt \cup {"over"} /\ entered /\ estop # "crashed"
        => ~cameras /\ ~devices

WritesStopped ==
    /\ pc = "closing_policy" => writes = <<>>
    /\ pc = "over" /\ ~LoopCrashed => writes = <<>> /\ ~policy

JoggerHasNone == owner = "jogger" => ~cameras /\ ~devices /\ ~policy /\ writes = <<>>

(***************************************************************************)
(* ReleasedAtTheEnd speaks of the end alone; ReleaseInv says how much has  *)
(* been released at each await on the way.                                 *)
(***************************************************************************)
ReleaseInv ==
    /\ StoppedSoFar
    /\ NotEnteredYet
    /\ WatchStopped
    /\ DevicesStopped
    /\ WritesStopped
    /\ JoggerHasNone

\* What no step of a session undoes.
SessionsKeep ==
    \A s \in Sessions :
        /\ LoopOver(s) => LoopOver(s)'
        /\ StreamOver(s) => StreamOver(s)'
        /\ loop[s] = "crashed" => loop'[s] = "crashed"

LEMMA SessionsDo ==
    ASSUME SessionTypeOK, NEW s \in Sessions, SessionStep(s) \/ SessionFault(s)
    PROVE  SessionsKeep
<1> USE DEF SessionTypeOK, SessionsKeep, LoopOver, StreamOver, slotVars, flagVars, trackerVars
<1>1. CASE Respond(s) \/ WakeForChunk(s)
  BY <1>1 DEF Respond, WakeForChunk, FailAs, NextRequest, CaptureChunk
<1>2. CASE Resolve(s) \/ Open(s) \/ Sent(s) \/ LoopCancelled(s) \/ StreamCancelled(s)
  BY <1>2 DEF Resolve, Open, Sent, LoopCancelled, StreamCancelled
<1>3. CASE SessionFault(s)
  BY <1>3 DEF SessionFault, ResolveFails, Rejected, Lost, Ended, Crash, MotionErrorArrives,
     RespondAndStop, Pause, Recover, StateLost, FailAs, Connected
<1>4. QED
  BY <1>1, <1>2, <1>3 DEF SessionStep

LEMMA ReleaseFrame ==
    ASSUME TypeOK, ReleaseInv, SessionsKeep,
           UNCHANGED <<ownerVars, estop, cameras, devices, policy, writes>>
    PROVE  ReleaseInv'
<1>1. at \in Sessions
  BY DEF TypeOK, OwnerTypeOK
<1>2. (SessionsReleased => SessionsReleased') /\ (LoopCrashed => LoopCrashed')
  BY DEF SessionsKeep, SessionsReleased, LoopCrashed
<1>3. StoppedSoFar'
  BY <1>1, <1>2 DEF ReleaseInv, StoppedSoFar, SessionsKeep, ownerVars
<1>4. NotEnteredYet' /\ WatchStopped' /\ DevicesStopped' /\ JoggerHasNone'
  BY DEF ReleaseInv, NotEnteredYet, WatchStopped, DevicesStopped, JoggerHasNone, ownerVars
<1>5. WritesStopped'
  BY <1>2 DEF ReleaseInv, WritesStopped, ownerVars
<1>6. QED
  BY <1>3, <1>4, <1>5 DEF ReleaseInv

\* A step to a place at which nothing is released yet.
LEMMA OnTheWay ==
    ASSUME ReleaseInv, UNCHANGED <<owner, cameras, devices, policy>>,
           pc' \in ExecutorLoop \cup JoggerLoop \cup {"closing_estop"},
           owner = "jogger" => UNCHANGED writes
    PROVE  ReleaseInv'
BY DEF ReleaseInv, StoppedSoFar, NotEnteredYet, WatchStopped, DevicesStopped, WritesStopped,
   JoggerHasNone, ExecutorLoop, JoggerLoop, Stopping, SessionsStoppedAt

LEMMA SetUpKeepsRelease ==
    ASSUME TypeOK, ReleaseInv, CamerasReady \/ StartSession \/ PolicyConnected
    PROVE  ReleaseInv'
<1>0. owner = "executor" \/ pc \notin {"cameras", "connecting"}
  BY DEF TypeOK, JoggerPlaces, CommonPlaces, Entering, JoggerLoop
<1> USE DEF ReleaseInv, StoppedSoFar, NotEnteredYet, WatchStopped, DevicesStopped,
        WritesStopped, JoggerHasNone, Stopping, SessionsStoppedAt
<1>1. CASE CamerasReady
  BY <1>0, <1>1 DEF CamerasReady, StartFirst, estopVars, writerVars, executorVars, deviceVars
<1>2. CASE StartSession
  BY <1>2 DEF StartSession, StartNext, estopVars, writerVars
<1>3. CASE PolicyConnected
  BY <1>0, <1>3 DEF PolicyConnected, GoTo, writerVars
<1>4. QED
  BY <1>1, <1>2, <1>3

LEMMA LoopKeepsRelease ==
    ASSUME TypeOK, ReleaseInv,
           \/ SessionsReady \/ TimedOut \/ Observe \/ StoppedBeforeSend \/ Send \/ WakeUp
           \/ EpisodeFails
    PROVE  ReleaseInv'
<1>1. UNCHANGED <<owner, cameras, devices, policy>>
  BY DEF SessionsReady, TimedOut, Observe, StoppedBeforeSend, Send, WakeUp, EpisodeFails,
     AfterSend, NextTurn, GoTo, LeaveFor, executorVars, deviceVars
<1>2. pc' \in ExecutorLoop \cup {"closing_estop"}
  BY DEF SessionsReady, TimedOut, Observe, StoppedBeforeSend, Send, WakeUp, EpisodeFails,
     AfterSend, NextTurn, GoTo, LeaveFor, ExecutorLoop
<1>3. owner = "jogger" => UNCHANGED writes
  BY DEF TypeOK, JoggerPlaces, CommonPlaces, Entering, JoggerLoop, SessionsReady, TimedOut,
     Observe, StoppedBeforeSend, Send, WakeUp, EpisodeFails, writerVars
<1>4. QED
  BY <1>1, <1>2, <1>3, OnTheWay

\* The owner turns to stopping its sessions.
LEMMA StopFirstKeepsRelease ==
    ASSUME TypeOK, ReleaseInv, NEW reason, StopFirst(reason), UNCHANGED NotStopped,
           estop' # "watching", entered /\ estop' # "crashed" => ~cameras' /\ ~devices',
           owner = "jogger" => UNCHANGED <<cameras, devices, policy, writes>>
    PROVE  ReleaseInv'
<1>1. pc' = "stopping_loop" /\ at' = 1 /\ UNCHANGED <<owner, entered>>
  BY DEF StopFirst, LeaveFor
<1>2. \A s \in Sessions : ~(s < at')
  BY <1>1 DEF Sessions
<1>3. QED
  BY <1>1, <1>2 DEF ReleaseInv, StoppedSoFar, NotEnteredYet, WatchStopped, DevicesStopped,
     WritesStopped, JoggerHasNone, Stopping, SessionsStoppedAt

\* One session after the other is stopped.
LEMMA StopSessionsKeepsRelease ==
    ASSUME TypeOK, ReleaseInv, NEW next, StopSessions(next),
           UNCHANGED <<cameras, devices, policy, writes>>,
           next \in {"gathering", "over"}, next = "over" => owner = "jogger"
    PROVE  ReleaseInv'
<1>0. at \in Sessions /\ at \in Nat
  BY DEF TypeOK, OwnerTypeOK, Sessions
<1> USE DEF ReleaseInv, StoppedSoFar, NotEnteredYet, WatchStopped, DevicesStopped,
        WritesStopped, JoggerHasNone, Stopping, SessionsStoppedAt
<1>1. CASE AwaitLoop
  <2>1. /\ pc = "stopping_loop" /\ pc' = "stopping_stream"
        /\ UNCHANGED <<owner, at, entered, estop, loop>>
    BY <1>1 DEF AwaitLoop, GoTo, estopVars
  <2>2. \A s \in Sessions : StreamOver(s) => StreamOver(s)'
    BY <1>0, <1>1 DEF AwaitLoop, CancelStream, StreamOver, TypeOK, SessionTypeOK
  <2>3. LoopOver(at)
    BY <1>1 DEF AwaitLoop
  <2>4. StoppedSoFar'
    BY <2>1, <2>2, <2>3 DEF LoopOver
  <2>5. QED
    BY <2>1, <2>4
<1>2. CASE AwaitLoopRaises
  <2>1. /\ pc = "stopping_loop" /\ pc' = "over" /\ LoopCrashed /\ LoopCrashed'
        /\ UNCHANGED <<owner, entered, estop>>
    BY <1>0, <1>2 DEF AwaitLoopRaises, LeaveFor, estopVars, sessionVars, LoopCrashed
  <2>2. QED
    BY <2>1
<1>3. CASE AwaitStream(next)
  <2>1. pc = "stopping_stream" /\ UNCHANGED <<owner, entered, estop, stream>>
    BY <1>3 DEF AwaitStream, GoTo, estopVars, NotStopped
  <2>2. \A s \in Sessions : s <= at => LoopOver(s) /\ StreamOver(s)
    <3>1. StreamOver(at)
      BY <1>3 DEF AwaitStream
    <3>2. QED
      BY <1>0, <2>1, <3>1 DEF Sessions
  <2>3. CASE at < NumSessions
    <3>1. pc' = "stopping_loop" /\ at' = at + 1
      BY <1>3, <2>3 DEF AwaitStream
    <3>2. \A s \in Sessions : s <= at => loop'[s] = loop[s]
      <4>1. CancelLoop(at + 1)
        BY <1>3, <2>3 DEF AwaitStream
      <4>2. loop' = [loop EXCEPT ![at + 1] = loop'[at + 1]] /\ DOMAIN loop = Sessions
        BY <4>1 DEF CancelLoop, TypeOK, SessionTypeOK
      <4>3. QED
        BY <1>0, <4>2 DEF Sessions
    <3>3. \A s \in Sessions : s < at' => (LoopOver(s) /\ StreamOver(s))'
      BY <1>0, <2>1, <2>2, <3>1, <3>2 DEF LoopOver, StreamOver, Sessions
    <3>4. QED
      BY <2>1, <3>1, <3>3
  <2>4. CASE ~(at < NumSessions)
    <3>1. pc' = next /\ UNCHANGED loop
      BY <1>3, <2>4 DEF AwaitStream, GoTo
    <3>2. SessionsReleased'
      <4>1. \A s \in Sessions : s <= at
        BY <1>0, <2>4, NumSessionsAssumption DEF Sessions
      <4>2. QED
        BY <2>1, <2>2, <3>1, <4>1 DEF SessionsReleased, LoopOver, StreamOver
    <3>3. QED
      BY <2>1, <3>1, <3>2
  <2>5. QED
    BY <2>3, <2>4
<1>4. QED
  BY <1>1, <1>2, <1>3 DEF StopSessions

LEMMA CleanUpKeepsRelease ==
    ASSUME TypeOK, ReleaseInv,
           \/ SetupFails \/ EstopClosed \/ EstopRaises \/ DevicesClosed \/ StopNext
           \/ WritesGathered \/ PolicyClosed
    PROVE  ReleaseInv'
<1>0. owner = "executor" \/ pc \notin {"closing_devices", "gathering", "closing_policy"}
  BY DEF TypeOK, JoggerPlaces, CommonPlaces, Entering, JoggerLoop
<1>1. CASE SetupFails
  <2>1. \E reason \in Outcomes : StopFirst(reason)
    BY <1>1 DEF SetupFails, Outcomes
  <2>2. estop' # "watching" /\ ~entered
    BY <1>1 DEF SetupFails, Setup, estopVars, ReleaseInv, NotEnteredYet
  <2>3. QED
    BY <1>1, <2>1, <2>2, StopFirstKeepsRelease DEF SetupFails, writerVars, executorVars,
       deviceVars
<1>2. CASE EstopRaises
  <2>1. StopFirst("error") /\ UNCHANGED NotStopped /\ estop' = "crashed" /\ owner = "executor"
    BY <1>2 DEF EstopRaises, estopVars
  <2>2. QED
    BY <2>1, StopFirstKeepsRelease
<1>3. CASE DevicesClosed
  <2>1. estop' # "watching"
    BY <1>3 DEF DevicesClosed, estopVars, ReleaseInv, WatchStopped
  <2>2. QED
    BY <1>0, <1>3, <2>1, StopFirstKeepsRelease DEF DevicesClosed
<1>4. CASE StopNext
  <2>1. owner = "executor" /\ StopSessions("gathering")
    BY <1>4 DEF StopNext
  <2>2. UNCHANGED <<cameras, devices, policy, writes>>
    BY <1>4 DEF StopNext, writerVars, executorVars, deviceVars
  <2>3. QED
    BY <2>1, <2>2, StopSessionsKeepsRelease
<1>5. CASE EstopClosed
  BY <1>5 DEF EstopClosed, CloseEstop, GoTo, writerVars, executorVars, deviceVars, ReleaseInv,
     StoppedSoFar, NotEnteredYet, WatchStopped, DevicesStopped, WritesStopped, JoggerHasNone,
     Stopping, SessionsStoppedAt
<1>6. CASE WritesGathered \/ PolicyClosed
  <2>1. SessionsReleased' /\ UNCHANGED <<owner, entered, estop, loop>>
    BY <1>6 DEF WritesGathered, PolicyClosed, GoTo, estopVars, sessionVars, ReleaseInv,
       StoppedSoFar, SessionsStoppedAt, SessionsReleased, LoopOver, StreamOver
  <2>2. QED
    BY <1>0, <1>6, <2>1 DEF WritesGathered, PolicyClosed, GoTo, writerVars, executorVars,
       deviceVars, ReleaseInv, StoppedSoFar, NotEnteredYet, WatchStopped, DevicesStopped,
       WritesStopped, JoggerHasNone, Stopping, SessionsStoppedAt
<1>7. QED
  BY <1>1, <1>2, <1>3, <1>4, <1>5, <1>6

LEMMA JoggerKeepsRelease ==
    ASSUME TypeOK, ReleaseInv, Jogging
    PROVE  ReleaseInv'
<1>0. owner = "jogger" \/ pc \notin {"moving", "body", "sleeping"}
  BY DEF TypeOK, ExecutorPlaces, CommonPlaces, ExecutorLoop, OwnerTypeOK
<1>1. UNCHANGED <<cameras, devices, policy, writes>>
  BY DEF Jogging, writerVars, executorVars, deviceVars
<1>2. CASE NextTick \/ SetTarget \/ Entered \/ Break \/ BodyFails
  <2>1. UNCHANGED owner /\ pc' \in JoggerLoop \cup {"closing_estop"}
    BY <1>2 DEF NextTick, SetTarget, Entered, Break, BodyFails, Turn, GoTo, LeaveFor, JoggerLoop
  <2>2. QED
    BY <1>1, <2>1, OnTheWay
<1>3. CASE MovedToStart \/ StartSessions
  BY <1>0, <1>1, <1>3 DEF MovedToStart, StartSessions, StartFirst, StartNext, StartLast, GoTo,
     estopVars, ReleaseInv, StoppedSoFar, NotEnteredYet, WatchStopped, DevicesStopped,
     WritesStopped, JoggerHasNone, Stopping, SessionsStoppedAt
<1>4. CASE EnterFails
  BY <1>1, <1>4 DEF EnterFails, Entering, LeaveFor, estopVars, ReleaseInv, StoppedSoFar,
     NotEnteredYet, WatchStopped, DevicesStopped, WritesStopped, JoggerHasNone, Stopping,
     SessionsStoppedAt
<1>5. CASE EstopStopped
  <2>1. estop' # "watching" /\ owner = "jogger"
    BY <1>5 DEF EstopStopped, CloseEstop
  <2>2. QED
    BY <1>1, <1>5, <2>1, StopFirstKeepsRelease DEF EstopStopped, ReleaseInv, JoggerHasNone
<1>6. CASE EstopStopRaises
  BY <1>1, <1>6 DEF EstopStopRaises, LeaveFor, estopVars, ReleaseInv, StoppedSoFar,
     NotEnteredYet, WatchStopped, DevicesStopped, WritesStopped, JoggerHasNone, Stopping,
     SessionsStoppedAt
<1>7. CASE SessionsStopped
  BY <1>1, <1>7, StopSessionsKeepsRelease DEF SessionsStopped
<1>8. QED
  BY <1>2, <1>3, <1>4, <1>5, <1>6, <1>7 DEF Jogging, JoggerStep, JoggerFault

(***************************************************************************)
(* However a run ends, at its end what was started has been stopped, with  *)
(* the exceptions the property names.                                      *)
(***************************************************************************)
THEOREM AllReleasedAtTheEnd == Spec => []ReleasedAtTheEnd
<1>1. Init => ReleaseInv
  BY DEF Init, WriterInit, OwnerInit, ExecutorInit, JoggerInit, ReleaseInv, StoppedSoFar,
     NotEnteredYet, WatchStopped, DevicesStopped, WritesStopped, JoggerHasNone, Stopping,
     SessionsStoppedAt
<1>2. TypeOK /\ ReleaseInv /\ [Next]_vars => ReleaseInv'
  <2> SUFFICES ASSUME TypeOK, ReleaseInv, [Next]_vars PROVE ReleaseInv'
    OBVIOUS
  <2>1. CASE \E s \in Sessions : Session(s)
    BY <2>1, SessionsDo, ReleaseFrame DEF Session, TypeOK, estopVars, writerVars, executorVars,
       deviceVars
  <2>2. CASE Estop
    BY <2>2 DEF Estop, EstopFault, EstopFires, EstopLost, EstopCrashes, ownerVars, sessionVars,
       writerVars, executorVars, deviceVars, ReleaseInv, StoppedSoFar, NotEnteredYet,
       WatchStopped, DevicesStopped, WritesStopped, JoggerHasNone, SessionsReleased,
       LoopCrashed, LoopOver, StreamOver
  <2>3. CASE Writer
    BY <2>3 DEF Writer, WriterStep, WriterFault, WriteSkipped, Written, WriteRejected,
       ReplyLost, WriteEnds, ownerVars, estopVars, sessionVars, executorVars, deviceVars,
       ReleaseInv, StoppedSoFar, NotEnteredYet, WatchStopped, DevicesStopped, WritesStopped,
       JoggerHasNone, SessionsReleased, LoopCrashed, LoopOver, StreamOver
  <2>4. CASE UserStop \/ UNCHANGED vars
    <3>1. SessionsKeep
      BY <2>4 DEF UserStop, vars, sessionVars, SessionsKeep, LoopOver, StreamOver
    <3>2. QED
      BY <2>4, <3>1, ReleaseFrame DEF UserStop, vars, estopVars, writerVars, executorVars,
         deviceVars
  <2>5. QED
    BY <2>1, <2>2, <2>3, <2>4, SetUpKeepsRelease, LoopKeepsRelease, CleanUpKeepsRelease,
       JoggerKeepsRelease DEF Next, Executor, ExecutorStep, ExecutorFault
<1>3. ReleaseInv => ReleasedAtTheEnd
  BY DEF ReleaseInv, StoppedSoFar, WatchStopped, DevicesStopped, WritesStopped, JoggerHasNone,
     ReleasedAtTheEnd
<1>4. QED
  BY <1>1, <1>2, <1>3, TypeCorrect, PTL DEF Spec
===============================================================================

----------------------------- MODULE JoggingSystem -----------------------------
(***************************************************************************)
(* Waypoint sessions, the monitor of the safety state and the writer of    *)
(* outputs with one of their two owners: the policy executor or the        *)
(* jogger.                                                                 *)
(***************************************************************************)
EXTENDS PolicyExecutor, Jogger

CONSTANTS
    Owners     \* subset of {"executor", "jogger"}

ASSUME OwnersAssumption == Owners \subseteq {"executor", "jogger"}

vars == <<sessionVars, faults, ownerVars, estopVars, writerVars, executorVars>>

Init ==
    /\ SessionInit
    /\ OwnerInit
    /\ WriterInit
    /\ \/ "executor" \in Owners /\ ExecutorInit
       \/ /\ "jogger" \in Owners /\ JoggerInit
          /\ rate = "asap"
          /\ stopEvent = FALSE
          /\ cameras = FALSE /\ devices = FALSE /\ policy = FALSE
          /\ lateSends = 0

Session(s) ==
    /\ SessionStep(s) \/ SessionFault(s)
    /\ UNCHANGED <<ownerVars, estopVars, writerVars, executorVars>>

Estop == EstopFault /\ UNCHANGED <<writerVars, executorVars>>

Writer ==
    /\ WriterStep \/ WriterFault
    /\ UNCHANGED <<ownerVars, estopVars, executorVars>>

Executor == ExecutorStep \/ ExecutorFault \/ TimedOut \/ UserStop

Jogging ==
    /\ JoggerStep \/ JoggerFault
    /\ UNCHANGED <<writerVars, executorVars>>

Next ==
    \/ \E s \in Sessions : Session(s)
    \/ Estop
    \/ Writer
    \/ Executor
    \/ Jogging

Spec == Init /\ [][Next]_vars

\* Tasks run, the server and the controller answer, the policy and the user's
\* code return.  Nothing obliges anybody to stop.
Fairness ==
    /\ \A s \in Sessions : SessionFairness(s)
    /\ WF_writerVars(WriterStep)
    /\ WF_vars(ExecutorStep)
    /\ WF_vars(JoggerStep /\ UNCHANGED <<writerVars, executorVars>>)

FairSpec == Spec /\ Fairness

-------------------------------------------------------------------------------

\* Type correctness of the sessions, of the owner and of the writer
\* (novapolicy/jogging/waypoint_session.py, executor.py, jogger.py, io.py).
TypeOK ==
    /\ SessionTypeOK
    /\ OwnerTypeOK
    /\ WriterTypeOK
    /\ ExecutorTypeOK
    /\ pc \in IF owner = "executor" THEN ExecutorPlaces ELSE JoggerPlaces

Chunks == INSTANCE LatestValue
    WITH Consumers <- Sessions, slot <- pending, put <- pushed

\* The slot between update_chunk() and the jogging loop keeps what LatestValue
\* promises: a chunk is replaced by a newer one or captured once, and a chunk that
\* arrives while the previous request is being sent survives
\* (waypoint_session.py, "Capture and clear BEFORE yielding").
ChunksRefined == Chunks!SlotSpec

\* Once the tasks that write have ended, and the last did not fail, the output has
\* the value asked for last, whatever happened to earlier writes: a value that was
\* rejected is not taken for written.  (An answer that is lost makes the two differ:
\* the value remembered is then older than the output, and asking for it again
\* writes nothing.)
DeviceHasLatest ==
    writes = <<>> /\ asked # "none" /\ ~failed /\ ~Happened("reply_lost") => output = asked

SessionsReleased == \A s \in Sessions : LoopOver(s) /\ StreamOver(s)

LoopCrashed == \E s \in Sessions : loop[s] = "crashed"

\* At the end of a run nothing that was started is still at work, however the run
\* ended, but for the cases in which the code does not get to it: the jogger was
\* not entered, its monitor crashed, a session's loop crashed (whose exception cuts
\* the clean-up short); cameras and IO streams stay when the set-up fails before
\* the try statement or the monitor crashed.
ReleasedAtTheEnd ==
    pc = "over" =>
        /\ ~LoopCrashed /\ (owner = "jogger" => entered /\ estop # "crashed")
              => SessionsReleased
        /\ owner = "executor" \/ entered => estop # "watching"
        /\ entered /\ estop # "crashed" => ~cameras /\ ~devices
        /\ ~LoopCrashed => writes = <<>> /\ ~policy

\* After stop() the executor sends at most the one chunk it had already asked for
\* (executor.py: the loop looks at the event before each turn).
StopLetsOneChunkPass == lateSends <= 1

InLoop == pc \in ExecutorLoop \cup JoggerLoop

\* The owner waits for the first response to a session whose loop has ended.
WaitsForNobody ==
    pc = "waiting" /\ \E s \in Sessions : ~ready[s] /\ loop[s] \in {"done", "crashed"}

MustEnd ==
    \/ InLoop /\ ((\E s \in Sessions : failure[s] # "none" \/ condition[s]) \/ estopError)
    \/ stopEvent

\* In the loop of either owner a failed session, a safety stop and a stop condition
\* bring the run to its end, and a call of stop() does wherever it comes ("run() will
\* return shortly after", the docstring of PolicyExecutor.stop): but for a session
\* whose connection failed before the first response, for which the owner waits
\* without end (wait_ready, waypoint_session.py).  No run gets there from its loop.
EndIsNoticed == MustEnd ~> (pc = "over" \/ WaitsForNobody)
===============================================================================

---------------------------- MODULE PolicyExecutor ----------------------------
(***************************************************************************)
(* One run of the policy executor (novapolicy/executor.py): connect the    *)
(* cameras, start the sessions, open the other streams, wait until every   *)
(* session is ready, then observe, ask the policy and send its chunk until *)
(* something ends the loop, and release everything.                        *)
(***************************************************************************)
EXTENDS SessionOwner, IOWriter

CONSTANTS
    Rates     \* subset of {"chunk", "fixed", "asap"}: policy_rate_hz < 0, > 0, = 0

ASSUME RatesAssumption == Rates \subseteq {"chunk", "fixed", "asap"}

VARIABLES
    rate,         \* the sign of policy_rate_hz
    stopEvent,    \* _stop_event
    cameras,      \* the cameras are connected
    devices,      \* IO streams are open
    policy,       \* the policy's connection is open
    lateSends     \* history: chunks sent after stop(), counted up to 2

deviceVars == <<cameras, devices, policy>>
executorVars == <<rate, stopEvent, deviceVars, lateSends>>

\* Suspended in the set-up, before the try statement and inside it, and in the loop.
Setup == {"cameras", "starting"}
Guarded == {"connecting", "waiting", "yielding", "asking", "pausing"}
ExecutorLoop == {"yielding", "asking", "pausing"}

ExecutorPlaces == CommonPlaces \cup ExecutorLoop
                  \cup {"cameras", "connecting", "closing_devices", "gathering", "closing_policy"}

ExecutorTypeOK ==
    /\ rate \in {"chunk", "fixed", "asap"}
    /\ {stopEvent, cameras, devices, policy} \subseteq BOOLEAN
    /\ lateSends \in 0..2

\* run() has cleared the stop event and connects the cameras.
ExecutorInit ==
    /\ owner = "executor"
    /\ pc = "cameras"
    /\ rate \in Rates
    /\ stopEvent = FALSE
    /\ cameras = TRUE
    /\ devices = FALSE
    /\ policy = FALSE
    /\ lateSends = 0

\* Whoever started the run may call stop() at any time.
UserStop ==
    /\ owner = "executor"
    /\ ~stopEvent
    /\ stopEvent' = TRUE
    /\ UNCHANGED <<ownerVars, estopVars, sessionVars, writerVars, rate, deviceVars,
                   lateSends, faults>>

-------------------------------------------------------------------------------
(* The set-up. *)

CamerasReady ==
    /\ pc = "cameras"
    /\ StartFirst
    /\ UNCHANGED <<loop, NotStopped, estopVars, writerVars, executorVars, faults>>

StartSession ==
    /\ owner = "executor"
    /\ \/ StartNext /\ UNCHANGED <<entered, devices>>
       \/ /\ pc = "starting" /\ at = NumSessions
          /\ CreateTasks(at)
          /\ pc' = "connecting"
          /\ entered' = TRUE
          /\ devices' = TRUE
          /\ UNCHANGED <<owner, at, outcome, flagVars, slotVars, trackerVars, faults>>
    /\ UNCHANGED <<estopVars, writerVars, rate, stopEvent, cameras, policy, lateSends>>

\* The IO streams are open and the policy has connected: start the monitor.
PolicyConnected ==
    /\ pc = "connecting"
    /\ GoTo("waiting")
    /\ estop' = "watching"
    /\ policy' = TRUE
    /\ UNCHANGED <<estopError, sessionVars, writerVars, rate, stopEvent, cameras, devices,
                   lateSends, faults>>

\* Variant: the loop looks at the stop event only while it sleeps.
NextTurnAnyway == GoTo("yielding")

\* The top of the loop.
NextTurn ==
    IF stopEvent THEN LeaveFor("closing_estop", "stopped") ELSE GoTo("yielding")

SessionsReady ==
    /\ owner = "executor"
    /\ pc = "waiting"
    /\ AllReady
    /\ NextTurn
    /\ UNCHANGED <<sessionVars, estopVars, writerVars, executorVars, faults>>

-------------------------------------------------------------------------------
(* The loop. *)

\* The end of timeout_s, which is seen here first.
TimedOut ==
    /\ pc = "yielding"
    /\ LeaveFor("closing_estop", "timeout")
    /\ UNCHANGED <<sessionVars, estopVars, writerVars, executorVars, faults>>

\* The robots' states are known since the sessions started.
Observe ==
    /\ pc = "yielding"
    /\ GoTo("asking")
    /\ UNCHANGED <<sessionVars, estopVars, writerVars, executorVars, faults>>

\* A stop condition is true for the chunk: it is not sent.
StoppedBeforeSend ==
    /\ pc = "asking"
    /\ May("stop_condition")
    /\ LeaveFor("closing_estop", "condition")
    /\ UNCHANGED <<sessionVars, estopVars, writerVars, executorVars>>

\* After the chunk was sent: the checks, and the wait of the timing mode, which is
\* left out when the chunk takes no time or the period is over.
AfterSend ==
    IF CheckRaises THEN LeaveFor("closing_estop", "error")
    ELSE IF ConditionMet THEN LeaveFor("closing_estop", "condition")
    ELSE \/ NextTurn
         \/ /\ rate = "fixed" \/ (rate = "chunk" /\ ~stopEvent)
            /\ GoTo("pausing")

\* The policy answers with a chunk for some of the sessions and perhaps an output.
Send ==
    /\ pc = "asking"
    /\ \E some \in Pushable : UpdateChunk(some)
    /\ UNCHANGED writerVars \/ \E value \in IOValues : StartWrite(value)
    /\ lateSends' = IF stopEvent /\ lateSends < 2 THEN lateSends + 1 ELSE lateSends
    /\ AfterSend
    /\ UNCHANGED <<flagVars, trackerVars, loop, stream, estopVars, rate, stopEvent,
                   deviceVars, faults>>

\* One wake-up of the interruptible sleep, or the end of the plain one.
WakeUp ==
    /\ pc = "pausing"
    /\ \/ NextTurn
       \/ rate = "chunk" /\ ~stopEvent /\ CheckRaises /\ LeaveFor("closing_estop", "error")
    /\ UNCHANGED <<sessionVars, estopVars, writerVars, executorVars, faults>>

-------------------------------------------------------------------------------
(* Exceptions. *)

\* Something raises before the try statement, or the run is cancelled there.
SetupFails ==
    /\ owner = "executor"
    /\ pc \in Setup
    /\ \/ pc = "cameras" /\ May("camera_error") /\ StopFirst("error")
       \/ pc = "starting" /\ May("start_error") /\ StopFirst("error")
       \/ May("cancelled") /\ StopFirst("cancelled")
    /\ UNCHANGED <<NotStopped, estopVars, writerVars, executorVars>>

\* Variant: the try statement begins after the set-up.
EpisodeFailsUnguarded ==
    /\ owner = "executor"
    /\ pc \in Guarded
    /\ \/ /\ pc = "connecting" /\ May("policy_error")
          /\ StopFirst("error")
       \/ /\ pc = "asking" /\ May("policy_error")
          /\ LeaveFor("closing_estop", "error") /\ UNCHANGED <<running, loop>>
    /\ UNCHANGED <<NotStopped, estopVars, writerVars, executorVars>>

\* Something raises inside it, or the run is cancelled there.
EpisodeFails ==
    /\ owner = "executor"
    /\ pc \in Guarded
    /\ \/ /\ pc \in {"connecting", "asking"} /\ May("policy_error")
          /\ LeaveFor("closing_estop", "error")
       \/ May("cancelled") /\ LeaveFor("closing_estop", "cancelled")
    /\ UNCHANGED <<sessionVars, estopVars, writerVars, executorVars>>

-------------------------------------------------------------------------------
(* The clean-up. *)

EstopClosed ==
    /\ owner = "executor"
    /\ CloseEstop
    /\ GoTo("closing_devices")
    /\ UNCHANGED <<sessionVars, writerVars, executorVars, faults>>

\* The crashed monitor raises; cameras and IO streams stay.
EstopRaises ==
    /\ owner = "executor"
    /\ pc = "closing_estop"
    /\ estop = "crashed"
    /\ StopFirst("error")
    /\ UNCHANGED <<NotStopped, estopVars, writerVars, executorVars, faults>>

DevicesClosed ==
    /\ pc = "closing_devices"
    /\ cameras' = FALSE
    /\ devices' = FALSE
    /\ StopFirst(outcome)
    /\ UNCHANGED <<NotStopped, estopVars, writerVars, rate, stopEvent, policy, lateSends, faults>>

StopNext ==
    /\ owner = "executor"
    /\ StopSessions("gathering")
    /\ UNCHANGED <<writerVars, executorVars>>

WritesGathered ==
    /\ pc = "gathering"
    /\ writes = <<>>
    /\ GoTo("closing_policy")
    /\ UNCHANGED <<sessionVars, estopVars, writerVars, executorVars, faults>>

PolicyClosed ==
    /\ pc = "closing_policy"
    /\ policy' = FALSE
    /\ GoTo("over")
    /\ UNCHANGED <<sessionVars, estopVars, writerVars, rate, stopEvent, cameras, devices,
                   lateSends, faults>>

-------------------------------------------------------------------------------

ExecutorStep ==
    \/ CamerasReady \/ StartSession \/ PolicyConnected \/ SessionsReady
    \/ Observe \/ Send \/ WakeUp
    \/ EstopClosed \/ EstopRaises \/ DevicesClosed \/ StopNext \/ WritesGathered
    \/ PolicyClosed

ExecutorFault == StoppedBeforeSend \/ SetupFails \/ EpisodeFails
===============================================================================

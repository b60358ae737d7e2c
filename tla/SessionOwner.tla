----------------------------- MODULE SessionOwner -----------------------------
(***************************************************************************)
(* What the policy executor (PolicyExecutor) and the jogger (Jogger) have  *)
(* in common: they start one waypoint session for each motion group, watch *)
(* the controller's safety state (novapolicy/estop.py), look at the        *)
(* sessions and at the watch while they run, and stop all of it.           *)
(* "pc" names the await at which the owner is suspended.                   *)
(***************************************************************************)
EXTENDS WaypointSession

VARIABLES
    owner,         \* "executor" or "jogger"
    pc,            \* where the owner waits, "over" at the end
    at,            \* the session that is started or stopped
    outcome,       \* how the run ended, or "none"
    entered,       \* what the owner closes itself has been set up
    estop,         \* the task of the monitor
    estopError     \* EstopMonitor.error is set

ownerVars == <<owner, pc, at, outcome, entered>>
estopVars == <<estop, estopError>>

Outcomes == {"none", "stopped", "timeout", "condition", "error", "cancelled"}

CommonPlaces == {"starting", "waiting", "closing_estop", "stopping_loop",
                 "stopping_stream", "over"}

OwnerTypeOK ==
    /\ owner \in {"executor", "jogger"}
    /\ at \in Sessions
    /\ outcome \in Outcomes
    /\ entered \in BOOLEAN
    /\ estop \in {"none", "watching", "ended", "crashed", "closed"}
    /\ estopError \in BOOLEAN

OwnerInit ==
    /\ at = 1
    /\ outcome = "none"
    /\ entered = FALSE
    /\ estop = "none"
    /\ estopError = FALSE

GoTo(place) == pc' = place /\ UNCHANGED <<owner, at, outcome, entered>>

\* The owner leaves for "place", for a reason.
LeaveFor(place, reason) ==
    /\ pc' = place
    /\ outcome' = reason
    /\ at' = 1
    /\ UNCHANGED <<owner, entered>>

-------------------------------------------------------------------------------
(* Starting the sessions, one after the other. *)

\* From here on the next await is the query for the first robot's state.
StartFirst ==
    /\ pc' = "starting"
    /\ at' = 1
    /\ SetRunning({1})
    /\ UNCHANGED <<owner, outcome, entered>>

StartNext ==
    /\ pc = "starting"
    /\ at < NumSessions
    /\ CreateTasks(at)
    /\ at' = at + 1
    /\ SetRunning({at + 1})
    /\ UNCHANGED <<owner, pc, outcome, entered, ready, failure, condition,
                   slotVars, trackerVars, faults>>

StartLast(next) ==
    /\ pc = "starting"
    /\ at = NumSessions
    /\ CreateTasks(at)
    /\ GoTo(next)
    /\ UNCHANGED <<flagVars, slotVars, trackerVars, faults>>

AllReady == \A s \in Sessions : ready[s]

-------------------------------------------------------------------------------
(* The monitor of the safety state. *)

EstopFires ==
    /\ estop = "watching"
    /\ May("estop")
    /\ estopError' = TRUE
    /\ estop' = "ended"
    /\ UNCHANGED <<ownerVars, sessionVars>>

\* The stream breaks, or has a state that cannot be parsed: only a warning.
EstopLost ==
    /\ estop = "watching"
    /\ May("estop_lost")
    /\ estop' = "ended"
    /\ UNCHANGED <<ownerVars, sessionVars, estopError>>

\* Any other exception ends the task of the monitor.
EstopCrashes ==
    /\ estop = "watching"
    /\ May("estop_crash")
    /\ estop' = "crashed"
    /\ UNCHANGED <<ownerVars, sessionVars, estopError>>

EstopFault == EstopFires \/ EstopLost \/ EstopCrashes

\* stop() cancels the task and waits for it.  (The exception of a task that
\* crashed comes out of this wait: see the owners.)
CloseEstop ==
    /\ pc = "closing_estop"
    /\ estop # "crashed"
    /\ estop' = IF estop = "none" THEN "none" ELSE "closed"
    /\ UNCHANGED estopError

-------------------------------------------------------------------------------
(* What the owner looks at while it runs. *)

ConditionMet == \E s \in Sessions : condition[s]

\* Variant: a lost connection goes unnoticed.
MotionErrorSeen == \E s \in Sessions : OnlyMotionErrors(s)

SessionFailed == \E s \in Sessions : HasFailed(s)

\* check_sessions() or check_estop() raises.
CheckRaises == SessionFailed \/ estopError

-------------------------------------------------------------------------------
(* Stopping the sessions, one after the other. *)

\* The owner goes on to stop its sessions, up to the wait for the first loop.
StopFirst(reason) == LeaveFor("stopping_loop", reason) /\ CancelLoop(1)

\* The frame of StopFirst.
NotStopped == <<stream, ready, failure, condition, slotVars, trackerVars>>

AwaitLoop ==
    /\ pc = "stopping_loop"
    /\ LoopOver(at)
    /\ CancelStream(at)
    /\ GoTo("stopping_stream")
    /\ UNCHANGED <<loop, flagVars, slotVars, trackerVars, estopVars, faults>>

\* An exception nobody expected comes out of the wait, and out of the clean-up.
AwaitLoopRaises ==
    /\ pc = "stopping_loop"
    /\ loop[at] = "crashed"
    /\ LeaveFor("over", "error")
    /\ UNCHANGED <<sessionVars, estopVars, faults>>

\* The session is stopped: the next one, or what comes after the last.
AwaitStream(next) ==
    /\ pc = "stopping_stream"
    /\ StreamOver(at)
    /\ IF at < NumSessions
       THEN /\ CancelLoop(at + 1)
            /\ at' = at + 1
            /\ pc' = "stopping_loop"
            /\ UNCHANGED <<owner, outcome, entered>>
       ELSE GoTo(next) /\ UNCHANGED <<running, loop>>
    /\ UNCHANGED <<NotStopped, estopVars, faults>>

StopSessions(next) == AwaitLoop \/ AwaitLoopRaises \/ AwaitStream(next)
===============================================================================

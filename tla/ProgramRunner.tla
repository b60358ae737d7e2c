----------------------------- MODULE ProgramRunner -----------------------------
(***************************************************************************)
(* Runs of programs (nova/program/runner.py, nova/program/utils.py).       *)
(*                                                                         *)
(* Every run is a ProgramRunner with a thread of its own.  The thread      *)
(* runs one event loop with stoppable_run(): the run itself (_run_program) *)
(* in a shielded cancel scope, next to a waiter that polls the thread-safe *)
(* stop event and then cancels that scope.  An action is what the thread   *)
(* does between two awaits, or a call from another thread.  Cancellation   *)
(* is anyio's: once the scope is cancelled every later await inside it is  *)
(* interrupted, those of the clean-up included; only RobotCell.stop() is   *)
(* shielded.                                                               *)
(***************************************************************************)
EXTENDS Naturals, FiniteSets

CONSTANTS
    MaxRuns,        \* bound: runs started
    Controllers,    \* the controllers in the preconditions of the programs
    Faults          \* subset of AllFaults: what may go wrong, each once

AllFaults == {"open_fails", "ensure_fails", "program_raises", "stop_fails",
              "publish_fails", "close_fails", "delete_fails", "watch_ends",
              "watch_raises"}

ASSUME MaxRunsAssumption == MaxRuns \in Nat
ASSUME FaultsAssumption == Faults \subseteq AllFaults

Runs == 1..MaxRuns

VARIABLES
    run,            \* where the thread of each run stands
    state,          \* program_run.state
    stopEvent,      \* _stop_event: not there yet, clear or set
    cancelled,      \* run_scope has been cancelled
    watching,       \* _estop_handler reads the state stream of the robot cell
    watchFailed,    \* it has raised, and with it the task group around the program
    ensured,        \* created_controllers of _ensure_preconditions
    created,        \* created_controller_ids of _run_program
    deleted,        \* the clean-up has deleted these of them
    refused,        \* the clean-up has logged an error for these
    connected,      \* the run's Nova is connected
    cleanup,        \* cleanup_controllers of the program's preconditions
    override,       \* a robot_cell_override is given: no connection, devices instead
    cell,           \* controllers that exist in the cell
    usedBy,         \* history: the runs that added or found a controller of the cell
    emergency,      \* a device of the robot cell is in emergency stop
    faults          \* the faults that may still happen

listVars == <<ensured, created, deleted, refused>>
runVars == <<run, state, stopEvent, cancelled, watching, watchFailed, listVars, connected>>
cellVars == <<cell, usedBy>>
worldVars == <<cellVars, emergency, faults>>
runnerVars == <<runVars, worldVars, cleanup, override>>

Positions == {"none", "spawned", "opening", "ensuring", "entering", "running",
              "stopping", "reporting", "closing", "cleaning", "done"}

Active == {"PREPARING", "RUNNING"}
Terminal == {"COMPLETED", "FAILED", "STOPPED"}

RunnerTypeOK ==
    /\ run \in [Runs -> Positions]
    /\ state \in [Runs -> Active \cup Terminal]
    /\ stopEvent \in [Runs -> {"none", "clear", "set"}]
    /\ cancelled \in [Runs -> BOOLEAN]
    /\ watching \in [Runs -> BOOLEAN]
    /\ watchFailed \in [Runs -> BOOLEAN]
    /\ ensured \in [Runs -> SUBSET Controllers]
    /\ created \in [Runs -> SUBSET Controllers]
    /\ deleted \in [Runs -> SUBSET Controllers]
    /\ refused \in [Runs -> SUBSET Controllers]
    /\ connected \in [Runs -> BOOLEAN]
    /\ cleanup \in [Runs -> BOOLEAN]
    /\ override \in BOOLEAN
    /\ cell \subseteq Controllers
    /\ usedBy \in [Controllers -> SUBSET Runs]
    /\ emergency \in BOOLEAN
    /\ faults \subseteq Faults

\* With an override nobody looks at the cell or at the preconditions.
RunnerInit ==
    /\ run = [r \in Runs |-> "none"]
    /\ state = [r \in Runs |-> "PREPARING"]
    /\ stopEvent = [r \in Runs |-> "none"]
    /\ cancelled = [r \in Runs |-> FALSE]
    /\ watching = [r \in Runs |-> FALSE]
    /\ watchFailed = [r \in Runs |-> FALSE]
    /\ ensured = [r \in Runs |-> {}]
    /\ created = [r \in Runs |-> {}]
    /\ deleted = [r \in Runs |-> {}]
    /\ refused = [r \in Runs |-> {}]
    /\ connected = [r \in Runs |-> FALSE]
    /\ cleanup \in [Runs -> BOOLEAN]
    /\ override \in BOOLEAN
    /\ cell \in SUBSET Controllers
    /\ override => cell = {} /\ \A r \in Runs : ~cleanup[r]
    /\ usedBy = [c \in Controllers |-> {}]
    /\ emergency = FALSE
    /\ faults = Faults

May(fault) == fault \in faults /\ faults' = faults \ {fault}

Goes(r, from, to) == run[r] = from /\ run' = [run EXCEPT ![r] = to]

SetState(r, s) == state' = [state EXCEPT ![r] = s]

\* Variant: preparing does not count as running.
RunningOnlyWhenRunning(r) == run[r] # "none" /\ state[r] = "RUNNING"

IsRunning(r) == run[r] # "none" /\ state[r] \in Active

-------------------------------------------------------------------------------
(* Calls from other threads.                                               *)

\* start(): the thread exists; its stop event does not yet.
Start(r) ==
    /\ Goes(r, "none", "spawned")
    /\ UNCHANGED <<state, stopEvent, cancelled, watching, watchFailed, listVars, connected,
                   worldVars, cleanup, override>>

\* The last statement of stop(): without a stop event the call has no effect, and
\* raises nothing.
SetStopEvent(r) ==
    stopEvent' = [stopEvent EXCEPT ![r] = IF @ = "none" THEN "none" ELSE "set"]

-------------------------------------------------------------------------------
(* The thread: preparation.                                                *)

\* Variant: the thread uses an event it never creates.
BeginWithoutEvent(r) ==
    /\ Goes(r, "spawned", IF override THEN "entering" ELSE "opening")
    /\ UNCHANGED <<state, stopEvent, cancelled, watching, watchFailed, listVars, connected,
                   worldVars, cleanup, override>>

Begin(r) ==
    /\ Goes(r, "spawned", IF override THEN "entering" ELSE "opening")
    /\ stopEvent' = [stopEvent EXCEPT ![r] = "clear"]
    /\ UNCHANGED <<state, cancelled, watching, watchFailed, listVars, connected,
                   worldVars, cleanup, override>>

\* Variant: the waiter cancels its own scope instead of the run's.
StopperOfWaiter(r) ==
    /\ stopEvent[r] = "set" /\ ~cancelled[r] /\ run[r] # "done"
    /\ UNCHANGED runnerVars

\* stopper() sees the event, and the waiter of stoppable_run() cancels the run.
Stopper(r) ==
    /\ stopEvent[r] = "set" /\ ~cancelled[r] /\ run[r] # "done"
    /\ cancelled' = [cancelled EXCEPT ![r] = TRUE]
    /\ UNCHANGED <<run, state, stopEvent, watching, watchFailed, listVars, connected,
                   worldVars, cleanup, override>>

Opened(r) ==
    /\ Goes(r, "opening", "ensuring")
    /\ connected' = [connected EXCEPT ![r] = TRUE]
    /\ UNCHANGED <<state, stopEvent, cancelled, watching, watchFailed, listVars,
                   worldVars, cleanup, override>>

\* Nobody uses a controller that is not there.
Delete(c) ==
    /\ cell' = cell \ {c}
    /\ usedBy' = [usedBy EXCEPT ![c] = {}]

\* ensure_controller() for one of them, in a task of its own: found or added.
EnsureController(r, c) ==
    /\ run[r] = "ensuring" /\ c \notin ensured[r]
    /\ ensured' = [ensured EXCEPT ![r] = @ \cup {c}]
    /\ cell' = cell \cup {c}
    /\ usedBy' = [usedBy EXCEPT ![c] = @ \cup {r}]
    /\ UNCHANGED <<run, state, stopEvent, cancelled, watching, watchFailed, created, deleted,
                   refused, connected, emergency, faults, cleanup, override>>

\* All tasks have ended well.  Only now does the run get the list, and those that
\* were there before are on it.
Ensured(r) ==
    /\ Goes(r, "ensuring", "entering")
    /\ ensured[r] = Controllers
    /\ created' = [created EXCEPT ![r] = ensured[r]]
    /\ UNCHANGED <<state, stopEvent, cancelled, watching, watchFailed, ensured, deleted,
                   refused, connected, worldVars, cleanup, override>>

\* Variant: a failure is reported to the log only.
FailedUnnoticed(r) ==
    /\ run' = [run EXCEPT ![r] = "cleaning"]
    /\ watching' = [watching EXCEPT ![r] = FALSE]
    /\ UNCHANGED state

\* The outer handler of _run_program: FAILED, whatever the state was.
Failed(r) ==
    /\ run' = [run EXCEPT ![r] = "cleaning"]
    /\ watching' = [watching EXCEPT ![r] = FALSE]
    /\ SetState(r, "FAILED")

PreparationFails(r) ==
    /\ \/ run[r] = "opening" /\ May("open_fails")
       \/ run[r] = "ensuring" /\ May("ensure_fails")
       \/ run[r] = "entering" /\ May(IF override THEN "open_fails" ELSE "publish_fails")
    /\ Failed(r)
    /\ UNCHANGED <<stopEvent, cancelled, watchFailed, listVars, connected, cellVars, emergency,
                   cleanup, override>>

\* Variant: stopped is stopped, wherever the run stands.
InterruptedAsStopped(r) ==
    /\ cancelled[r] /\ run[r] \in {"opening", "ensuring", "entering", "reporting", "closing"}
    /\ run' = [run EXCEPT ![r] = "cleaning"]
    /\ SetState(r, "STOPPED")
    /\ watching' = [watching EXCEPT ![r] = FALSE]
    /\ UNCHANGED <<stopEvent, cancelled, watchFailed, listVars, connected,
                   worldVars, cleanup, override>>

\* A cancelled run outside of the program: the state stays as it is.
Interrupted(r) ==
    /\ cancelled[r] /\ run[r] \in {"opening", "ensuring", "entering"}
    /\ run' = [run EXCEPT ![r] = "cleaning"]
    /\ UNCHANGED <<state, stopEvent, cancelled, watching, watchFailed, listVars, connected,
                   worldVars, cleanup, override>>

\* Variant: nobody listens for emergency stops.
EnteredUnwatched(r) ==
    /\ Goes(r, "entering", "running")
    /\ SetState(r, "RUNNING")
    /\ UNCHANGED <<stopEvent, cancelled, watching, watchFailed, listVars, connected,
                   worldVars, cleanup, override>>

\* The robot cell is open; without override it has no device that streams.
Entered(r) ==
    /\ Goes(r, "entering", "running")
    /\ SetState(r, "RUNNING")
    /\ watching' = [watching EXCEPT ![r] = override]
    /\ UNCHANGED <<stopEvent, cancelled, watchFailed, listVars, connected,
                   worldVars, cleanup, override>>

-------------------------------------------------------------------------------
(* The thread: the program and its end.                                    *)

\* The final state is published if there is a connection, then the group is left.
Report(r, s) ==
    /\ SetState(r, s)
    /\ run' = [run EXCEPT ![r] = IF connected[r] THEN "reporting" ELSE "closing"]
    /\ watching' = [watching EXCEPT ![r] = FALSE]

ProgramReturns(r) ==
    /\ run[r] = "running"
    /\ Report(r, IF stopEvent[r] = "set" THEN "STOPPED" ELSE "COMPLETED")
    /\ UNCHANGED <<stopEvent, cancelled, watchFailed, listVars, connected,
                   worldVars, cleanup, override>>

ProgramRaises(r) ==
    /\ run[r] = "running" /\ May("program_raises")
    /\ Report(r, "FAILED")
    /\ UNCHANGED <<stopEvent, cancelled, watchFailed, listVars, connected, cellVars, emergency,
                   cleanup, override>>

\* Cancelled from outside, or by its task group: stop the robot cell first.
ProgramCancelled(r) ==
    /\ Goes(r, "running", "stopping")
    /\ cancelled[r] \/ watchFailed[r]
    /\ watching' = [watching EXCEPT ![r] = FALSE]
    /\ UNCHANGED <<state, stopEvent, cancelled, watchFailed, listVars, connected,
                   worldVars, cleanup, override>>

CellStopped(r) ==
    /\ run[r] = "stopping"
    /\ Report(r, "STOPPED")
    /\ UNCHANGED <<stopEvent, cancelled, watchFailed, listVars, connected,
                   worldVars, cleanup, override>>

Reported(r) ==
    /\ Goes(r, "reporting", "closing")
    /\ UNCHANGED <<state, stopEvent, cancelled, watching, watchFailed, listVars, connected,
                   worldVars, cleanup, override>>

\* Leaving the task group and the robot cell; the group raises what the watch did.
Closed(r) ==
    /\ run[r] = "closing"
    /\ IF watchFailed[r] THEN Failed(r)
       ELSE Goes(r, "closing", "cleaning") /\ UNCHANGED <<state, watching>>
    /\ UNCHANGED <<stopEvent, cancelled, watchFailed, listVars, connected,
                   worldVars, cleanup, override>>

EndingFails(r) ==
    /\ \/ run[r] = "stopping" /\ override /\ May("stop_fails")
       \/ run[r] = "reporting" /\ May("publish_fails")
       \/ run[r] = "closing" /\ override /\ May("close_fails")
    /\ Failed(r)
    /\ UNCHANGED <<stopEvent, cancelled, watchFailed, listVars, connected, cellVars, emergency,
                   cleanup, override>>

-------------------------------------------------------------------------------
(* The thread: clean-up, in the finally block.                             *)

\* What is left of the loop over the list.
Deletes(r) == IF cleanup[r] THEN created[r] \ (deleted[r] \cup refused[r]) ELSE {}

ControllerDeleted(r, c) ==
    /\ deleted' = [deleted EXCEPT ![r] = @ \cup {c}]
    /\ Delete(c)
    /\ UNCHANGED <<refused, faults>>

\* Variant: an error ends the loop.
DeletionErrorEndsLoop(r, c) ==
    /\ May("delete_fails")
    /\ refused' = [refused EXCEPT ![r] = @ \cup {c}]
    /\ deleted' = [deleted EXCEPT ![r] = created[r] \ {c}]
    /\ UNCHANGED cellVars

\* The error is logged, and the next one is tried.  The controller may be gone.
DeletionFails(r, c) ==
    /\ May("delete_fails")
    /\ refused' = [refused EXCEPT ![r] = @ \cup {c}]
    /\ Delete(c) \/ UNCHANGED cellVars
    /\ UNCHANGED deleted

DeleteController(r, c) ==
    /\ run[r] = "cleaning" /\ ~cancelled[r] /\ c \in Deletes(r)
    /\ ControllerDeleted(r, c) \/ DeletionFails(r, c)
    /\ UNCHANGED <<run, state, stopEvent, cancelled, watching, watchFailed, ensured, created,
                   connected, emergency, cleanup, override>>

CleanedUp(r) ==
    /\ Goes(r, "cleaning", "done")
    /\ ~cancelled[r]
    /\ Deletes(r) = {}
    /\ connected' = [connected EXCEPT ![r] = FALSE]
    /\ UNCHANGED <<state, stopEvent, cancelled, watching, watchFailed, listVars,
                   worldVars, cleanup, override>>

\* Variant: a cancelled clean-up waits for deletions that the scope cuts off.
CleanUpWaitsForDeletions(r) ==
    /\ Goes(r, "cleaning", "done")
    /\ cancelled[r] /\ Deletes(r) = {}
    /\ connected' = [connected EXCEPT ![r] = FALSE]
    /\ UNCHANGED <<state, stopEvent, cancelled, watching, watchFailed, listVars,
                   worldVars, cleanup, override>>

\* In a cancelled run the first request is the last: it may have gone out.
CleanUpCancelled(r) ==
    /\ Goes(r, "cleaning", "done")
    /\ cancelled[r]
    /\ \/ UNCHANGED <<cellVars, connected>>
       \/ \E c \in Deletes(r) : Delete(c) /\ UNCHANGED connected
       \/ Deletes(r) = {} /\ connected' = [connected EXCEPT ![r] = FALSE] /\ UNCHANGED cellVars
    /\ UNCHANGED <<state, stopEvent, cancelled, watching, watchFailed, listVars,
                   emergency, faults, cleanup, override>>

-------------------------------------------------------------------------------
(* The emergency-stop handler, and its surroundings.                       *)

\* The handler stops the run like any caller.
EstopSeen(r) ==
    /\ watching[r] /\ emergency /\ stopEvent[r] # "set"
    /\ IsRunning(r) /\ SetStopEvent(r)
    /\ UNCHANGED <<run, state, cancelled, watching, watchFailed, listVars, connected,
                   worldVars, cleanup, override>>

WatchEnds(r) ==
    /\ watching[r]
    /\ watching' = [watching EXCEPT ![r] = FALSE]
    /\ \/ May("watch_ends") /\ UNCHANGED watchFailed
       \/ May("watch_raises") /\ watchFailed' = [watchFailed EXCEPT ![r] = TRUE]
    /\ UNCHANGED <<run, state, stopEvent, cancelled, listVars, connected, cellVars, emergency,
                   cleanup, override>>

EmergencyStop ==
    /\ override /\ ~emergency
    /\ emergency' = TRUE
    /\ UNCHANGED <<runVars, cellVars, faults, cleanup, override>>

-------------------------------------------------------------------------------

\* What the thread does of itself; how long a program takes is its own affair.
ThreadStep(r) ==
    \/ Begin(r) \/ Opened(r) \/ Ensured(r) \/ Interrupted(r) \/ Entered(r)
    \/ \E c \in Controllers : EnsureController(r, c) \/ DeleteController(r, c)
    \/ ProgramCancelled(r) \/ CellStopped(r) \/ Reported(r) \/ Closed(r)
    \/ CleanedUp(r) \/ CleanUpCancelled(r)

ThreadFails(r) == PreparationFails(r) \/ ProgramRaises(r) \/ EndingFails(r) \/ WatchEnds(r)

RunStep(r) ==
    ThreadStep(r) \/ Stopper(r) \/ EstopSeen(r) \/ ProgramReturns(r) \/ ThreadFails(r)

===============================================================================

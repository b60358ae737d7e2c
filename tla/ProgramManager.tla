----------------------------- MODULE ProgramManager -----------------------------
(***************************************************************************)
(* The program server: at most one program at a time                       *)
(* (novax/program_manager.py, novax/api/programs.py), on top of the runs   *)
(* of ProgramRunner.                                                       *)
(*                                                                         *)
(* The server has one event loop.  stop_program joins the thread of the    *)
(* run on it, so the server does nothing else until that run is over.      *)
(***************************************************************************)
EXTENDS ProgramRunner

VARIABLES
    runner,     \* _runner: the run the server knows, or None
    server      \* the event loop: free, within stop(), or joining the runner's thread

vars == <<runnerVars, runner, server>>

None == 0

TypeOK ==
    /\ RunnerTypeOK
    /\ \A r \in Runs : stopEvent[r] = "none" <=> run[r] \in {"none", "spawned"}
    /\ runner \in Runs \cup {None}
    /\ server \in {"free", "stopping", "joining"}

Init ==
    /\ RunnerInit
    /\ runner = None
    /\ server = "free"

IsAnyProgramRunning == runner # None /\ IsRunning(runner)

\* start_program: a new runner for every run.
StartProgram(r) ==
    /\ server = "free" /\ ~IsAnyProgramRunning
    /\ \A s \in Runs : s < r => run[s] # "none"
    /\ Start(r)
    /\ runner' = r
    /\ UNCHANGED server

\* stop_program up to the checks of is_running(); the thread may go on before the
\* event is set.
StopProgram ==
    /\ server = "free" /\ IsAnyProgramRunning
    /\ server' = "stopping"
    /\ UNCHANGED <<runnerVars, runner>>

\* The rest of stop(), up to the join.
RequestStop ==
    /\ server = "stopping"
    /\ SetStopEvent(runner)
    /\ server' = "joining"
    /\ UNCHANGED <<run, state, cancelled, watching, watchFailed, listVars, connected,
                   worldVars, cleanup, override, runner>>

\* The thread is over.  join() raises what a failed run left behind, if it was kept.
Joined ==
    /\ server = "joining" /\ run[runner] = "done"
    /\ server' = "free"
    /\ \/ runner' = None
       \/ state[runner] = "FAILED" /\ UNCHANGED runner
    /\ UNCHANGED runnerVars

\* All runs are over.
Finished ==
    /\ server = "free"
    /\ \A r \in Runs : run[r] = "done"
    /\ UNCHANGED vars

Next ==
    \/ \E r \in Runs : StartProgram(r)
    \/ StopProgram
    \/ RequestStop
    \/ Joined
    \/ \E r \in Runs : RunStep(r) /\ UNCHANGED <<runner, server>>
    \/ EmergencyStop /\ UNCHANGED <<runner, server>>
    \/ Finished

Spec == Init /\ [][Next]_vars

-------------------------------------------------------------------------------
(* Scheduling: each thread has an event loop of its own.  It runs, its     *)
(* requests are answered, its waiter polls the stop event, and a           *)
(* cancellation reaches the preparation whatever its tasks do meanwhile.   *)

RunGoesOn(r) == ThreadStep(r) /\ UNCHANGED <<runner, server>>
RunIsInterrupted(r) == Interrupted(r) /\ UNCHANGED <<runner, server>>
RunIsStopped(r) == Stopper(r) /\ UNCHANGED <<runner, server>>
EstopIsHandled(r) == EstopSeen(r) /\ UNCHANGED <<runner, server>>

RunIsFair(r) ==
    /\ WF_vars(RunGoesOn(r))
    /\ WF_vars(RunIsInterrupted(r))
    /\ WF_vars(RunIsStopped(r))
    /\ WF_vars(EstopIsHandled(r))

RunsAreFair == \A r \in Runs : RunIsFair(r)

Fairness == WF_vars(RequestStop) /\ WF_vars(Joined) /\ RunsAreFair

FairSpec == Spec /\ Fairness

-------------------------------------------------------------------------------

\* At most one program executes: a run the server has given up or replaced is
\* past its program, whatever is still left to close and to clean up
\* (is_any_program_running in start_program, the join in stop_program).
OnlyTheRunnerExecutes ==
    \A r \in Runs \ {runner} :
        run[r] \in {"none", "reporting", "closing", "cleaning", "done"}

\* A run ends in one final state: once it is reported, only an error on the way
\* out turns it into FAILED, and a finished thread changes nothing.
FinalStateStays ==
    [][\A r \in Runs :
        state[r] \in Terminal =>
            /\ state'[r] \in {state[r], "FAILED"}
            /\ run[r] = "done" => state'[r] = state[r]]_vars

\* A finished thread does not leave its run looking active, unless it was stopped
\* before its program had begun (_run_program re-raises the cancellation there).
EndedIsFinal ==
    \A r \in Runs :
        run[r] = "done" => \/ state[r] \in Terminal
                           \/ state[r] = "PREPARING" /\ cancelled[r]

\* With cleanup_controllers nobody who has used a controller leaves it in the cell:
\* once a run that added or found it is over, it is gone, however the run ended and
\* whatever other runs did to the cell meanwhile.  The exceptions are the code's: a
\* stopped run, whose clean-up is interrupted; a preparation that failed, which never
\* returned its list; a deletion that failed (_ensure_preconditions,
\* _cleanup_preconditions, the finally block of _run_program).
ControllersAreReturned ==
    \A c \in cell : \A r \in usedBy[c] :
        run[r] = "done" =>
            \/ ~cleanup[r]
            \/ cancelled[r]
            \/ created[r] = {}
            \/ c \in refused[r]

\* What the scheduler is to find in the way of no run: a stop to pass on, a
\* cancellation to deliver, a cancelled thread to go on with, an emergency stop.
StopIsDue(r) == stopEvent[r] = "set" /\ ~cancelled[r] /\ run[r] # "done"
InterruptIsDue(r) == cancelled[r] /\ run[r] \in {"opening", "ensuring", "entering"}
EndIsDue(r) ==
    cancelled[r] /\ run[r] \in {"running", "stopping", "reporting", "closing", "cleaning"}
EstopIsDue(r) == watching[r] /\ emergency /\ stopEvent[r] # "set"

\* Nothing a stopped run needs waits for anybody else: not for the server, which
\* may be joining the thread, not for the other runs, not for the controllers
\* that are still to be deleted (stoppable_run, _run_program, _estop_handler).
ThreadsAreFree ==
    \A r \in Runs :
        /\ StopIsDue(r) => ENABLED <<RunIsStopped(r)>>_vars
        /\ InterruptIsDue(r) => ENABLED <<RunIsInterrupted(r)>>_vars
        /\ EndIsDue(r) => ENABLED <<RunGoesOn(r)>>_vars
        /\ EstopIsDue(r) => ENABLED <<EstopIsHandled(r)>>_vars

\* A stop that reached the run's event ends the run.
AcceptedStopEnds ==
    \A r \in Runs : stopEvent[r] = "set" ~> run[r] = "done"

\* An emergency stop of a device ends the program, while no state stream has been
\* lost (_estop_handler).
EmergencyEndsProgram ==
    \A r \in Runs :
        override /\ emergency /\ run[r] = "running"
            ~> \/ run[r] # "running"
               \/ faults \cap {"watch_ends", "watch_raises"} # Faults \cap {"watch_ends", "watch_raises"}

\* "preconditions declares controllers the program needs; NOVA ensures they exist
\* before running" (docs/programs.md:106-107): a program starts with them.
PreconditionsHold ==
    [][\A r \in Runs :
        run[r] = "entering" /\ run'[r] = "running" /\ ~override => Controllers \subseteq cell]_vars

===============================================================================

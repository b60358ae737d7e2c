---------------------- MODULE TrajectoryExecutionMachine ----------------------
(***************************************************************************)
(* The trajectory lifecycle machine every movement controller feeds with   *)
(* the controller's motion-group states                                    *)
(* (nova/cell/movement_controller/trajectory_state_machine.py).            *)
(*                                                                         *)
(* A motion-group state is abstracted to a report: "details" is "none"     *)
(* when the state has no execute, "jogging" when execute carries something *)
(* other than TrajectoryDetails, and otherwise the trajectory state.       *)
(*                                                                         *)
(* Only operators are defined here, for the modules of the controllers,    *)
(* which keep the machine's state in a variable.  No controller sends      *)
(* "fail", so none of them takes the machine to its error state.           *)
(***************************************************************************)
EXTENDS Naturals

MachineStates ==
    {"idle", "executing", "ending", "pausing", "paused", "ended", "error"}

\* What the machine treats as the end of the trajectory.
EndReports == {"Ended", "PausedOnIO"}

TrajectoryStates == EndReports \cup {"PausedByUser", "Running", "WaitForIO", "Unknown"}

Details == TrajectoryStates \cup {"none", "jogging"}

HasExecute(report) == report.details # "none"

IsTrajectory(report) == report.details \in TrajectoryStates

\* The states from which send("start") is a transition; from any other one it
\* raises TransitionNotAllowed.
StartableStates == {"idle", "paused", "ended"}

\* Variant: a trajectory that has ended counts as ended while still moving.
EndWhileMoving(details, standstill) ==
    CASE details \in EndReports -> "ended"
      [] details = "PausedByUser" -> IF standstill THEN "paused" ELSE "pausing"
      [] OTHER -> "executing"

\* Variant: a pause by the user is not recognised.
PauseUnnoticed(details, standstill) ==
    IF details \in EndReports THEN (IF standstill THEN "ended" ELSE "ending")
                              ELSE "executing"

\* Variant: a pause by the user counts as a failure.
PauseIsError(details, standstill) ==
    CASE details \in EndReports -> IF standstill THEN "ended" ELSE "ending"
      [] details = "PausedByUser" -> "error"
      [] OTHER -> "executing"

\* _handle_executing
HandleExecuting(details, standstill) ==
    CASE details \in EndReports -> IF standstill THEN "ended" ELSE "ending"
      [] details = "PausedByUser" -> IF standstill THEN "paused" ELSE "pausing"
      [] OTHER -> "executing"

\* The machine state process_motion_state leaves behind.
Processed(state, report) ==
    IF ~IsTrajectory(report) THEN state
    ELSE CASE state = "executing" -> HandleExecuting(report.details, report.standstill)
           [] state = "ending" /\ report.standstill -> "ended"
           [] state = "pausing" /\ report.standstill -> "paused"
           [] OTHER -> state

===============================================================================

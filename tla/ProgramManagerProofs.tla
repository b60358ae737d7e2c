-------------------------- MODULE ProgramManagerProofs --------------------------
(***************************************************************************)
(* Proofs about the program server and its runs, for any number of runs,   *)
(* any controllers and any faults.                                         *)
(***************************************************************************)
EXTENDS ProgramManager, TLAPS

\* What the position of a thread says about the state it has reported.
Phases ==
    \A r \in Runs :
        /\ run[r] \in {"none", "spawned", "opening", "ensuring", "entering"}
              => state[r] = "PREPARING"
        /\ run[r] \in {"running", "stopping"} => state[r] = "RUNNING"
        /\ run[r] \in {"reporting", "closing"} => state[r] \in Terminal
        /\ run[r] \in {"cleaning", "done"}
              => state[r] \in Terminal \/ (state[r] = "PREPARING" /\ cancelled[r])

JoinsARunner == server # "free" => runner # None

IInv == TypeOK /\ Phases /\ JoinsARunner /\ OnlyTheRunnerExecutes

-------------------------------------------------------------------------------

\* Every step keeps the types; a run has its stop event from its first step on.
LEMMA TypeStep ==
    TypeOK /\ [Next]_vars => TypeOK'
<1> SUFFICES ASSUME TypeOK, [Next]_vars PROVE TypeOK'
    OBVIOUS
<1> USE DEF TypeOK, RunnerTypeOK, Runs, Positions, Active, Terminal, None, vars, runnerVars, runVars, listVars, cellVars, worldVars
<1>1. ASSUME NEW r \in Runs, StartProgram(r) PROVE TypeOK'
    BY <1>1 DEF StartProgram, Start, Goes, IsAnyProgramRunning, IsRunning
<1>2. CASE StopProgram \/ RequestStop
    BY <1>2 DEF StopProgram, RequestStop, SetStopEvent, IsAnyProgramRunning, IsRunning
<1>3. CASE Joined
    BY <1>3 DEF Joined
<1>4. ASSUME NEW r \in Runs, RunStep(r), UNCHANGED <<runner, server>> PROVE TypeOK'
  <2>1. CASE Begin(r)
    BY <1>4, <2>1 DEF Begin, Goes
  <2>2. CASE Opened(r)
    BY <1>4, <2>2 DEF Opened, Goes
  <2>3. CASE Ensured(r)
    BY <1>4, <2>3 DEF Ensured, Goes
  <2>4. CASE Interrupted(r)
    BY <1>4, <2>4 DEF Interrupted
  <2>5. CASE Entered(r)
    BY <1>4, <2>5 DEF Entered, Goes, SetState
  <2>6. ASSUME NEW c \in Controllers, EnsureController(r, c) PROVE TypeOK'
    BY <1>4, <2>6 DEF EnsureController
  <2>7. ASSUME NEW c \in Controllers, DeleteController(r, c) PROVE TypeOK'
    BY <1>4, <2>7 DEF DeleteController, ControllerDeleted, DeletionFails, Delete, May, Deletes
  <2>8. CASE ProgramCancelled(r)
    BY <1>4, <2>8 DEF ProgramCancelled, Goes
  <2>9. CASE CellStopped(r)
    BY <1>4, <2>9 DEF CellStopped, Report, SetState
  <2>10. CASE Reported(r)
    BY <1>4, <2>10 DEF Reported, Goes
  <2>11. CASE Closed(r)
    BY <1>4, <2>11 DEF Closed, Goes, Failed, SetState
  <2>12. CASE CleanedUp(r)
    BY <1>4, <2>12 DEF CleanedUp, Goes
  <2>13. CASE CleanUpCancelled(r)
    BY <1>4, <2>13 DEF CleanUpCancelled, Goes, Delete, Deletes
  <2>14. CASE Stopper(r)
    BY <1>4, <2>14 DEF Stopper
  <2>15. CASE EstopSeen(r)
    BY <1>4, <2>15 DEF EstopSeen, SetStopEvent, IsRunning
  <2>16. CASE ProgramReturns(r)
    BY <1>4, <2>16 DEF ProgramReturns, Report, SetState
  <2>17. CASE PreparationFails(r)
    BY <1>4, <2>17 DEF PreparationFails, May, Failed, SetState
  <2>18. CASE ProgramRaises(r)
    BY <1>4, <2>18 DEF ProgramRaises, May, Report, SetState
  <2>19. CASE EndingFails(r)
    BY <1>4, <2>19 DEF EndingFails, May, Failed, SetState
  <2>20. CASE WatchEnds(r)
    BY <1>4, <2>20 DEF WatchEnds, May
  <2>21. QED
    BY <1>4, <2>1, <2>2, <2>3, <2>4, <2>5, <2>6, <2>7, <2>8, <2>9, <2>10, <2>11, <2>12, <2>13, <2>14, <2>15, <2>16, <2>17, <2>18, <2>19, <2>20
       DEF RunStep, ThreadStep, ThreadFails
<1>5. CASE EmergencyStop /\ UNCHANGED <<runner, server>>
    BY <1>5 DEF EmergencyStop
<1>6. CASE Finished \/ UNCHANGED vars
    BY <1>6 DEF Finished
<1>7. QED
    BY <1>1, <1>2, <1>3, <1>4, <1>5, <1>6 DEF Next

\* Every step keeps position and reported state together.
LEMMA PhaseStep ==
    TypeOK /\ Phases /\ [Next]_vars => Phases'
<1> SUFFICES ASSUME TypeOK /\ Phases, [Next]_vars PROVE Phases'
    OBVIOUS
<1> USE DEF Phases, TypeOK, RunnerTypeOK, Positions, Active, Terminal, vars, runnerVars, runVars, listVars, cellVars, worldVars
<1>1. ASSUME NEW r \in Runs, StartProgram(r) PROVE Phases'
    BY <1>1 DEF StartProgram, Start, Goes, IsAnyProgramRunning, IsRunning
<1>2. CASE StopProgram \/ RequestStop
    BY <1>2 DEF StopProgram, RequestStop, SetStopEvent, IsAnyProgramRunning, IsRunning
<1>3. CASE Joined
    BY <1>3 DEF Joined
<1>4. ASSUME NEW r \in Runs, RunStep(r), UNCHANGED <<runner, server>> PROVE Phases'
  <2>1. CASE Begin(r)
    BY <1>4, <2>1 DEF Begin, Goes
  <2>2. CASE Opened(r)
    BY <1>4, <2>2 DEF Opened, Goes
  <2>3. CASE Ensured(r)
    BY <1>4, <2>3 DEF Ensured, Goes
  <2>4. CASE Interrupted(r)
    BY <1>4, <2>4 DEF Interrupted
  <2>5. CASE Entered(r)
    BY <1>4, <2>5 DEF Entered, Goes, SetState
  <2>6. ASSUME NEW c \in Controllers, EnsureController(r, c) PROVE Phases'
    BY <1>4, <2>6 DEF EnsureController
  <2>7. ASSUME NEW c \in Controllers, DeleteController(r, c) PROVE Phases'
    BY <1>4, <2>7 DEF DeleteController, ControllerDeleted, DeletionFails, Delete, May, Deletes
  <2>8. CASE ProgramCancelled(r)
    BY <1>4, <2>8 DEF ProgramCancelled, Goes
  <2>9. CASE CellStopped(r)
    BY <1>4, <2>9 DEF CellStopped, Report, SetState
  <2>10. CASE Reported(r)
    BY <1>4, <2>10 DEF Reported, Goes
  <2>11. CASE Closed(r)
    BY <1>4, <2>11 DEF Closed, Goes, Failed, SetState
  <2>12. CASE CleanedUp(r)
    BY <1>4, <2>12 DEF CleanedUp, Goes
  <2>13. CASE CleanUpCancelled(r)
    BY <1>4, <2>13 DEF CleanUpCancelled, Goes, Delete, Deletes
  <2>14. CASE Stopper(r)
    BY <1>4, <2>14 DEF Stopper
  <2>15. CASE EstopSeen(r)
    BY <1>4, <2>15 DEF EstopSeen, SetStopEvent, IsRunning
  <2>16. CASE ProgramReturns(r)
    BY <1>4, <2>16 DEF ProgramReturns, Report, SetState
  <2>17. CASE PreparationFails(r)
    BY <1>4, <2>17 DEF PreparationFails, May, Failed, SetState
  <2>18. CASE ProgramRaises(r)
    BY <1>4, <2>18 DEF ProgramRaises, May, Report, SetState
  <2>19. CASE EndingFails(r)
    BY <1>4, <2>19 DEF EndingFails, May, Failed, SetState
  <2>20. CASE WatchEnds(r)
    BY <1>4, <2>20 DEF WatchEnds, May
  <2>21. QED
    BY <1>4, <2>1, <2>2, <2>3, <2>4, <2>5, <2>6, <2>7, <2>8, <2>9, <2>10, <2>11, <2>12, <2>13, <2>14, <2>15, <2>16, <2>17, <2>18, <2>19, <2>20
       DEF RunStep, ThreadStep, ThreadFails
<1>5. CASE EmergencyStop /\ UNCHANGED <<runner, server>>
    BY <1>5 DEF EmergencyStop
<1>6. CASE Finished \/ UNCHANGED vars
    BY <1>6 DEF Finished
<1>7. QED
    BY <1>1, <1>2, <1>3, <1>4, <1>5, <1>6 DEF Next

\* A run is replaced or given up only when its reported state is final.
LEMMA RunnerStep ==
    TypeOK /\ Phases /\ JoinsARunner /\ OnlyTheRunnerExecutes /\ [Next]_vars => (JoinsARunner /\ OnlyTheRunnerExecutes)'
<1> SUFFICES ASSUME TypeOK /\ Phases /\ JoinsARunner /\ OnlyTheRunnerExecutes, [Next]_vars PROVE (JoinsARunner /\ OnlyTheRunnerExecutes)'
    OBVIOUS
<1> USE DEF JoinsARunner, OnlyTheRunnerExecutes, Phases, TypeOK, RunnerTypeOK, Runs, Positions, Active, Terminal, None, vars, runnerVars, runVars, listVars, cellVars, worldVars
<1>1. ASSUME NEW r \in Runs, StartProgram(r) PROVE (JoinsARunner /\ OnlyTheRunnerExecutes)'
    BY <1>1 DEF StartProgram, Start, Goes, IsAnyProgramRunning, IsRunning
<1>2. CASE StopProgram \/ RequestStop
    BY <1>2 DEF StopProgram, RequestStop, SetStopEvent, IsAnyProgramRunning, IsRunning
<1>3. CASE Joined
    BY <1>3 DEF Joined
<1>4. ASSUME NEW r \in Runs, RunStep(r), UNCHANGED <<runner, server>> PROVE (JoinsARunner /\ OnlyTheRunnerExecutes)'
  <2>1. CASE Begin(r)
    BY <1>4, <2>1 DEF Begin, Goes
  <2>2. CASE Opened(r)
    BY <1>4, <2>2 DEF Opened, Goes
  <2>3. CASE Ensured(r)
    BY <1>4, <2>3 DEF Ensured, Goes
  <2>4. CASE Interrupted(r)
    BY <1>4, <2>4 DEF Interrupted
  <2>5. CASE Entered(r)
    BY <1>4, <2>5 DEF Entered, Goes, SetState
  <2>6. ASSUME NEW c \in Controllers, EnsureController(r, c) PROVE (JoinsARunner /\ OnlyTheRunnerExecutes)'
    BY <1>4, <2>6 DEF EnsureController
  <2>7. ASSUME NEW c \in Controllers, DeleteController(r, c) PROVE (JoinsARunner /\ OnlyTheRunnerExecutes)'
    BY <1>4, <2>7 DEF DeleteController, ControllerDeleted, DeletionFails, Delete, May, Deletes
  <2>8. CASE ProgramCancelled(r)
    BY <1>4, <2>8 DEF ProgramCancelled, Goes
  <2>9. CASE CellStopped(r)
    BY <1>4, <2>9 DEF CellStopped, Report, SetState
  <2>10. CASE Reported(r)
    BY <1>4, <2>10 DEF Reported, Goes
  <2>11. CASE Closed(r)
    <3>1. run' = [run EXCEPT ![r] = "cleaning"] /\ UNCHANGED <<runner, server>>
      BY <1>4, <2>11 DEF Closed, Goes, Failed
    <3>2. QED
      BY <3>1
  <2>12. CASE CleanedUp(r)
    BY <1>4, <2>12 DEF CleanedUp, Goes
  <2>13. CASE CleanUpCancelled(r)
    BY <1>4, <2>13 DEF CleanUpCancelled, Goes, Delete, Deletes
  <2>14. CASE Stopper(r)
    BY <1>4, <2>14 DEF Stopper
  <2>15. CASE EstopSeen(r)
    BY <1>4, <2>15 DEF EstopSeen, SetStopEvent, IsRunning
  <2>16. CASE ProgramReturns(r)
    BY <1>4, <2>16 DEF ProgramReturns, Report, SetState
  <2>17. CASE PreparationFails(r)
    BY <1>4, <2>17 DEF PreparationFails, May, Failed, SetState
  <2>18. CASE ProgramRaises(r)
    BY <1>4, <2>18 DEF ProgramRaises, May, Report, SetState
  <2>19. CASE EndingFails(r)
    BY <1>4, <2>19 DEF EndingFails, May, Failed, SetState
  <2>20. CASE WatchEnds(r)
    BY <1>4, <2>20 DEF WatchEnds, May
  <2>21. QED
    BY <1>4, <2>1, <2>2, <2>3, <2>4, <2>5, <2>6, <2>7, <2>8, <2>9, <2>10, <2>11, <2>12, <2>13, <2>14, <2>15, <2>16, <2>17, <2>18, <2>19, <2>20
       DEF RunStep, ThreadStep, ThreadFails
<1>5. CASE EmergencyStop /\ UNCHANGED <<runner, server>>
    BY <1>5 DEF EmergencyStop
<1>6. CASE Finished \/ UNCHANGED vars
    BY <1>6 DEF Finished
<1>7. QED
    BY <1>1, <1>2, <1>3, <1>4, <1>5, <1>6 DEF Next

-------------------------------------------------------------------------------

\* The inductive invariant: types, phases, a server that waits has a run to wait
\* for, and no other run is before the end of its program.
THEOREM Invariant == Spec => []IInv
<1>1. Init => IInv
  <2> SUFFICES ASSUME Init PROVE IInv
    OBVIOUS
  <2>1. RunnerTypeOK
    BY DEF Init, RunnerInit, RunnerTypeOK, Positions, Active
  <2>2. TypeOK
    BY <2>1 DEF Init, RunnerInit, TypeOK
  <2>3. Phases /\ JoinsARunner /\ OnlyTheRunnerExecutes
    BY DEF Init, RunnerInit, Phases, JoinsARunner, OnlyTheRunnerExecutes
  <2>4. QED
    BY <2>2, <2>3 DEF IInv
<1>2. IInv /\ [Next]_vars => IInv'
  BY TypeStep, PhaseStep, RunnerStep DEF IInv
<1>3. QED
  BY <1>1, <1>2, PTL DEF Spec

\* Types, and the stop event that exists from the first step of the thread on.
THEOREM TypeCorrect == Spec => []TypeOK
<1>1. IInv => TypeOK
  BY DEF IInv
<1>2. QED
  BY <1>1, Invariant, PTL

\* The server never lets two programs execute at a time, nor loses sight of one.
THEOREM OneAtATime == Spec => []OnlyTheRunnerExecutes
<1>1. IInv => OnlyTheRunnerExecutes
  BY DEF IInv
<1>2. QED
  BY <1>1, Invariant, PTL

\* A finished thread has reported a final state, unless it was stopped early.
THEOREM EndIsReported == Spec => []EndedIsFinal
<1>1. IInv => EndedIsFinal
  BY DEF IInv, Phases, EndedIsFinal, Terminal
<1>2. QED
  BY <1>1, Invariant, PTL

FinalStep ==
    \A r \in Runs :
        state[r] \in Terminal =>
            /\ state'[r] \in {state[r], "FAILED"}
            /\ run[r] = "done" => state'[r] = state[r]

\* No step takes a reported final state back.
LEMMA FinalStepKept ==
    TypeOK /\ Phases /\ [Next]_vars => FinalStep
<1> SUFFICES ASSUME TypeOK /\ Phases, [Next]_vars PROVE FinalStep
    OBVIOUS
<1> USE DEF FinalStep, Phases, TypeOK, RunnerTypeOK, Positions, Active, Terminal, vars, runnerVars, runVars, listVars, cellVars, worldVars
<1>1. ASSUME NEW r \in Runs, StartProgram(r) PROVE FinalStep
    BY <1>1 DEF StartProgram, Start, Goes, IsAnyProgramRunning, IsRunning
<1>2. CASE StopProgram \/ RequestStop
    BY <1>2 DEF StopProgram, RequestStop, SetStopEvent, IsAnyProgramRunning, IsRunning
<1>3. CASE Joined
    BY <1>3 DEF Joined
<1>4. ASSUME NEW r \in Runs, RunStep(r), UNCHANGED <<runner, server>> PROVE FinalStep
  <2>1. CASE Begin(r)
    BY <1>4, <2>1 DEF Begin, Goes
  <2>2. CASE Opened(r)
    BY <1>4, <2>2 DEF Opened, Goes
  <2>3. CASE Ensured(r)
    BY <1>4, <2>3 DEF Ensured, Goes
  <2>4. CASE Interrupted(r)
    BY <1>4, <2>4 DEF Interrupted
  <2>5. CASE Entered(r)
    BY <1>4, <2>5 DEF Entered, Goes, SetState
  <2>6. ASSUME NEW c \in Controllers, EnsureController(r, c) PROVE FinalStep
    BY <1>4, <2>6 DEF EnsureController
  <2>7. ASSUME NEW c \in Controllers, DeleteController(r, c) PROVE FinalStep
    BY <1>4, <2>7 DEF DeleteController, ControllerDeleted, DeletionFails, Delete, May, Deletes
  <2>8. CASE ProgramCancelled(r)
    BY <1>4, <2>8 DEF ProgramCancelled, Goes
  <2>9. CASE CellStopped(r)
    BY <1>4, <2>9 DEF CellStopped, Report, SetState
  <2>10. CASE Reported(r)
    BY <1>4, <2>10 DEF Reported, Goes
  <2>11. CASE Closed(r)
    BY <1>4, <2>11 DEF Closed, Goes, Failed, SetState
  <2>12. CASE CleanedUp(r)
    BY <1>4, <2>12 DEF CleanedUp, Goes
  <2>13. CASE CleanUpCancelled(r)
    BY <1>4, <2>13 DEF CleanUpCancelled, Goes, Delete, Deletes
  <2>14. CASE Stopper(r)
    BY <1>4, <2>14 DEF Stopper
  <2>15. CASE EstopSeen(r)
    BY <1>4, <2>15 DEF EstopSeen, SetStopEvent, IsRunning
  <2>16. CASE ProgramReturns(r)
    BY <1>4, <2>16 DEF ProgramReturns, Report, SetState
  <2>17. CASE PreparationFails(r)
    BY <1>4, <2>17 DEF PreparationFails, May, Failed, SetState
  <2>18. CASE ProgramRaises(r)
    BY <1>4, <2>18 DEF ProgramRaises, May, Report, SetState
  <2>19. CASE EndingFails(r)
    BY <1>4, <2>19 DEF EndingFails, May, Failed, SetState
  <2>20. CASE WatchEnds(r)
    BY <1>4, <2>20 DEF WatchEnds, May
  <2>21. QED
    BY <1>4, <2>1, <2>2, <2>3, <2>4, <2>5, <2>6, <2>7, <2>8, <2>9, <2>10, <2>11, <2>12, <2>13, <2>14, <2>15, <2>16, <2>17, <2>18, <2>19, <2>20
       DEF RunStep, ThreadStep, ThreadFails
<1>5. CASE EmergencyStop /\ UNCHANGED <<runner, server>>
    BY <1>5 DEF EmergencyStop
<1>6. CASE Finished \/ UNCHANGED vars
    BY <1>6 DEF Finished
<1>7. QED
    BY <1>1, <1>2, <1>3, <1>4, <1>5, <1>6 DEF Next

\* A final state stays, but for an error on the way out.
THEOREM FinalStays == Spec => FinalStateStays
<1>1. IInv /\ [Next]_vars => [FinalStep]_vars
  BY FinalStepKept DEF IInv
<1>2. QED
  BY <1>1, Invariant, PTL DEF Spec, FinalStateStays, FinalStep

-------------------------------------------------------------------------------

(* Controllers and their clean-up.                                         *)

\* A step of one run leaves what the other runs have.
LEMMA RunsAreApart ==
    ASSUME TypeOK, NEW r \in Runs, RunStep(r), NEW s \in Runs \ {r}
    PROVE  run'[s] = run[s] /\ cancelled'[s] = cancelled[s]
<1> USE DEF TypeOK, RunnerTypeOK
<1>1. CASE \/ Begin(r) \/ Opened(r) \/ Ensured(r) \/ Interrupted(r) \/ Entered(r)
           \/ ProgramCancelled(r) \/ CellStopped(r) \/ Reported(r) \/ Closed(r)
           \/ ProgramReturns(r)
  BY <1>1 DEF Begin, Opened, Ensured, Interrupted, Entered, ProgramCancelled, CellStopped,
     Reported, Closed, ProgramReturns, Goes, Report, Failed
<1>2. CASE \/ CleanedUp(r) \/ CleanUpCancelled(r)
           \/ \E c \in Controllers : EnsureController(r, c) \/ DeleteController(r, c)
  BY <1>2 DEF CleanedUp, CleanUpCancelled, EnsureController, DeleteController, Goes
<1>3. CASE Stopper(r) \/ EstopSeen(r) \/ ThreadFails(r)
  BY <1>3 DEF Stopper, EstopSeen, ThreadFails, WatchEnds, PreparationFails, ProgramRaises,
     EndingFails, Failed, Report
<1>4. QED
  BY <1>1, <1>2, <1>3 DEF RunStep, ThreadStep

\* The steps that have to do with controllers, and the end of a thread.
ControllerStep(r) ==
    \/ Ensured(r) \/ CleanedUp(r) \/ CleanUpCancelled(r)
    \/ \E c \in Controllers : EnsureController(r, c) \/ DeleteController(r, c)

(***************************************************************************)
(* The list of a run is that of all its controllers or empty, and it       *)
(* deletes nothing before its clean-up.  What it has deleted is not what   *)
(* is in the cell now: that has been added since, by another run.          *)
(***************************************************************************)
ReturnInv ==
    /\ \A r \in Runs :
          /\ created[r] \in {{}, Controllers}
          /\ deleted[r] # {} => run[r] \in {"cleaning", "done"}
    /\ \A c \in Controllers \ cell : usedBy[c] = {}
    /\ \A c \in cell : \A r \in usedBy[c] : c \notin deleted[r]
    /\ ControllersAreReturned

\* No run comes to its end, or leaves its clean-up, in any other way.
LEMMA OtherStepsKeep ==
    ASSUME TypeOK, ReturnInv,
           UNCHANGED <<created, deleted, refused, cell, usedBy, cleanup>>,
           \A r \in Runs :
              /\ run'[r] = "done" => run[r] = "done"
              /\ run[r] \in {"cleaning", "done"} => run'[r] \in {"cleaning", "done"}
              /\ cancelled[r] => cancelled'[r]
    PROVE  ReturnInv'
<1> USE DEF TypeOK, RunnerTypeOK
<1>1. ControllersAreReturned'
  BY DEF ReturnInv, ControllersAreReturned
<1>2. QED
  BY <1>1 DEF ReturnInv

LEMMA OtherSteps ==
    ASSUME TypeOK, NEW r \in Runs, RunStep(r), ~ControllerStep(r)
    PROVE  /\ UNCHANGED <<created, deleted, refused, cell, usedBy, cleanup>>
           /\ run'[r] = "done" => run[r] = "done"
           /\ run[r] \in {"cleaning", "done"} => run'[r] \in {"cleaning", "done"}
           /\ cancelled[r] => cancelled'[r]
<1> USE DEF TypeOK, RunnerTypeOK
<1>1. CASE Begin(r) \/ Opened(r) \/ Interrupted(r) \/ Entered(r)
  BY <1>1 DEF Begin, Opened, Interrupted, Entered, Goes, listVars, worldVars, cellVars
<1>2. CASE ProgramCancelled(r) \/ CellStopped(r) \/ Reported(r) \/ Closed(r) \/ ProgramReturns(r)
  BY <1>2 DEF ProgramCancelled, CellStopped, Reported, Closed, ProgramReturns, Goes, Report,
     Failed, listVars, worldVars, cellVars
<1>3. CASE Stopper(r) \/ EstopSeen(r)
  BY <1>3 DEF Stopper, EstopSeen, listVars, worldVars, cellVars
<1>4. CASE ThreadFails(r)
  BY <1>4 DEF ThreadFails, WatchEnds, PreparationFails, ProgramRaises, EndingFails, Failed,
     Report, listVars, cellVars
<1>5. QED
  BY <1>1, <1>2, <1>3, <1>4 DEF RunStep, ThreadStep, ControllerStep

\* A deletion takes the controller from everybody.
LEMMA DeletingKeeps ==
    ASSUME TypeOK, ReturnInv, NEW r \in Runs, NEW c \in Controllers, Delete(c),
           UNCHANGED <<created, run, cancelled, cleanup>>,
           \A s \in Runs : refused[s] \subseteq refused'[s],
           \A s \in Runs : deleted'[s] \subseteq deleted[s] \cup {c},
           \A s \in Runs : s # r => deleted'[s] = deleted[s],
           run[r] = "cleaning"
    PROVE  ReturnInv'
<1> USE DEF TypeOK, RunnerTypeOK
<1>1. /\ cell' = cell \ {c} /\ usedBy'[c] = {}
      /\ \A d \in Controllers \ {c} : usedBy'[d] = usedBy[d]
  BY DEF Delete
<1>2. ControllersAreReturned'
  BY <1>1 DEF ReturnInv, ControllersAreReturned
<1>3. \A d \in Controllers \ cell' : usedBy'[d] = {}
  BY <1>1 DEF ReturnInv
<1>4. \A d \in cell' : \A s \in usedBy'[d] : d \notin deleted'[s]
  BY <1>1 DEF ReturnInv
<1>5. \A s \in Runs : deleted'[s] # {} => run'[s] \in {"cleaning", "done"}
  BY DEF ReturnInv
<1>6. QED
  BY <1>2, <1>3, <1>4, <1>5 DEF ReturnInv

LEMMA ControllerStepKeeps ==
    ASSUME TypeOK, ReturnInv, NEW r \in Runs, ControllerStep(r)
    PROVE  ReturnInv'
<1> USE DEF TypeOK, RunnerTypeOK
<1>1. ASSUME NEW c \in Controllers, EnsureController(r, c)
      PROVE  ReturnInv'
  <2>1. /\ cell' = cell \cup {c} /\ usedBy'[c] = usedBy[c] \cup {r}
        /\ \A d \in Controllers \ {c} : usedBy'[d] = usedBy[d]
        /\ run[r] = "ensuring"
        /\ UNCHANGED <<run, cancelled, created, deleted, refused, cleanup>>
    BY <1>1 DEF EnsureController
  <2>2. deleted[r] = {}
    BY <2>1 DEF ReturnInv
  <2>3. \A d \in cell' : \A s \in usedBy'[d] : s = r \/ (d \in cell /\ s \in usedBy[d])
    BY <2>1 DEF ReturnInv
  <2>4. ControllersAreReturned'
    BY <2>1, <2>3 DEF ReturnInv, ControllersAreReturned
  <2>5. QED
    BY <2>1, <2>2, <2>3, <2>4 DEF ReturnInv
<1>2. CASE Ensured(r)
  <2>1. /\ run[r] = "ensuring" /\ run' = [run EXCEPT ![r] = "entering"]
        /\ created' = [created EXCEPT ![r] = Controllers]
        /\ UNCHANGED <<cell, usedBy, cancelled, deleted, refused, cleanup>>
    BY <1>2 DEF Ensured, Goes, worldVars, cellVars
  <2>2. ControllersAreReturned'
    BY <2>1 DEF ReturnInv, ControllersAreReturned
  <2>3. QED
    BY <2>1, <2>2 DEF ReturnInv
<1>3. ASSUME NEW c \in Controllers, DeleteController(r, c)
      PROVE  ReturnInv'
  <2>1. run[r] = "cleaning" /\ UNCHANGED <<run, cancelled, created, cleanup>>
    BY <1>3 DEF DeleteController
  <2>2. CASE ControllerDeleted(r, c)
    BY <2>1, <2>2, DeletingKeeps DEF ControllerDeleted
  <2>3. CASE DeletionFails(r, c) /\ Delete(c)
    BY <2>1, <2>3, DeletingKeeps DEF DeletionFails
  <2>4. CASE DeletionFails(r, c) /\ UNCHANGED cellVars
    <3>1. /\ UNCHANGED <<cell, usedBy, deleted>>
          /\ \A s \in Runs : refused[s] \subseteq refused'[s]
      BY <2>4 DEF DeletionFails, cellVars
    <3>2. ControllersAreReturned'
      BY <2>1, <3>1 DEF ReturnInv, ControllersAreReturned
    <3>3. QED
      BY <2>1, <3>1, <3>2 DEF ReturnInv
  <2>5. QED
    BY <1>3, <2>2, <2>3, <2>4 DEF DeleteController, DeletionFails
<1>4. CASE CleanedUp(r)
  <2>1. /\ run' = [run EXCEPT ![r] = "done"] /\ run[r] = "cleaning"
        /\ UNCHANGED <<cell, usedBy, cancelled, created, deleted, refused, cleanup>>
        /\ Deletes(r) = {}
    BY <1>4 DEF CleanedUp, Goes, listVars, worldVars, cellVars
  <2>2. \A c \in cell : r \in usedBy[c] => ~cleanup[r] \/ created[r] = {} \/ c \in refused[r]
    BY <2>1 DEF ReturnInv, Deletes
  <2>3. ControllersAreReturned'
    BY <2>1, <2>2 DEF ReturnInv, ControllersAreReturned
  <2>4. QED
    BY <2>1, <2>3 DEF ReturnInv
<1>5. CASE CleanUpCancelled(r)
  <2>1. /\ run' = [run EXCEPT ![r] = "done"] /\ cancelled[r]
        /\ UNCHANGED <<cancelled, created, deleted, refused, cleanup>>
        /\ UNCHANGED cellVars \/ \E c \in Controllers : Delete(c)
    BY <1>5 DEF CleanUpCancelled, Goes, listVars, Deletes
  <2>2. /\ cell' \subseteq cell
        /\ \A c \in Controllers : usedBy'[c] \subseteq usedBy[c]
        /\ \A c \in cell \ cell' : usedBy'[c] = {}
    BY <2>1 DEF Delete, cellVars
  <2>3. ControllersAreReturned'
    BY <2>1, <2>2 DEF ReturnInv, ControllersAreReturned
  <2>4. QED
    BY <2>1, <2>2, <2>3 DEF ReturnInv
<1>6. QED
  BY <1>1, <1>2, <1>3, <1>4, <1>5 DEF ControllerStep

\* No controller stays behind a run that used it and is over, unless the run was not to
\* clean up, was stopped, failed to prepare itself or to delete this one: in any number
\* of runs and with any controllers, whoever adds and deletes them meanwhile.
THEOREM NobodyLeavesControllers == Spec => []ControllersAreReturned
<1>1. Init => ReturnInv
  BY DEF Init, RunnerInit, ReturnInv, ControllersAreReturned
<1>2. TypeOK /\ ReturnInv /\ [Next]_vars => ReturnInv'
  <2> SUFFICES ASSUME TypeOK, ReturnInv, [Next]_vars
               PROVE  ReturnInv'
    OBVIOUS
  <2>1. ASSUME NEW r \in Runs, RunStep(r), ~ControllerStep(r)
        PROVE  ReturnInv'
    <3>1. \A s \in Runs \ {r} : run'[s] = run[s] /\ cancelled'[s] = cancelled[s]
      BY <2>1, RunsAreApart
    <3>2. QED
      BY <2>1, <3>1, OtherSteps, OtherStepsKeep
  <2>2. ASSUME NEW r \in Runs, ControllerStep(r)
        PROVE  ReturnInv'
    BY <2>2, ControllerStepKeeps
  <2>3. ASSUME NEW r \in Runs, StartProgram(r)
        PROVE  ReturnInv'
    <3>1. /\ UNCHANGED <<created, deleted, refused, cell, usedBy, cleanup, cancelled>>
          /\ run[r] = "none" /\ run' = [run EXCEPT ![r] = "spawned"]
      BY <2>3 DEF StartProgram, Start, Goes, listVars, worldVars, cellVars
    <3>2. QED
      BY <3>1, OtherStepsKeep DEF TypeOK, RunnerTypeOK
  <2>4. CASE StopProgram \/ RequestStop \/ Joined \/ EmergencyStop \/ Finished \/ UNCHANGED vars
    <3>1. UNCHANGED <<created, deleted, refused, cell, usedBy, cleanup, run, cancelled>>
      BY <2>4 DEF StopProgram, RequestStop, Joined, EmergencyStop, Finished, vars, runnerVars,
         runVars, listVars, worldVars, cellVars
    <3>2. QED
      BY <3>1, OtherStepsKeep
  <2>5. QED
    BY <2>1, <2>2, <2>3, <2>4 DEF Next
<1>3. ReturnInv => ControllersAreReturned
  BY DEF ReturnInv
<1>4. QED
  BY <1>1, <1>2, <1>3, TypeCorrect, PTL DEF Spec

-------------------------------------------------------------------------------
(* What a stopped run comes to, one position after the other.              *)

\* A cancelled run at one of these positions.
At(r, positions) == cancelled[r] /\ run[r] \in positions

Preparing == {"opening", "ensuring", "entering"}

\* Who can move a run, or stop it: its own steps, its start, the server's stop.
LEMMA MovesOfARun ==
    ASSUME TypeOK, NEW r \in Runs, [Next]_vars
    PROVE  \/ RunStep(r) /\ UNCHANGED <<runner, server>>
           \/ StartProgram(r)
           \/ /\ UNCHANGED <<run[r], cancelled[r], override>>
              /\ stopEvent[r] = "set" => stopEvent'[r] = "set"
<1> USE DEF TypeOK, RunnerTypeOK
<1>1. ASSUME NEW s \in Runs \ {r}, RunStep(s)
      PROVE  UNCHANGED <<run[r], cancelled[r], override, stopEvent[r]>>
  <2>1. UNCHANGED <<run[r], cancelled[r]>>
    BY <1>1, RunsAreApart
  <2>2. UNCHANGED override
    BY <1>1 DEF RunStep, ThreadStep, ThreadFails, Begin, Opened, Ensured, Interrupted,
       Entered, EnsureController, DeleteController, ProgramCancelled, CellStopped,
       Reported, Closed, CleanedUp, CleanUpCancelled, Stopper, EstopSeen,
       ProgramReturns, PreparationFails, ProgramRaises, EndingFails, WatchEnds
  <2>3. UNCHANGED stopEvent[r]
    BY <1>1 DEF RunStep, ThreadStep, ThreadFails, Begin, Opened, Ensured, Interrupted,
       Entered, EnsureController, DeleteController, ProgramCancelled, CellStopped,
       Reported, Closed, CleanedUp, CleanUpCancelled, Stopper, EstopSeen, SetStopEvent,
       ProgramReturns, PreparationFails, ProgramRaises, EndingFails, WatchEnds, runVars
  <2>4. QED
    BY <2>1, <2>2, <2>3
<1>2. ASSUME NEW s \in Runs \ {r}, StartProgram(s)
      PROVE  UNCHANGED <<run[r], cancelled[r], override, stopEvent>>
  BY <1>2 DEF StartProgram, Start, Goes
<1>3. CASE StopProgram \/ RequestStop
  BY <1>3 DEF StopProgram, RequestStop, SetStopEvent, runnerVars, runVars
<1>4. CASE Joined \/ EmergencyStop \/ Finished \/ UNCHANGED vars
  BY <1>4 DEF Joined, EmergencyStop, Finished, vars, runnerVars, runVars
<1>5. QED
  BY <1>1, <1>2, <1>3, <1>4 DEF Next

\* The positions of a cancelled run follow one another, towards the end.
LEMMA CancelledRunMovesOn ==
    ASSUME TypeOK, NEW r \in Runs, [Next]_vars, cancelled[r], run[r] # "none"
    PROVE  /\ cancelled'[r]
           /\ run[r] \in Preparing =>
                 run'[r] \in Preparing \cup {"running", "cleaning"}
           /\ run[r] = "running" => run'[r] \in {"running", "stopping", "reporting", "closing"}
           /\ run[r] = "stopping" =>
                 run'[r] \in {"stopping", "reporting", "closing", "cleaning"}
           /\ run[r] = "reporting" => run'[r] \in {"reporting", "closing", "cleaning"}
           /\ run[r] = "closing" => run'[r] \in {"closing", "cleaning"}
           /\ run[r] = "cleaning" => run'[r] \in {"cleaning", "done"}
<1> USE DEF TypeOK, RunnerTypeOK
<1>1. CASE UNCHANGED <<run[r], cancelled[r]>>
  BY <1>1
<1>2. CASE Interrupted(r)
  BY <1>2 DEF Interrupted, Preparing
<1>3. CASE Begin(r) \/ Opened(r) \/ Ensured(r) \/ Entered(r)
  BY <1>3 DEF Begin, Opened, Ensured, Entered, Goes, Preparing
<1>4. CASE ProgramCancelled(r) \/ CellStopped(r) \/ Reported(r) \/ Closed(r)
  BY <1>4 DEF ProgramCancelled, CellStopped, Reported, Closed, Goes, Report, Failed, Preparing
<1>5. CASE \E c \in Controllers : EnsureController(r, c) \/ DeleteController(r, c)
  BY <1>5 DEF EnsureController, DeleteController, runVars
<1>6. CASE CleanedUp(r) \/ CleanUpCancelled(r)
  BY <1>6 DEF CleanedUp, CleanUpCancelled, Goes, Preparing
<1>7. CASE Stopper(r) \/ EstopSeen(r) \/ WatchEnds(r)
  BY <1>7 DEF Stopper, EstopSeen, WatchEnds
<1>8. CASE ProgramReturns(r) \/ ProgramRaises(r)
  BY <1>8 DEF ProgramReturns, ProgramRaises, Report, Preparing
<1>9. CASE PreparationFails(r) \/ EndingFails(r)
  BY <1>9 DEF PreparationFails, EndingFails, Failed, Preparing
<1>10. CASE StartProgram(r)
  BY <1>10 DEF StartProgram, Start, Goes
<1>11. QED
  BY <1>1, <1>2, <1>3, <1>4, <1>5, <1>6, <1>7, <1>8, <1>9, <1>10, MovesOfARun
     DEF RunStep, ThreadStep, ThreadFails

\* Where the thread stands, one step of its own takes it out of there.
LEMMA RunGoesOnFrom ==
    ASSUME TypeOK, NEW r \in Runs, cancelled[r], RunGoesOn(r)
    PROVE  /\ run[r] = "running" => run'[r] # "running"
           /\ run[r] = "stopping" => run'[r] # "stopping"
           /\ run[r] = "reporting" => run'[r] # "reporting"
           /\ run[r] = "closing" => run'[r] # "closing"
           /\ run[r] = "cleaning" => run'[r] # "cleaning"
<1> USE DEF TypeOK, RunnerTypeOK
<1>1. CASE Begin(r) \/ Opened(r) \/ Ensured(r) \/ Interrupted(r) \/ Entered(r)
  BY <1>1 DEF Begin, Opened, Ensured, Interrupted, Entered, Goes
<1>2. CASE ProgramCancelled(r) \/ CellStopped(r) \/ Reported(r) \/ Closed(r)
  BY <1>2 DEF ProgramCancelled, CellStopped, Reported, Closed, Goes, Report, Failed
<1>3. CASE \E c \in Controllers : EnsureController(r, c) \/ DeleteController(r, c)
  BY <1>3 DEF EnsureController, DeleteController
<1>4. CASE CleanedUp(r) \/ CleanUpCancelled(r)
  BY <1>4 DEF CleanedUp, CleanUpCancelled, Goes
<1>5. QED
  BY <1>1, <1>2, <1>3, <1>4 DEF RunGoesOn, ThreadStep

\* What fairness and the freedom of the threads give one run.
LEMMA OneRunIsFair ==
    ASSUME NEW r \in Runs
    PROVE  FairSpec => RunIsFair(r)
<1>1. RunsAreFair => RunIsFair(r)
  BY DEF RunsAreFair
<1>2. QED
  BY <1>1, PTL DEF FairSpec, Fairness

LEMMA OneRunIsFree ==
    ASSUME NEW r \in Runs
    PROVE  ThreadsAreFree =>
              /\ StopIsDue(r) => ENABLED <<RunIsStopped(r)>>_vars
              /\ InterruptIsDue(r) => ENABLED <<RunIsInterrupted(r)>>_vars
              /\ EndIsDue(r) => ENABLED <<RunGoesOn(r)>>_vars
              /\ EstopIsDue(r) => ENABLED <<EstopIsHandled(r)>>_vars
  BY DEF ThreadsAreFree

\* A cancelled run comes to its end, from each of its positions.
LEMMA CancelledRunEnds ==
    ASSUME NEW r \in Runs
    PROVE  FairSpec /\ []ThreadsAreFree =>
              (At(r, Preparing \cup {"running", "stopping", "reporting", "closing", "cleaning"})
                  ~> At(r, {"done"}))
<1>0. FairSpec /\ []ThreadsAreFree => [][Next]_vars /\ []IInv /\ RunIsFair(r)
  BY OneRunIsFair, Invariant, PTL DEF FairSpec, Spec
<1> DEFINE Base == [][Next]_vars /\ []IInv /\ RunIsFair(r) /\ []ThreadsAreFree
<1>1. Base => (At(r, {"cleaning"}) ~> At(r, {"done"}))
  <2>1. IInv /\ At(r, {"cleaning"}) /\ [Next]_vars => (At(r, {"cleaning"}) \/ At(r, {"done"}))'
    BY CancelledRunMovesOn DEF IInv, At
  <2>2. IInv /\ At(r, {"cleaning"}) /\ <<Next /\ RunGoesOn(r)>>_vars => At(r, {"done"})'
    BY CancelledRunMovesOn, RunGoesOnFrom DEF IInv, At
  <2>3. At(r, {"cleaning"}) /\ ThreadsAreFree => ENABLED <<RunGoesOn(r)>>_vars
    BY OneRunIsFree DEF At, EndIsDue
  <2>4. QED
    BY <2>1, <2>2, <2>3, PTL DEF RunIsFair
<1>2. Base => (At(r, {"closing"}) ~> At(r, {"cleaning"}))
  <2>1. IInv /\ At(r, {"closing"}) /\ [Next]_vars => (At(r, {"closing"}) \/ At(r, {"cleaning"}))'
    BY CancelledRunMovesOn DEF IInv, At
  <2>2. IInv /\ At(r, {"closing"}) /\ <<Next /\ RunGoesOn(r)>>_vars => At(r, {"cleaning"})'
    BY CancelledRunMovesOn, RunGoesOnFrom DEF IInv, At
  <2>3. At(r, {"closing"}) /\ ThreadsAreFree => ENABLED <<RunGoesOn(r)>>_vars
    BY OneRunIsFree DEF At, EndIsDue
  <2>4. QED
    BY <2>1, <2>2, <2>3, PTL DEF RunIsFair
<1>3. Base => (At(r, {"reporting"}) ~> At(r, {"closing"}) \/ At(r, {"cleaning"}))
  <2>1. IInv /\ At(r, {"reporting"}) /\ [Next]_vars =>
           (At(r, {"reporting"}) \/ At(r, {"closing"}) \/ At(r, {"cleaning"}))'
    BY CancelledRunMovesOn DEF IInv, At
  <2>2. IInv /\ At(r, {"reporting"}) /\ <<Next /\ RunGoesOn(r)>>_vars =>
           (At(r, {"closing"}) \/ At(r, {"cleaning"}))'
    BY CancelledRunMovesOn, RunGoesOnFrom DEF IInv, At
  <2>3. At(r, {"reporting"}) /\ ThreadsAreFree => ENABLED <<RunGoesOn(r)>>_vars
    BY OneRunIsFree DEF At, EndIsDue
  <2>4. QED
    BY <2>1, <2>2, <2>3, PTL DEF RunIsFair
<1> DEFINE Later == At(r, {"reporting"}) \/ At(r, {"closing"}) \/ At(r, {"cleaning"})
<1>4. Base => (At(r, {"stopping"}) ~> Later)
  <2>1. IInv /\ At(r, {"stopping"}) /\ [Next]_vars => (At(r, {"stopping"}) \/ Later)'
    BY CancelledRunMovesOn DEF IInv, At
  <2>2. IInv /\ At(r, {"stopping"}) /\ <<Next /\ RunGoesOn(r)>>_vars => Later'
    BY CancelledRunMovesOn, RunGoesOnFrom DEF IInv, At
  <2>3. At(r, {"stopping"}) /\ ThreadsAreFree => ENABLED <<RunGoesOn(r)>>_vars
    BY OneRunIsFree DEF At, EndIsDue
  <2>4. QED
    BY <2>1, <2>2, <2>3, PTL DEF RunIsFair
<1>5. Base => (At(r, {"running"}) ~> At(r, {"stopping"}) \/ Later)
  <2>1. IInv /\ At(r, {"running"}) /\ [Next]_vars =>
           (At(r, {"running"}) \/ At(r, {"stopping"}) \/ Later)'
    BY CancelledRunMovesOn DEF IInv, At
  <2>2. IInv /\ At(r, {"running"}) /\ <<Next /\ RunGoesOn(r)>>_vars =>
           (At(r, {"stopping"}) \/ Later)'
    BY CancelledRunMovesOn, RunGoesOnFrom DEF IInv, At
  <2>3. At(r, {"running"}) /\ ThreadsAreFree => ENABLED <<RunGoesOn(r)>>_vars
    BY OneRunIsFree DEF At, EndIsDue
  <2>4. QED
    BY <2>1, <2>2, <2>3, PTL DEF RunIsFair
<1>6. Base => (At(r, Preparing) ~> At(r, {"running"}) \/ At(r, {"cleaning"}))
  <2>1. IInv /\ At(r, Preparing) /\ [Next]_vars =>
           (At(r, Preparing) \/ At(r, {"running"}) \/ At(r, {"cleaning"}))'
    BY CancelledRunMovesOn DEF IInv, At, Preparing
  <2>2. IInv /\ At(r, Preparing) /\ <<Next /\ RunIsInterrupted(r)>>_vars => At(r, {"cleaning"})'
    BY CancelledRunMovesOn DEF IInv, At, RunIsInterrupted, Interrupted, TypeOK, RunnerTypeOK,
       Preparing
  <2>3. At(r, Preparing) /\ ThreadsAreFree => ENABLED <<RunIsInterrupted(r)>>_vars
    BY OneRunIsFree DEF At, InterruptIsDue, Preparing
  <2>4. QED
    BY <2>1, <2>2, <2>3, PTL DEF RunIsFair
<1>7. At(r, Preparing \cup {"running", "stopping", "reporting", "closing", "cleaning"}) =>
         At(r, Preparing) \/ At(r, {"running"}) \/ At(r, {"stopping"}) \/ Later
  BY DEF At, Preparing
<1>8. QED
  BY <1>0, <1>1, <1>2, <1>3, <1>4, <1>5, <1>6, <1>7, PTL

\* The stop event of a run stays set, and its waiter cancels the run.
LEMMA StopIsPassedOn ==
    ASSUME TypeOK, NEW r \in Runs, [Next]_vars, stopEvent[r] = "set"
    PROVE  /\ stopEvent'[r] = "set"
           /\ RunIsStopped(r) => cancelled'[r]
<1> USE DEF TypeOK, RunnerTypeOK
<1>1. ASSUME RunStep(r)
      PROVE  stopEvent'[r] = "set"
  <2>1. CASE Begin(r)
    BY <2>1 DEF Begin, Goes
  <2>2. CASE EstopSeen(r)
    BY <2>2 DEF EstopSeen, SetStopEvent, IsRunning
  <2>3. CASE \E c \in Controllers : EnsureController(r, c) \/ DeleteController(r, c)
    BY <2>3 DEF EnsureController, DeleteController, runVars
  <2>4. CASE ThreadFails(r)
    BY <2>4 DEF ThreadFails, PreparationFails, ProgramRaises, EndingFails, WatchEnds
  <2>5. CASE \/ Opened(r) \/ Ensured(r) \/ Interrupted(r) \/ Entered(r)
             \/ ProgramCancelled(r) \/ CellStopped(r) \/ Reported(r) \/ Closed(r)
             \/ CleanedUp(r) \/ CleanUpCancelled(r) \/ ProgramReturns(r) \/ Stopper(r)
    BY <2>5 DEF Opened, Ensured, Interrupted, Entered, ProgramCancelled, CellStopped,
       Reported, Closed, CleanedUp, CleanUpCancelled, ProgramReturns, Stopper
  <2>6. QED
    BY <1>1, <2>1, <2>2, <2>3, <2>4, <2>5 DEF RunStep, ThreadStep
<1>2. ASSUME StartProgram(r)
      PROVE  stopEvent'[r] = "set"
  BY <1>2 DEF StartProgram, Start
<1>3. stopEvent'[r] = "set"
  BY <1>1, <1>2, MovesOfARun
<1>4. RunIsStopped(r) => cancelled'[r]
  BY DEF RunIsStopped, Stopper
<1>5. QED
  BY <1>3, <1>4

UnderWay == Preparing \cup {"running", "stopping", "reporting", "closing", "cleaning"}

\* A run whose stop event is set waits for its waiter, is on its way, or is done.
LEMMA StoppedRunIs ==
    ASSUME TypeOK, NEW r \in Runs, stopEvent[r] = "set"
    PROVE  StopIsDue(r) \/ At(r, UnderWay) \/ run[r] = "done"
BY DEF TypeOK, RunnerTypeOK, Positions, StopIsDue, At, UnderWay, Preparing

\* A run whose stop event is set is done in the end.
LEMMA StoppedRunEnds ==
    ASSUME NEW r \in Runs
    PROVE  FairSpec /\ []ThreadsAreFree => (stopEvent[r] = "set" ~> run[r] = "done")
<1> DEFINE Set == stopEvent[r] = "set"
           Done == run[r] = "done"
<1>1. IInv /\ Set => StopIsDue(r) \/ At(r, UnderWay) \/ Done
  BY StoppedRunIs DEF IInv
<1>2. IInv /\ StopIsDue(r) /\ [Next]_vars => (StopIsDue(r) \/ At(r, UnderWay) \/ Done)'
  <2> SUFFICES ASSUME IInv, StopIsDue(r), [Next]_vars
               PROVE  (StopIsDue(r) \/ At(r, UnderWay) \/ Done)'
    OBVIOUS
  <2>1. TypeOK /\ TypeOK'
    BY TypeStep DEF IInv
  <2>2. stopEvent'[r] = "set"
    BY <2>1, StopIsPassedOn DEF StopIsDue
  <2>3. QED
    BY <2>1, <2>2 DEF TypeOK, RunnerTypeOK, Positions, StopIsDue, At, UnderWay, Preparing
<1>3. IInv /\ StopIsDue(r) /\ <<Next /\ RunIsStopped(r)>>_vars => (At(r, UnderWay) \/ Done)'
  <2> SUFFICES ASSUME IInv, StopIsDue(r), Next, RunIsStopped(r)
               PROVE  (At(r, UnderWay) \/ Done)'
    OBVIOUS
  <2>1. TypeOK /\ TypeOK'
    BY TypeStep DEF IInv
  <2>2. stopEvent'[r] = "set" /\ cancelled'[r]
    BY <2>1, StopIsPassedOn DEF StopIsDue
  <2>3. QED
    BY <2>1, <2>2 DEF TypeOK, RunnerTypeOK, Positions, At, UnderWay, Preparing
<1>4. ThreadsAreFree => (StopIsDue(r) => ENABLED <<RunIsStopped(r)>>_vars)
  BY OneRunIsFree
<1>5. FairSpec /\ []ThreadsAreFree => (StopIsDue(r) ~> At(r, UnderWay) \/ Done)
  BY <1>2, <1>3, <1>4, OneRunIsFair, Invariant, PTL DEF FairSpec, Spec, RunIsFair
<1>6. FairSpec /\ []ThreadsAreFree => (At(r, UnderWay) ~> At(r, {"done"}))
  BY CancelledRunEnds DEF UnderWay
<1>7. At(r, {"done"}) => Done
  BY DEF At
<1>8. QED
  BY <1>1, <1>5, <1>6, <1>7, Invariant, PTL DEF FairSpec

\* A stop that reached the event of a run ends it, as long as nothing keeps the
\* threads from going on: whatever the program does, whichever request fails, and
\* whatever the server and the other runs do meanwhile.
THEOREM StopsAreObeyed == FairSpec /\ []ThreadsAreFree => AcceptedStopEnds
<1>1. ASSUME NEW r \in Runs
      PROVE  FairSpec /\ []ThreadsAreFree => (stopEvent[r] = "set" ~> run[r] = "done")
  BY StoppedRunEnds
<1>2. QED
  BY <1>1 DEF AcceptedStopEnds

-------------------------------------------------------------------------------
(* What an emergency stop comes to.                                        *)

WatchFaults == {"watch_ends", "watch_raises"}

\* No state stream of the robot cell has been lost.
StreamsLive == faults \cap WatchFaults = Faults \cap WatchFaults

\* A fault happens once, the choice of the devices is made once, and an emergency
\* stop is not taken back.
LEMMA WorldStep ==
    TypeOK /\ [Next]_vars => /\ faults' \subseteq faults /\ override' = override
                             /\ emergency => emergency'
<1> SUFFICES ASSUME TypeOK, [Next]_vars
             PROVE  /\ faults' \subseteq faults /\ override' = override
                    /\ emergency => emergency'
  OBVIOUS
<1>1. ASSUME NEW r \in Runs, RunStep(r)
      PROVE  faults' \subseteq faults /\ override' = override /\ emergency' = emergency
  <2>1. CASE \/ Begin(r) \/ Opened(r) \/ Ensured(r) \/ Interrupted(r) \/ Entered(r)
             \/ ProgramCancelled(r) \/ CellStopped(r) \/ Reported(r) \/ Closed(r)
             \/ CleanedUp(r) \/ ProgramReturns(r) \/ Stopper(r) \/ EstopSeen(r)
    BY <2>1 DEF Begin, Opened, Ensured, Interrupted, Entered, ProgramCancelled, CellStopped,
       Reported, Closed, CleanedUp, ProgramReturns, Stopper, EstopSeen, worldVars
  <2>2. CASE CleanUpCancelled(r) \/ \E c \in Controllers : EnsureController(r, c)
    BY <2>2 DEF CleanUpCancelled, EnsureController
  <2>3. CASE \E c \in Controllers : DeleteController(r, c)
    BY <2>3 DEF DeleteController, ControllerDeleted, DeletionFails, May
  <2>4. CASE ThreadFails(r)
    BY <2>4 DEF ThreadFails, PreparationFails, ProgramRaises, EndingFails, WatchEnds, May
  <2>5. QED
    BY <1>1, <2>1, <2>2, <2>3, <2>4 DEF RunStep, ThreadStep
<1>2. ASSUME NEW r \in Runs, StartProgram(r)
      PROVE  UNCHANGED <<faults, override, emergency>>
  BY <1>2 DEF StartProgram, Start, worldVars
<1>3. CASE StopProgram \/ RequestStop \/ Joined \/ EmergencyStop \/ Finished \/ UNCHANGED vars
  BY <1>3 DEF StopProgram, RequestStop, SetStopEvent, Joined, EmergencyStop, Finished, vars, runnerVars, worldVars
<1>4. QED
  BY <1>1, <1>2, <1>3 DEF Next

\* A state stream that is lost stays lost.
LEMMA LostForGood ==
    TypeOK /\ ~StreamsLive /\ [Next]_vars => ~StreamsLive'
<1> SUFFICES ASSUME TypeOK, ~StreamsLive, [Next]_vars PROVE ~StreamsLive'
  OBVIOUS
<1>1. faults' \subseteq faults /\ faults \subseteq Faults
  BY WorldStep DEF TypeOK, RunnerTypeOK
<1>2. QED
  BY <1>1 DEF StreamsLive

\* While none has been lost, a program with devices is watched.
WatchInv ==
    \A r \in Runs : override /\ run[r] = "running" /\ StreamsLive => watching[r]

LEMMA WatchStep ==
    TypeOK /\ WatchInv /\ [Next]_vars => WatchInv'
<1> SUFFICES ASSUME TypeOK, WatchInv, [Next]_vars, NEW r \in Runs,
                    override', run'[r] = "running", StreamsLive'
             PROVE  watching'[r]
  BY DEF WatchInv
<1> USE DEF TypeOK, RunnerTypeOK
<1>1. StreamsLive /\ override
  BY WorldStep, LostForGood
<1>2. ASSUME run[r] = "running", UNCHANGED watching[r]
      PROVE  watching'[r]
  BY <1>1, <1>2 DEF WatchInv
<1>3. ASSUME NEW s \in Runs \ {r}, RunStep(s)
      PROVE  watching'[r]
  <2>1. run'[r] = run[r]
    BY <1>3, RunsAreApart
  <2>2. UNCHANGED watching[r]
    BY <1>3 DEF RunStep, ThreadStep, ThreadFails, Begin, Opened, Ensured, Interrupted,
       Entered, EnsureController, DeleteController, ProgramCancelled, CellStopped,
       Reported, Closed, CleanedUp, CleanUpCancelled, Stopper, EstopSeen, Report, Failed,
       ProgramReturns, PreparationFails, ProgramRaises, EndingFails, WatchEnds, runVars
  <2>3. QED
    BY <1>2, <2>1, <2>2
<1>4. CASE RunStep(r)
  <2>1. CASE Entered(r)
    BY <1>1, <2>1 DEF Entered, Goes
  <2>2. CASE \E c \in Controllers : EnsureController(r, c) \/ DeleteController(r, c)
    BY <1>2, <2>2 DEF EnsureController, DeleteController, runVars
  <2>3. CASE Stopper(r) \/ EstopSeen(r)
    BY <1>2, <2>3 DEF Stopper, EstopSeen
  <2>4. CASE WatchEnds(r)
    BY <1>1, <2>4 DEF WatchEnds, May, StreamsLive, WatchFaults
  <2>5. CASE Begin(r) \/ Opened(r) \/ Ensured(r) \/ Interrupted(r)
    BY <2>5 DEF Begin, Opened, Ensured, Interrupted, Goes
  <2>6. CASE ProgramCancelled(r) \/ CellStopped(r) \/ Reported(r) \/ Closed(r)
    BY <2>6 DEF ProgramCancelled, CellStopped, Reported, Closed, Goes, Report, Failed
  <2>7. CASE CleanedUp(r) \/ CleanUpCancelled(r)
    BY <2>7 DEF CleanedUp, CleanUpCancelled, Goes
  <2>8. CASE ProgramReturns(r) \/ ProgramRaises(r)
    BY <2>8 DEF ProgramReturns, ProgramRaises, Report
  <2>9. CASE PreparationFails(r) \/ EndingFails(r)
    BY <2>9 DEF PreparationFails, EndingFails, Failed
  <2>10. QED
    BY <1>4, <2>1, <2>2, <2>3, <2>4, <2>5, <2>6, <2>7, <2>8, <2>9
       DEF RunStep, ThreadStep, ThreadFails
<1>5. ASSUME NEW s \in Runs, StartProgram(s)
      PROVE  watching'[r]
  BY <1>2, <1>5 DEF StartProgram, Start, Goes
<1>6. CASE StopProgram \/ RequestStop \/ Joined \/ EmergencyStop \/ Finished \/ UNCHANGED vars
  BY <1>2, <1>6 DEF StopProgram, RequestStop, SetStopEvent, Joined, EmergencyStop, Finished, vars, runnerVars, runVars
<1>7. QED
  BY <1>3, <1>4, <1>5, <1>6 DEF Next

\* In an emergency, with a device that streams, the program of a run goes on.
InEmergency(r) == override /\ emergency /\ run[r] = "running"

\* ... and its handler has yet to see it.
Unseen(r) == InEmergency(r) /\ StreamsLive /\ stopEvent[r] # "set"

LEMMA EmergencyStep ==
    ASSUME TypeOK, NEW r \in Runs, [Next]_vars, Unseen(r)
    PROVE  Unseen(r)' \/ run'[r] # "running" \/ ~StreamsLive' \/ stopEvent'[r] = "set"
BY WorldStep DEF Unseen, InEmergency

\* A program in an emergency ends, or has lost a state stream.
LEMMA EmergencyEnds ==
    ASSUME NEW r \in Runs
    PROVE  FairSpec /\ []ThreadsAreFree =>
              (InEmergency(r) ~> run[r] # "running" \/ ~StreamsLive)
<1> DEFINE Set == stopEvent[r] = "set"
           Over == run[r] # "running"
<1>1. IInv /\ Unseen(r) /\ [Next]_vars => (Unseen(r) \/ Over \/ ~StreamsLive \/ Set)'
  BY EmergencyStep DEF IInv
<1>2. IInv /\ Unseen(r) /\ <<Next /\ EstopIsHandled(r)>>_vars => Set'
  BY DEF IInv, TypeOK, RunnerTypeOK, Unseen, InEmergency, EstopIsHandled, EstopSeen, SetStopEvent
<1>3. WatchInv /\ ThreadsAreFree => (Unseen(r) => ENABLED <<EstopIsHandled(r)>>_vars)
  BY OneRunIsFree DEF Unseen, InEmergency, EstopIsDue, WatchInv
<1>4. InEmergency(r) => Unseen(r) \/ Over \/ ~StreamsLive \/ Set
  BY DEF Unseen
<1>5. FairSpec /\ []ThreadsAreFree => (Set ~> Over)
  <2>1. run[r] = "done" => Over
    OBVIOUS
  <2>2. QED
    BY <2>1, StoppedRunEnds, PTL
<1>6. Spec => []WatchInv
  <2>1. Init => WatchInv
    BY DEF Init, RunnerInit, WatchInv
  <2>2. QED
    BY <2>1, WatchStep, TypeCorrect, PTL DEF Spec
<1>7. QED
  BY <1>1, <1>2, <1>3, <1>4, <1>5, <1>6, OneRunIsFair, Invariant, PTL DEF FairSpec, Spec, RunIsFair

\* An emergency stop of a device ends a running program, unless a state stream of
\* the robot cell has been lost before.
THEOREM EmergencyStopsPrograms == FairSpec /\ []ThreadsAreFree => EmergencyEndsProgram
<1>1. ASSUME NEW r \in Runs
      PROVE  FairSpec /\ []ThreadsAreFree =>
                (override /\ emergency /\ run[r] = "running"
                    ~> \/ run[r] # "running"
                       \/ faults \cap {"watch_ends", "watch_raises"} # Faults \cap {"watch_ends", "watch_raises"})
  <2>1. override /\ emergency /\ run[r] = "running" => InEmergency(r)
    BY DEF InEmergency
  <2>2. run[r] # "running" \/ ~StreamsLive =>
           \/ run[r] # "running"
           \/ faults \cap {"watch_ends", "watch_raises"} # Faults \cap {"watch_ends", "watch_raises"}
    BY DEF StreamsLive, WatchFaults
  <2>3. QED
    BY <2>1, <2>2, EmergencyEnds, PTL
<1>2. QED
  BY <1>1 DEF EmergencyEndsProgram

===============================================================================

# Verification of wandelbots-nova

TLA+ modules, TLC runs and TLAPS proofs about the control core of the `nova`
Python SDK. Paths below are relative to the repository (`nova/...`, `novax/...`,
`novapolicy/...`).

## 1. Inventory

The SDK talks to a motion server (the NOVA API) over HTTP, web sockets and NATS.
Almost everything runs on one asyncio event loop: tasks interleave only where
they await. The exceptions are the program runner, which has a thread of its
own, and whoever calls it.

| Component | State | Operations | What is hard |
|---|---|---|---|
| trajectory execution machine (`nova/cell/movement_controller/trajectory_state_machine.py`) | idle, executing, ending, ended, pausing, paused, error | `start`, `process_motion_state`, `fail` | the end is reported before standstill; states without `execute`; resuming |
| trajectory cursor (`.../trajectory_cursor.py`) | current operation and its future, intent slot, events, current location, queue | `forward`, `backward`, `forward_to`, `backward_to`, single steps, `pause`, `detach`, iteration; `cntrl` with its request loop, monitor, response consumer, event updater | one operation superseding another; commands already on their way; results of an operation nobody commanded; every exit of the task group |
| default movement controller (`.../move_forward.py`) | generator, state monitor, error consumer | one forward movement | which of two tasks finishes first; streams that end; cancellation |
| motion group execution (`nova/cell/motion_group.py`) | task group, queue of states, sentinel | `_execute`, `execute`, `plan` | an error must pass a queue, a generator and a task group to the caller |
| trajectory tuner (`nova/cell/tuner.py`) | current cursor, continue event, finished flag | commands over NATS; plan, execute, repeat | commands between two cursors; an execution that dies before its cursor |
| program runner (`nova/program/runner.py`, `utils.py`) | run state, thread, stop event, exception | `start`, `stop`, `join`, emergency stop | two threads; stop racing the end; clean-up after the terminal state |
| program server (`novax/program_manager.py`, `novax.py`) | registered programs, current runner | register, start, stop | at most one program; clean-up of the previous one |
| cell, controllers (`nova/cell/cell.py`, ...) | none | `ensure_controller`, wait for readiness | message before or after the subscription; time limit |
| IO access (`nova/utils/io.py`, `nova/cell/io.py`) | last values | `wait_for_bus_io` | first value and subscription |
| planning (`nova/cell/motion_group.py`, `nova/utils/joint_trajectory.py`) | none | split into batches, plan each, combine | where a batch starts; waits and writes have no place on the trajectory |
| waypoint session (`novapolicy/jogging/waypoint_session.py`) | pending chunk, running, ready, failure, stop condition, two tasks | `start`, `stop`, `update_chunk`; jogging loop, stream of states | chunk replaced while one is sent; failure before the first response; a loop that ends without a failure |
| jogger (`novapolicy/jogging/jogger.py`) | its sessions, started or not | enter, iterate, `set_target`, leave | entering fails half way; leaving while a session fails |
| policy executor (`novapolicy/executor.py`) | stop event, sessions, cameras, streams, policy | `run`, `stop` | whatever ends the episode, at any await; a clean-up whose own steps fail |
| emergency stop monitor (`novapolicy/estop.py`) | watching, error | start, stop | a monitor that dies itself |
| policy IO writer (`novapolicy/io.py`) | value written last, lock | one task for each chunk with outputs | rejected or unanswered writes; the order of tasks |
| the rest | | | see `PROJECT.json`, "components" |

Interactions. The user (or the tuner) calls the cursor's operations; the cursor
hands out futures and leaves one *intent* in a slot. `MotionGroup._execute`
passes the cursor's `cntrl` (or the default controller) as the generator of
requests to `execute_trajectory` of the API client: requests go out as the
generator yields them, responses come back on a stream the generator is given.
The state of the robot arrives on an independent stream. A program run by the
runner calls all this from its thread; the program server owns the runner. The
policy executor and the jogger do not use trajectories: each owns one waypoint
session per motion group and leaves chunks of waypoints in a slot of the session,
whose jogging loop answers every response of the server with the chunk that
waits there.

What makes each part correct:

* cursor: a caller's future is resolved, cancelled or superseded, never
  forgotten; a result is given only at standstill and for a movement that was
  commanded; the latest intent is sent and no stale one; however `cntrl` ends,
  callers and iteration are released;
* default controller and execution: a normal end means the trajectory was run to
  its end; every failure reaches the caller; no task outlives the execution;
* steps: a single step ends at the next action boundary;
* runner, server: one program at a time; a run ends in one terminal state; a
  stop stops; what a run used of the cell is given back;
* planning: the trajectory passes the targets of the motions, in their order;
* tuner: a command wakes the loop; each turn starts where the robot stands;
* jogging and policies: the latest chunk is sent, each at most once; whatever must
  end a run is noticed; what was started is stopped; outputs get the last value.

Every hazard of the code that is hard to test is listed with its line in
`PROJECT.json`, "hazards".

## 2. Modules

| Module | Models |
|---|---|
| `TrajectoryExecutionMachine` | the lifecycle machine as two operators, `HandleExecuting` and `Processed`: next machine state from the present one and a motion-group state |
| `TrajectoryLocations` | the arithmetic of action boundaries: starts, ends, step targets, index of an action |
| `TrajectorySteps` | walks over a trajectory by single steps and other movements; its properties |
| `TrajectoryPlanning` | how a list of actions becomes a trajectory, batch by batch: waits, combination, refusals |
| `TrajectoryWalk` | composition: a walk along a planned trajectory |
| `OperationFutures` | abstract: futures are handed out one at a time, the newest may get a result, closing cancels |
| `DetachableCursor` | abstract: what the owner of a cursor can rely on, whatever it does with it; implemented by the cursor and by the tuner's succession of cursors |
| `TrajectoryCursor` | the cursor, its tasks, the wire, the server, the robot |
| `MoveForward` | the default controller inside `MotionGroup._execute`, with its caller |
| `TrajectoryTuner` | `tune()`, its commands, its executions one after the other |
| `LatestValue` | abstract: a slot in which a newer value replaces one that still waits |
| `WaypointSession` | sessions `s`: slot, flags, jogging loop, stream of states, tracker of pauses |
| `IOWriter` | the tasks that write an output, their lock, the value written last |
| `SessionOwner` | what executor and jogger share: starting and stopping sessions, the emergency stop monitor |
| `PolicyExecutor`, `Jogger` | the two owners |
| `JoggingSystem` | composition: sessions, writer and monitor under one of the owners |
| `ProgramRunner` | runs of programs: one thread each, as actions over a run `r` |
| `ProgramManager` | the program server on top of them: start, stop, join |
| `TrajectoryWalkProofs`, `TrajectoryCursorTypes`, `TrajectoryCursorProofs`, `MoveForwardProofs`, `TrajectoryTunerProofs`, `JoggingTypes`, `JoggingProofs`, `ProgramManagerProofs` | the proofs |

An **action** is what one task runs between two awaits. `TrajectoryCursor` has
one action per user operation, one per stretch of `cntrl()` and
`_request_loop` (`TakeIntent`, `YieldNext`, `IntentDone`, ...), one for a
motion-group state handled by the monitor (`MonitorStep`), one for a response
(`ConsumerStep`), and one for every way a task or the group ends. The names of
variables follow the attributes: `intent`/`intentEvent`/`stopEvent` are
`_pending_intent`, `_intent_event` and `_stop_event`; `operation`, `opType`,
`opState`, `fut` are the `OperationHandler`'s; `sentinel` says whether
`_QUEUE_SENTINEL` has been queued. `PROJECT.json`, "map", gives the lines of
every definition.

`ProgramRunner` has one action per stretch of the thread between two awaits, in
the order of `_run_program`: `Begin`, `Opened`, `EnsureController`, `Ensured`,
`Entered`, the program's return, error or cancellation, `CellStopped`,
`Reported`, `Closed`, `DeleteController`, `CleanedUp`. `run[r]` names the await
the thread stands at, `state[r]` is `program_run.state`. Cancellation follows
anyio: once `run_scope` is cancelled, every later await in it is interrupted,
those of the clean-up included. `override` chooses between the two branches of
`_run_program`: a given robot cell with devices, or a connection, preconditions
and a robot cell without devices. `ensured` is the list within `_ensure_preconditions`,
`created` the one the run gets when that returns; `deleted` and `refused` are how far the
clean-up has come with it. `cell` is what all runs share, and the history `usedBy` tells
which runs added or found a controller since it is there. `ProgramManager` adds
`_runner` and the server's event loop, which is blocked while it joins a thread;
`stop()` is two steps (`StopProgram`, `RequestStop`), because the thread may go on
between the check of `is_running()` and the event.

In `WaypointSession`, `loop[s]` and `stream[s]` are where the two tasks of session
`s` stand; `pending`, `running`, `ready`, `failure` and `condition` are the
attributes. An owner is one task, and `pc` the await it stands at, in the order of
`run()` or of `__aenter__`, the iteration and `__aexit__`; `at` is the session it
is starting or stopping. Three histories (`pushed`, `taken`, `lateSends`) serve
the properties. The timing modes of the executor are the sign of
`policy_rate_hz`: the sleep between two turns is interruptible (`fixed`), checks
for errors (`chunk`) or is absent (`asap`).

In `TrajectoryTuner`, `pc` is the await of `tune()`, `cursor` is the record of what
the tuner can tell of its current cursor, and a command is an action that goes to
the cursor there is.

In `TrajectoryPlanning` an action of the list is its kind and, for a wait, its
duration. An action of the model is one turn of the loop of `_plan`: the next batch is
planned and combined with the trajectory so far (`PlanMotions`, `PlanWait`), or the
planning service refuses it (`PlanningFails`) and planning is over. The joint position
that the k-th motion reaches is the number k, and the service may place the ends of a
batch's motions at any times that do not fall: a plan that repeats, omits or reorders
a target, starts a batch from the wrong joints, loses a wait or runs backwards in
time, shows. `waited` and `held` are histories of the waits. `TrajectoryWalk` plans a
list first; the walk begins when the whole list is planned.

**Data.** A location is counted in halves of an action, which tells apart a
boundary from the inside of an action; `execute` is reduced to `Details` (absent,
another kind, a trajectory running, ended, paused by user, waiting for or paused
on IO); speeds and values are left out, a movement with a playback speed yields
two commands. Requests carry the operation they stem from only to state
properties; the wire does not.

**External.** The motion server answers requests in order (the code relies on
it, `trajectory_cursor.py:1180`), a start takes effect after its acknowledgement
is due, the robot moves by half an action, ends or pauses, and comes to rest
later. The state streams sample the robot's state: what is read late is a state
of before the requests still on their way, so a delayed state is covered by a
delayed request. The streams carry no `execute` of an earlier trajectory
(`move_forward.py:88` argues that the right to move is exclusive). What may go
wrong is listed in each module's `AllFaults` (`TunerFaults`) and chosen by
`Faults`; every fault happens at most once. A jogging server answers each request
with a response. Time does not appear: what a time-out or a count of waypoints
would do is something that may happen.

Operators such as `DetachWithoutWaking` or `PauseUnnoticed` next to a definition
are *variants* with one plausible error; each property is shown to fail when its
variant replaces the definition ("mutants" in `PROJECT.json`).

## 3. Runs

| Run | Shows | Bounds |
|---|---|---|
| `cursor_safety` | the type invariant, the safety and action properties, the hypothesis `StoppingIsFree` of a proof, and the refinement of `OperationFutures` and of `DetachableCursor`, with every fault | two operations: enough for one to supersede another before, during and after its command, acknowledgement, movement, end and standstill; three would repeat it. One action (locations 0, 1, 2) with the start in the middle: movement both ways, steps, refusals |
| `cursor_liveness` | acknowledgement, resolution, end after detach, release of callers, under fairness, with movement errors | as above, without playback speed; symmetrical faults left to safety |
| `cursor_premature` | `CompletedWasCommanded` fails: a finding | no faults |
| `cursor_stale_start` | `NoStaleMovement` fails: a finding | no faults |
| `cursor_cleanup` | `FinishedReleasesCallers` fails when the initialization is rejected: a finding | one operation |
| `trajectory_steps` | steps and indices, and that the plan of a list takes the robot to the targets of its motions alone and holds it for its waits | three motions, so that first, last and inner one differ, in lists of up to five actions: two waits or writes anywhere, also side by side, first or last; a refusal at any batch |
| `move_forward` | the type invariant, four safety and two liveness properties of an execution and the hypothesis `NothingElseHolds` of a proof, every fault | one state queued at a time: the queue is only read by the caller, and the sentinel joins it in either case |
| `move_forward_stream_lost` | `CompletedOnlyWhenStopped` fails: a finding | the watch's stream ends |
| `program_manager` | the type invariant, three safety, one action and two liveness properties of runs and server, and the hypothesis `ThreadsAreFree` of two proofs, every fault | two runs: one that ends and one that is started while it still cleans up, and that adds or finds the controllers the first one deletes; a third meets the same. Two controllers, each there before the runs or not: a deletion fails with another still to do, a preparation fails with one controller added |
| `policy` | six properties of sessions, owners, writer and monitor, with any one of nineteen faults | two sessions: one fails, starts or is stopped while the other runs; a third would repeat the second. Two chunks: one waits while the other is sent. A pause confirmed after two responses (the code's ten only repeat the count). Two writes: one after a rejected one. `asap` is left out: it does what `fixed` may do without its sleep |
| `tuning` | the three properties of tuning, every fault, all in one behaviour if need be | four commands: enough to steer one turn, change it, and end it in the next. Two actions: a step that is not the whole trajectory |
| `program_preconditions` | `PreconditionsHold` fails: a finding | no faults |

`MoveForward` stops when the caller has its result, so its runs do not check
for deadlock; that it gets there is `CallerReleased` and `WaitEnds`. `policy` and
`tuning` stop when their run is over, and may wait for ever for a user who is not
obliged to do anything; `EndIsNoticed` and `FinishEndsTuning` say when they must
not. `trajectory_steps` stops where planning is refused. The other runs check for
deadlock: final states of cursor and program server stutter explicitly.

### Findings

* `cursor_premature`: the monitor completes whichever operation is current
  (`trajectory_cursor.py:1122`). `forward()` followed by `backward()` while the
  robot is coming to rest: the `backward()` is resolved by the first movement's
  end before its command was sent.
* `cursor_stale_start`: an intent with a speed yields two commands
  (`:1064`); between them a newer intent may replace it, or the cursor may be
  detached, and the old start is still sent.
* `cursor_cleanup`: a rejected initialization raises before the task group
  exists (`:995`), so a future handed out before stays pending for ever and the
  iteration never ends.
* `move_forward_stream_lost`: a state monitor whose stream ends is done, and a
  done monitor counts as completion (`move_forward.py:146`).
* `program_preconditions`: a run deletes its controllers after its final state is
  set (`nova/program/runner.py:582`), and the server starts the next program as
  soon as it is set. The next run finds the controllers, then they are deleted.

Met on the way and modelled, but not a finding of a run: a stop right after the
start finds no stop event and is lost (`runner.py:312`); a run stopped during its
preparation stays `PREPARING` (`:572`); a stopped run neither deletes its
controllers nor closes its connection (`:583`); a failed preparation leaves the controllers
it has added or found, because the list of them is lost (`:478`). The properties name
these exceptions, and without any one of those of `ControllersAreReturned` TLC finds it
violated. In the same way:

* Sessions. The owner waits for the first response of each session
  (`waypoint_session.py:129`); when the connection fails before it, nobody sets
  the event, and neither a stop nor the failure ends the wait. When the server
  ends the stream of responses, the loop ends without a failure, and the owner
  goes on pushing chunks nobody sends.
* Jogger. When entering fails, the sessions already started are not stopped:
  `__aexit__` is not called (`jogger.py:221`).
* Executor. An exception of a crashed loop or monitor cuts the clean-up short
  (`executor.py:235`, `:310`); when the set-up fails before the `try`, the cameras
  stay connected (`:282`). A failure that comes with a time-out or a stop is not
  reported (`:342`).
* Writer. When the answer of a write is lost, the value remembered is older than
  the output, and asking for it again writes nothing (`io.py:175`).
* Tuner. A failed initialization leaves the iteration without a sentinel
  (`tuner.py:176`). A finish that comes while the next turn is planned goes to the
  cursor of the last one (`:125`); a cancellation leaves the execution behind
  (`:187`). The documentation of `tune` lets a pause end the turn (`:32`): it does
  not detach the cursor.
* Planning. A batch of writes alone, between or after waits, is planned without
  any motion (`motion_group.py:903`); the model answers with the starting point.

### Fairness

`FairSpec` makes weakly fair what the event loop or the other side will
eventually do: every ready task runs (asyncio runs its ready queue in turn), the
API client keeps asking the generator for requests, the server answers, an
accepted start takes effect, the robot moves on towards its goal and settles,
the streams deliver. Of the program server: threads run, requests are answered
or fail, a cancellation interrupts the await a thread stands at (anyio delivers it again
until the scope is left), the emergency stop's handler is called, a cancelled program
leaves its body; how long a program that is not
cancelled takes is left open. Of sessions and owners: tasks run, the server and the
controller answer, the policy and the user's code return. Of tuning: planning and
publishing return, the caller keeps iterating, the robot arrives. Nobody is obliged
to stop or to send a command. Nothing is assumed of the user, of faults, of another client that
pauses the robot, nor of a time limit where the code has none.

## 4. Proofs

For **every** number of operations, trajectory length, start and set of faults
(the named assumptions on the constants), TLAPS proves of `TrajectoryCursor`:

* `TypeCorrect`: the type invariant. It says, beyond types, that the machine is
  never asked for a transition it refuses and that no step aims beyond the
  trajectory.
* `Invariant`: the inductive invariant `IInv`, the conjunction of `TypeOK`,
  `FuturesInv` (operations not started have unused futures, only the current
  one is pending, none is after detach), `IntentInv` (slot and event agree, the
  slot holds the latest operation), `DispatchInv` (the rest of a taken intent is
  a movement of an operation that was current; the command of a pending operation
  is in the slot, in the rest, or yielded) and `TasksFollowCntrl` (which tasks exist
  at each point of `cntrl`).
* from it: `NobodyWaitsAfterDetach`, `SupersededAreReleased`, `NoWakeUpIsLost`,
  `NoCommandIsDropped`, `GroupLeavesNothingBehind` (invariants),
  `ResultsAtStandstill` and `FirstCommandOfLatest` (action properties), and
  `Refinement`: the cursor implements `OperationFutures`. The first, second and last
  invariant have no line of their own in a run: the two refinements that
  `cursor_safety` checks leave them little to add;
* `CursorKeepsItsPromises`: the cursor implements `DetachableCursor`. Its location
  changes only while an operation is in progress, no intent is taken once it is
  detached, and an execution that had begun ends in one way only: detached, nobody
  waiting, the iteration at its end;
* `StartFailsOnlyIfRefused`: `cntrl()` ends without its group ever having existed only
  if the initialization was rejected or the task cancelled. The invariant `GroupInv`
  says why: before the group exists the wire carries the initialization and its
  answer, nothing else, and a `cntrl()` that is over has run its monitor's `finally`;
* `EndReleasesCallers`: `Spec /\ []~StartFailed => FinishedReleasesCallers`. With a
  group, the end of `cntrl()` releases every caller and the iteration. It needs no
  fairness; the case it excludes is the finding of `cursor_cleanup`, and by the
  theorem before it there is no other;
* `DetachedGroupEnds`, on a condition: see "Liveness" below.

Why the strengthening: that only the current operation is pending is preserved
by starting another only if no unstarted operation has a future already in use;
that nothing is pending after detach needs the same, and that operations raise
once the stop event is set; that a pending operation's command is not dropped
needs to know that the slot holds the *latest* operation, otherwise taking it
could be taking an old one.

Of `TrajectorySteps`, for every number of actions: `StepsEndOnTheNextBoundary`, a
single step ends on the adjacent boundary and is refused only at the ends, and
`IndexIsOfTheActionAtTheLocation`, the index of the highlighted action covers the
location.

Of `TrajectoryPlanning`, for lists of any length, any durations and any times the
service answers: `PlansPassTheTargets`. The invariant `PlanInv` says of the part
planned so far what the property says of the whole: a plan of k motions is a sequence of
points whose times and locations do not fall, which stands at joints j whenever it
is at location j, and which stays at each location exactly as long as the waits
there say. Two more things are needed: the next batch starts from the joints of the
last motion (`joints`), and no wait is accounted to a location not yet reached
(`held`). The step needs no induction over the list, because the plan is built one
batch at a time: `CombinedPasses` says that a trajectory that passes n targets,
followed by one that starts where it ends and passes m, passes n + m, and that two
stays that meet at the seam add up (`StaysThatMeet`): this is what makes two waits
side by side, in two batches, one stay of their sum. `MotionsPass` and
`WaitPasses` say the same of the trajectory of a single batch, `BatchContinues` puts
them together.

Of `TrajectoryWalk`: `WalkIsPlannedFirst`, the composition implements both of its
parts (so that both sets of theorems hold of it), and `CursorsAcceptPlans`: once the
whole list is planned the end of the trajectory is the number of its motions, which is
what a cursor created on it checks.

Of `MoveForward`, for a queue of any length and every set of faults: `TypeCorrect`,
`Invariant`, `FailuresReachTheCaller` (`NormalEndMeansCompleted`),
`ExecutionLeavesNothing` (`NothingOutlives`), `NothingMovesUnwatched`
(`MovementIsWatched`) and `CompletionAtTheEnd` (`CompletedAtTheEnd`). The invariant
adds `EndInv` (an execution that is over while the group holds completed: that is
what the caller's end can rely on), `MoverTasksInv`, `WireInv` (one request is on
its way at most; until the start is answered the robot has no part in this
execution) and `WatchInv`, which relates the machine to the robot: "ending" and
"ended" follow a report of the end, a reported end is not left again because no
second start can be on its way, and a watch nobody cancelled is over only because
the machine has ended or its stream has.

Of `TrajectoryTuner`, for trajectories of any length, any number of commands and
every set of faults: `NoCommandIsForgotten` (`WaitsOnlyWithoutCommand`) and
`TurnsStartAtTheRobot` (`ResumesWhereItStopped`). The first needs `UntouchedInv`:
until its turn is executed a cursor has no command unless the event is set. The
second needs `RestInv`: once the iteration of a turn has ended, the robot stands
where the cursor believes it to be, or a command was overtaken on the wire.
`CursorsAreOwned`: the tuner's cursors, one after the other, implement
`DetachableCursor` too. `TrajectoryTuner` keeps of a cursor only a record with what the
tuner can tell of it; that this record and the detailed `TrajectoryCursor` obey the
same abstract cursor is what justifies the reduction. `OwnedInv` relates the execution
of a turn to the iteration over its states: an execution that has not begun leaves the
iteration open, one that has ended leaves it closed, and only past the iteration is
the execution awaited. The theorem stands alone: no run of the project lists
`TrajectoryTuner.OwnerCanRely`.

Of `JoggingSystem`, for any number of sessions, chunks and writes, both owners and
every set of faults: `TypeCorrect`; `ChunksRefinement`, that every session's slot
implements `LatestValue`, which needs no invariant beyond types;
`OneChunkAfterStop`, from `StopInv`: a late send leaves the executor at a place from
which only the top of its loop leads back, where the stop is seen;
`OutputIsTheLatest`, from `WriterInv`: while no answer was lost, the value
remembered is the one in the output; and `AllReleasedAtTheEnd`, from `ReleaseInv`:
the property speaks of the end only, the invariant says how much has been released
at each await on the way there (sessions before `at`, then the monitor, the devices,
the writes, the policy).

Of `ProgramManager`, for every number of runs, every set of controllers and
faults: `TypeCorrect`, `OneAtATime` (`OnlyTheRunnerExecutes`), `EndIsReported`
(`EndedIsFinal`), `FinalStays` (`FinalStateStays`) and `NobodyLeavesControllers`
(`ControllersAreReturned`). The invariant adds
`Phases`, which relates the position of a thread to the state it has reported:
without it, that the server's runner is no longer "running" would not tell that
its program is over. `JoinsARunner` says that a server within `stop_program` has a runner.

`ControllersAreReturned` is about the cell, not about the run's own list, which is empty
after a failed preparation and says nothing of a deletion that failed. Its induction is a
separate one, `ReturnInv`: a controller has no users while it is not in the cell; the list
of a run is that of all its controllers or empty; and nobody who has deleted a controller
is among the users of one in the cell. The last is what makes the property survive
other runs: when a controller comes back after its deletion, another run has added it,
and that run is accountable for it.

### Liveness

The prover has no backend for ENABLED, so a step that weak fairness owes cannot be
shown to be possible. Four liveness properties are proved on condition that it is:

| Theorem | Property | Condition, an invariant of |
|---|---|---|
| `WaitIsOver` | `WaitEnds`: whatever was to end the wait of the default controller ends it, and its generator | `NothingElseHolds`, `move_forward` |
| `DetachedGroupEnds` | `DetachEndsCntrl`: once the cursor is detached, or its group shuts down, `cntrl()` comes to its end | `StoppingIsFree`, `cursor_safety` |
| `StopsAreObeyed` | `AcceptedStopEnds`: a run whose stop was accepted ends | `ThreadsAreFree`, `program_manager` |
| `EmergencyStopsPrograms` | `EmergencyEndsProgram`: an emergency stop that is seen ends the program | `ThreadsAreFree`, `program_manager` |

The conditions are state predicates that say, action by action, under which guard
the step is possible: the mover when one of its tasks is done, the watch when the
robot has settled in a reported end, the tasks of the group when it closes, a thread
whose run was cancelled at whatever await it stands. They say nothing about progress,
and TLC checks them as invariants of those runs, with every fault; variants that wait
for the wrong task, detach without waking the loop, or let a cancelled clean-up wait
for its deletions, violate them. What the proofs add, for every set of faults,
trajectory, number of operations, runs and controllers, is the argument.

* `WaitInv` says that both tasks exist whenever the mover waits for them, that a watch
  that has seen a state is not the silent one and that a lost stream is a finished
  watch. The wait is cut into phases (`Settling`, `Settled`, `Answered`, `Woken`, then
  `Cleaning` with neither, one or both of its tasks done), each of which a step leaves
  only for a later one (`WaitingSteps`, `CleaningSteps`), and each of which some task
  owes to leave.
* `StoppingSteps` and `ShutDownSteps` do the same for the cursor.
* The positions of a cancelled run move forward only: preparing, running, stopping
  the cell, reporting, closing, cleaning up, done (`CancelledRunMovesOn`), and from
  each of them some fair action of that run leads on (`CancelledRunEnds`). A stop
  reaches a run through the stop event (`StopIsPassedOn`); an emergency stop
  reaches it through the watch of the devices' states, and `WatchInv` says that a
  program with devices is watched while none of their streams has been lost.

The assumptions of all other theorems are the named ones on the constants. Only
model-checked are:

* the three conditions, which are about ENABLED;
* `AlwaysAcknowledged` and `MovementResolves`: their measure is the number of requests
  and responses on the wire, or the robot's distance from its goal, and the induction
  over it needs theorems the provers cannot instantiate;
* `EndIsNoticed` and `FinishEndsTuning`: for the same reason (each session or chunk in
  turn; the robot's way to the end of the turn);
* `CallerReleased`: it follows every path of an execution, its start included, and
  the queue of states down to its sentinel; `WaitIsOver` is the part of it that can go
  wrong by a wait for the wrong task.

## 5. Not modelled

What would come next, in this order:

1. Programs: the store and the life span of the server, a runner used without
   the server (second `start()`, suspending callbacks).
2. Chunks: overlap of a new chunk with the one being executed, trimming and placing
   (`novapolicy/chunking.py`, `jogging/waypoints.py`), as functions with a
   reference definition. `WaypointSession` treats a chunk as a value.
3. Small protocols: waiting for an input (`nova/utils/io.py`: a subscription and a
   separate first read), readiness of a controller (`nova/cell/cell.py`: a message
   before or after the subscription, a time limit), cycles and their events.

Left out for good, with reasons, in `PROJECT.json`, "components": geometry and
other floating-point values, visualisation, cameras, generated parsers, the
deprecated language, configuration. Within the cursor: motion events, which only
report, and the content of the queue of states. Within the machine: `fail`,
which no controller sends.

---------------------------- MODULE WaypointSession ----------------------------
(***************************************************************************)
(* Waypoint jogging sessions, one for each motion group                    *)
(* (novapolicy/jogging/waypoint_session.py, session.py).                   *)
(*                                                                         *)
(* A session has two tasks.  "loop" runs the jogging loop: it opens the    *)
(* connection, and for every response of the server sends the chunk that   *)
(* waits in the slot "pending", or sleeps until there is one.  "stream"    *)
(* reads the state of the robot.  Whoever owns the sessions                *)
(* (SessionOwner) starts them, fills the slots and stops them, in the same *)
(* event loop: an action is what one task runs between two awaits.         *)
(***************************************************************************)
EXTENDS Naturals, FiniteSets
LOCAL INSTANCE Functions

CONSTANTS
    NumSessions,     \* motion groups
    MaxChunks,       \* bound: chunks pushed, to all the sessions
    ConfirmTicks,    \* JoggingStateTracker's confirm_ticks
    Faults,          \* subset of AllFaults: what may go wrong, each once
    MaxFaults        \* bound: how many of them happen in a behaviour

SessionFaults ==
    {"unresolved",       \* the query for the TCP raises
     "rejected",         \* the server refuses the connection
     "lost",             \* the connection breaks
     "ended",            \* the server ends the stream of responses
     "crash",            \* an exception nobody expects, from a stop condition for example
     "motion_error",     \* the server reports a motion error
     "stop_condition",   \* a stop condition is true
     "blocked",          \* the robot pauses at a limit
     "state_lost"}       \* the stream of states breaks

OwnerFaults ==
    {"camera_error", "start_error", "policy_error", "estop", "estop_lost",
     "estop_crash", "write_rejected", "reply_lost", "cancelled", "user_error"}

AllFaults == SessionFaults \cup OwnerFaults

ASSUME NumSessionsAssumption == NumSessions \in Nat \ {0}
ASSUME MaxChunksAssumption == MaxChunks \in Nat \ {0}
ASSUME ConfirmTicksAssumption == ConfirmTicks \in Nat \ {0}
ASSUME FaultsAssumption == Faults \subseteq AllFaults /\ MaxFaults \in Nat

Sessions == 1..NumSessions

NoChunk == 0

VARIABLES
    running,       \* _running
    ready,         \* the event _ready
    failure,       \* _failed and the kind of _failure_exception
    condition,     \* _stop_condition is set
    pending,       \* _pending_request: the number of the chunk, or NoChunk
    loop,          \* the task of _jogging_loop
    stream,        \* the task of _stream_state
    blocked,       \* the robot's last state is a blocking pause
    ticks,         \* _paused_count of the tracker
    pushed,        \* history: chunks given to update_chunk
    taken,         \* history: the chunk captured last
    faults         \* the faults that may still happen

slotVars == <<pending, pushed, taken>>
flagVars == <<running, ready, failure, condition>>
trackerVars == <<blocked, ticks>>
sessionVars == <<slotVars, flagVars, trackerVars, loop, stream>>

\* Where the generator and its client stand: no task yet, querying the TCP,
\* connecting, waiting for a response, asleep without a chunk, at the yield of
\* a request, cancelled, ended, and ended by an exception that stop() lets through.
LoopStates == {"none", "resolving", "opening", "awaiting", "idle", "sending",
               "cancelling", "done", "crashed"}

Connected == {"opening", "awaiting", "sending"}

Failures == {"none", "motion", "rejected", "lost"}

SessionTypeOK ==
    /\ running \in [Sessions -> BOOLEAN]
    /\ ready \in [Sessions -> BOOLEAN]
    /\ failure \in [Sessions -> Failures]
    /\ condition \in [Sessions -> BOOLEAN]
    /\ pending \in [Sessions -> Nat]
    /\ loop \in [Sessions -> LoopStates]
    /\ stream \in [Sessions -> {"none", "open", "cancelling", "done"}]
    /\ blocked \in [Sessions -> BOOLEAN]
    /\ ticks \in [Sessions -> 0..(ConfirmTicks - 1)]
    /\ pushed \in [Sessions -> Nat]
    /\ taken \in [Sessions -> Nat]
    /\ faults \subseteq Faults

SessionInit ==
    /\ running = [s \in Sessions |-> FALSE]
    /\ ready = [s \in Sessions |-> FALSE]
    /\ failure = [s \in Sessions |-> "none"]
    /\ condition = [s \in Sessions |-> FALSE]
    /\ pending = [s \in Sessions |-> NoChunk]
    /\ loop = [s \in Sessions |-> "none"]
    /\ stream = [s \in Sessions |-> "none"]
    /\ blocked = [s \in Sessions |-> FALSE]
    /\ ticks = [s \in Sessions |-> 0]
    /\ pushed = [s \in Sessions |-> 0]
    /\ taken = [s \in Sessions |-> 0]
    /\ faults = Faults

May(fault) ==
    /\ fault \in faults
    /\ Cardinality(Faults \ faults) < MaxFaults
    /\ faults' = faults \ {fault}

Happened(fault) == fault \in Faults \ faults

-------------------------------------------------------------------------------
(* What the owner calls. *)

\* start(), up to its query of the robot's state, for the sessions in "some".
SetRunning(some) == running' = [s \in Sessions |-> running[s] \/ s \in some]

\* The rest of start().
CreateTasks(s) ==
    /\ loop' = [loop EXCEPT ![s] = "resolving"]
    /\ stream' = [stream EXCEPT ![s] = "open"]

\* The sets of sessions that the bound allows another chunk.
Pushable ==
    {some \in SUBSET Sessions :
        FoldFunction(+, 0, pushed) + Cardinality(some) <= MaxChunks}

\* update_chunk() for each session of "some".
UpdateChunk(some) ==
    /\ pushed' = [s \in Sessions |-> IF s \in some THEN pushed[s] + 1 ELSE pushed[s]]
    /\ pending' = [s \in Sessions |-> IF s \in some THEN pushed[s] + 1 ELSE pending[s]]
    /\ UNCHANGED taken

\* stop(), up to its wait for the loop.
CancelLoop(s) ==
    /\ running' = [running EXCEPT ![s] = FALSE]
    /\ loop' = [loop EXCEPT ![s] = IF @ \in {"none", "done", "crashed"} THEN @
                                                                      ELSE "cancelling"]

\* stop(), from there to its wait for the stream.
CancelStream(s) ==
    stream' = [stream EXCEPT ![s] = IF @ = "open" THEN "cancelling" ELSE @]

LoopOver(s) == loop[s] \in {"none", "done"}
StreamOver(s) == stream[s] \in {"none", "done"}

HasFailed(s) == failure[s] # "none"

\* Variant: a session that lost its connection does not count.
OnlyMotionErrors(s) == failure[s] = "motion"

-------------------------------------------------------------------------------
(* The jogging loop. *)

Resolve(s) ==
    /\ loop[s] = "resolving"
    /\ loop' = [loop EXCEPT ![s] = "opening"]
    /\ UNCHANGED <<slotVars, flagVars, trackerVars, stream, faults>>

\* The query is made outside the try statement: the task ends by its exception, which
\* stop() suppresses if it is one of the connection's.
ResolveFails(s) ==
    /\ loop[s] = "resolving"
    /\ May("unresolved")
    /\ \E end \in {"done", "crashed"} : loop' = [loop EXCEPT ![s] = end]
    /\ UNCHANGED <<slotVars, flagVars, trackerVars, stream>>

\* Connected, and InitializeJoggingRequest sent.
Open(s) ==
    /\ loop[s] = "opening"
    /\ loop' = [loop EXCEPT ![s] = "awaiting"]
    /\ UNCHANGED <<slotVars, flagVars, trackerVars, stream, faults>>

\* _failed, its reason and _running, and the end of the task.
FailAs(s, kind) ==
    /\ failure' = [failure EXCEPT ![s] = kind]
    /\ running' = [running EXCEPT ![s] = FALSE]
    /\ loop' = [loop EXCEPT ![s] = "done"]

Rejected(s) ==
    /\ loop[s] = "opening"
    /\ May("rejected")
    /\ FailAs(s, "rejected")
    /\ UNCHANGED <<slotVars, ready, condition, trackerVars, stream>>

Lost(s) ==
    /\ loop[s] \in Connected
    /\ May("lost")
    /\ IF running[s]
       THEN FailAs(s, "lost")
       ELSE loop' = [loop EXCEPT ![s] = "done"] /\ UNCHANGED <<failure, running>>
    /\ UNCHANGED <<slotVars, ready, condition, trackerVars, stream>>

\* The iteration over the responses ends, and with it the generator: no failure.
Ended(s) ==
    /\ loop[s] = "awaiting"
    /\ May("ended")
    /\ loop' = [loop EXCEPT ![s] = "done"]
    /\ UNCHANGED <<slotVars, flagVars, trackerVars, stream>>

Crash(s) ==
    /\ loop[s] \in Connected
    /\ May("crash")
    /\ loop' = [loop EXCEPT ![s] = "crashed"]
    /\ UNCHANGED <<slotVars, flagVars, trackerVars, stream>>

\* The chunk is captured and the slot emptied before the request is yielded.
CaptureChunk(s) ==
    /\ loop' = [loop EXCEPT ![s] = "sending"]
    /\ taken' = [taken EXCEPT ![s] = pending[s]]
    /\ pending' = [pending EXCEPT ![s] = NoChunk]
    /\ UNCHANGED pushed

\* Without a chunk the generator sleeps.
NextRequest(s) ==
    IF pending[s] = NoChunk
    THEN loop' = [loop EXCEPT ![s] = "idle"] /\ UNCHANGED slotVars
    ELSE CaptureChunk(s)

MotionErrorArrives(s) ==
    /\ loop[s] = "awaiting"
    /\ May("motion_error")
    /\ ready' = [ready EXCEPT ![s] = TRUE]
    /\ FailAs(s, "motion")
    /\ UNCHANGED <<slotVars, condition, trackerVars, stream>>

\* Variant: one response later.
ConfirmedLate(s) == blocked[s] /\ ticks[s] + 1 > ConfirmTicks

\* The tracker has seen the pause often enough: check() raises.
Confirmed(s) == blocked[s] /\ ticks[s] + 1 >= ConfirmTicks

\* Its count otherwise.
CountedTicks(s) == IF blocked[s] THEN ticks[s] + 1 ELSE 0

\* A response without an error: stop conditions, tracker, then the next chunk.
Respond(s) ==
    /\ loop[s] = "awaiting"
    /\ running[s]
    /\ ready' = [ready EXCEPT ![s] = TRUE]
    /\ UNCHANGED condition
    /\ IF Confirmed(s)
       THEN FailAs(s, "motion") /\ UNCHANGED <<slotVars, ticks>>
       ELSE /\ ticks' = [ticks EXCEPT ![s] = CountedTicks(s)]
            /\ NextRequest(s)
            /\ UNCHANGED <<failure, running>>
    /\ UNCHANGED <<blocked, stream, faults>>

\* The same, and a stop condition is true: a normal stop, unless check() raises.
RespondAndStop(s) ==
    /\ loop[s] = "awaiting"
    /\ running[s]
    /\ May("stop_condition")
    /\ ready' = [ready EXCEPT ![s] = TRUE]
    /\ condition' = [condition EXCEPT ![s] = TRUE]
    /\ running' = [running EXCEPT ![s] = FALSE]
    /\ loop' = [loop EXCEPT ![s] = "done"]
    /\ IF Confirmed(s)
       THEN failure' = [failure EXCEPT ![s] = "motion"] /\ UNCHANGED ticks
       ELSE ticks' = [ticks EXCEPT ![s] = CountedTicks(s)] /\ UNCHANGED failure
    /\ UNCHANGED <<slotVars, blocked, stream>>

\* The sleeping generator finds a chunk.
WakeForChunk(s) ==
    /\ loop[s] = "idle"
    /\ pending[s] # NoChunk
    /\ CaptureChunk(s)
    /\ UNCHANGED <<flagVars, trackerVars, stream, faults>>

\* Variant: the slot is emptied once the request has been sent.
SentAndCleared(s) ==
    /\ loop[s] = "sending"
    /\ loop' = [loop EXCEPT ![s] = "awaiting"]
    /\ pending' = [pending EXCEPT ![s] = NoChunk]
    /\ UNCHANGED <<pushed, taken, flagVars, trackerVars, stream, faults>>

\* The client has sent the request and asks the generator for the next one.
Sent(s) ==
    /\ loop[s] = "sending"
    /\ loop' = [loop EXCEPT ![s] = "awaiting"]
    /\ UNCHANGED <<slotVars, flagVars, trackerVars, stream, faults>>

LoopCancelled(s) ==
    /\ loop[s] = "cancelling"
    /\ loop' = [loop EXCEPT ![s] = "done"]
    /\ UNCHANGED <<slotVars, flagVars, trackerVars, stream, faults>>

-------------------------------------------------------------------------------
(* The stream of states. *)

Pause(s) ==
    /\ stream[s] = "open"
    /\ ~blocked[s]
    /\ May("blocked")
    /\ blocked' = [blocked EXCEPT ![s] = TRUE]
    /\ UNCHANGED <<slotVars, flagVars, ticks, loop, stream>>

Recover(s) ==
    /\ stream[s] = "open"
    /\ blocked[s]
    /\ blocked' = [blocked EXCEPT ![s] = FALSE]
    /\ UNCHANGED <<slotVars, flagVars, ticks, loop, stream, faults>>

\* Reported nowhere: the session goes on with the last state it has seen.
StateLost(s) ==
    /\ stream[s] = "open"
    /\ May("state_lost")
    /\ stream' = [stream EXCEPT ![s] = "done"]
    /\ UNCHANGED <<slotVars, flagVars, trackerVars, loop>>

StreamCancelled(s) ==
    /\ stream[s] = "cancelling"
    /\ stream' = [stream EXCEPT ![s] = "done"]
    /\ UNCHANGED <<slotVars, flagVars, trackerVars, loop, faults>>

-------------------------------------------------------------------------------

SessionStep(s) ==
    \/ Resolve(s) \/ Open(s) \/ Respond(s) \/ WakeForChunk(s) \/ Sent(s)
    \/ LoopCancelled(s) \/ StreamCancelled(s)

SessionFault(s) ==
    \/ ResolveFails(s) \/ Rejected(s) \/ Lost(s) \/ Ended(s) \/ Crash(s)
    \/ MotionErrorArrives(s) \/ RespondAndStop(s)
    \/ Pause(s) \/ Recover(s) \/ StateLost(s)

\* Tasks run, connections are made and the server responds.
SessionFairness(s) ==
    /\ WF_sessionVars(Resolve(s)) /\ WF_sessionVars(Open(s)) /\ WF_sessionVars(Respond(s))
    /\ WF_sessionVars(WakeForChunk(s)) /\ WF_sessionVars(Sent(s))
    /\ WF_sessionVars(LoopCancelled(s)) /\ WF_sessionVars(StreamCancelled(s))
===============================================================================

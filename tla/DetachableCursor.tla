---------------------------- MODULE DetachableCursor ----------------------------
(***************************************************************************)
(* What the owner of a trajectory cursor can rely on, whatever it does     *)
(* with it: the cursor takes operations until it is detached; its location *)
(* is that of the execution, and changes for an operation in progress      *)
(* only; an execution that has begun is over when its states are, and then *)
(* the cursor is detached and its iteration at an end.  The owner may      *)
(* replace a cursor whose execution is over by the next one.               *)
(***************************************************************************)
VARIABLES
    execution,    \* "none", "initializing", "running", "over", or "failed": never begun
    detached,     \* no operation is taken any more
    sentinel,     \* the iteration over the states is at its end
    inProgress,   \* somebody may be waiting for an operation
    slotFull,     \* an intent waits to be sent
    location      \* current_location

cursorVars == <<execution, detached, sentinel, inProgress, slotFull, location>>

Untouched == ~detached /\ ~sentinel /\ ~inProgress /\ ~slotFull

CursorInit == execution = "none" /\ Untouched

-------------------------------------------------------------------------------
(* The owner.                                                              *)

\* A movement or a pause; what was in progress is superseded.
Operate ==
    /\ ~detached
    /\ inProgress' = TRUE /\ slotFull' = TRUE
    /\ UNCHANGED <<execution, detached, sentinel, location>>

Detach ==
    /\ detached' = TRUE /\ inProgress' = FALSE
    /\ UNCHANGED <<execution, sentinel, slotFull, location>>

\* Nobody waits for the operation any more.
Abandon ==
    /\ inProgress /\ inProgress' = FALSE
    /\ UNCHANGED <<execution, detached, sentinel, slotFull, location>>

Execute ==
    /\ execution = "none" /\ execution' = "initializing"
    /\ UNCHANGED <<detached, sentinel, inProgress, slotFull, location>>

\* The next cursor.
Renew ==
    /\ execution = "over" /\ execution' = "none"
    /\ Untouched'

-------------------------------------------------------------------------------
(* The execution.                                                          *)

Begin ==
    /\ execution = "initializing" /\ execution' = "running"
    /\ UNCHANGED <<detached, sentinel, inProgress, slotFull, location>>

\* The one end that leaves the iteration without a sentinel.
StartFails ==
    /\ execution \in {"none", "initializing"} /\ execution' = "failed"
    /\ UNCHANGED <<detached, sentinel, inProgress, slotFull, location>>

SendIntent ==
    /\ execution = "running" /\ ~detached
    /\ slotFull /\ slotFull' = FALSE
    /\ UNCHANGED <<execution, detached, sentinel, inProgress, location>>

\* A state of the robot, for the operation in progress; it may end the operation.
Report ==
    /\ execution = "running" /\ inProgress
    /\ inProgress' \in BOOLEAN
    /\ UNCHANGED <<execution, detached, sentinel, slotFull>>

\* The last state, or whatever else ends the states.
Close ==
    /\ execution = "running" /\ execution' = "over"
    /\ detached' = TRUE /\ sentinel' = TRUE /\ inProgress' = FALSE
    /\ ~inProgress => UNCHANGED location
    /\ UNCHANGED slotFull

CursorNext ==
    \/ Operate \/ Detach \/ Abandon \/ Execute \/ Renew
    \/ Begin \/ StartFails \/ SendIntent \/ Report \/ Close

CursorSpec == CursorInit /\ [][CursorNext]_cursorVars
================================================================================

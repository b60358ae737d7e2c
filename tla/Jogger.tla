-------------------------------- MODULE Jogger --------------------------------
(***************************************************************************)
(* The jogger (novapolicy/jogging/jogger.py), an asynchronous context      *)
(* manager: entering it moves the robots to the start position, starts the *)
(* sessions and waits until each is ready; the user's loop over it gets a  *)
(* turn about every 10 ms, in which it may set targets; leaving it stops   *)
(* the monitor and the sessions.                                           *)
(***************************************************************************)
EXTENDS SessionOwner

\* In __aenter__; in the body of the user's loop and in the sleep between two turns.
Entering == {"moving", "starting", "waiting"}
JoggerLoop == {"body", "sleeping"}

JoggerPlaces == CommonPlaces \cup Entering \cup JoggerLoop

JoggerInit ==
    /\ owner = "jogger"
    /\ pc = "moving"

-------------------------------------------------------------------------------
(* __aenter__ *)

MovedToStart ==
    /\ pc = "moving"
    /\ StartFirst
    /\ UNCHANGED <<loop, NotStopped, estopVars, faults>>

StartSessions ==
    /\ owner = "jogger"
    /\ \/ StartNext /\ UNCHANGED estop
       \/ StartLast("waiting") /\ estop' = "watching"
    /\ UNCHANGED estopError

\* Nothing that was started is stopped: __aexit__ runs only after __aenter__ ended.
EnterFails ==
    /\ owner = "jogger"
    /\ pc \in Entering
    /\ \/ pc # "waiting" /\ May("start_error") /\ LeaveFor("over", "error")
       \/ May("cancelled") /\ LeaveFor("over", "cancelled")
    /\ UNCHANGED <<sessionVars, estopVars>>

-------------------------------------------------------------------------------
(* The loop. *)

\* The next turn: the checks, and then the user's code.
Turn ==
    IF CheckRaises THEN LeaveFor("closing_estop", "error")
    ELSE IF ConditionMet THEN LeaveFor("closing_estop", "condition")
    ELSE GoTo("body")

Entered ==
    /\ owner = "jogger"
    /\ pc = "waiting"
    /\ AllReady
    /\ entered' = TRUE
    /\ pc' = "sleeping"
    /\ UNCHANGED <<owner, at, outcome, sessionVars, estopVars, faults>>

NextTick ==
    /\ pc = "sleeping"
    /\ Turn
    /\ UNCHANGED <<sessionVars, estopVars, faults>>

\* The user sets targets for some of the sessions, and the loop sleeps.
SetTarget ==
    /\ pc = "body"
    /\ \E some \in Pushable : UpdateChunk(some)
    /\ GoTo("sleeping")
    /\ UNCHANGED <<flagVars, trackerVars, loop, stream, estopVars, faults>>

Break ==
    /\ pc = "body"
    /\ LeaveFor("closing_estop", "stopped")
    /\ UNCHANGED <<sessionVars, estopVars, faults>>

BodyFails ==
    /\ pc \in JoggerLoop
    /\ \/ pc = "body" /\ May("user_error") /\ LeaveFor("closing_estop", "error")
       \/ May("cancelled") /\ LeaveFor("closing_estop", "cancelled")
    /\ UNCHANGED <<sessionVars, estopVars>>

-------------------------------------------------------------------------------
(* __aexit__ *)

EstopStopped ==
    /\ owner = "jogger"
    /\ CloseEstop
    /\ StopFirst(outcome)
    /\ UNCHANGED <<NotStopped, faults>>

\* The crashed monitor raises, and the sessions go on.
EstopStopRaises ==
    /\ owner = "jogger"
    /\ pc = "closing_estop"
    /\ estop = "crashed"
    /\ LeaveFor("over", "error")
    /\ UNCHANGED <<sessionVars, estopVars, faults>>

SessionsStopped ==
    /\ owner = "jogger"
    /\ StopSessions("over")

-------------------------------------------------------------------------------

JoggerStep ==
    \/ MovedToStart \/ StartSessions \/ Entered \/ NextTick \/ SetTarget
    \/ EstopStopped \/ EstopStopRaises \/ SessionsStopped

JoggerFault == EnterFails \/ Break \/ BodyFails
===============================================================================

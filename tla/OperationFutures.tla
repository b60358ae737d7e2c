---------------------------- MODULE OperationFutures ----------------------------
(***************************************************************************)
(* What a trajectory cursor promises about the futures it hands out: each  *)
(* call that starts an operation gets a fresh future, a newer call cancels *)
(* the one still pending, a future is decided once, and after the cursor   *)
(* is detached none is pending and none is handed out.                     *)
(***************************************************************************)
EXTENDS Naturals

CONSTANT MaxOps    \* at most this many operations are started

Ops == 1..MaxOps

FutureStates == {"unused", "pending", "result", "cancelled"}

VARIABLES
    fut,      \* the future of each operation
    closed    \* the cursor has been detached

futuresVars == <<fut, closed>>

\* The futures after every pending one of "those" is cancelled.
CancelledIn(futures, those) ==
    [i \in Ops |-> IF i \in those /\ futures[i] = "pending" THEN "cancelled" ELSE futures[i]]

FuturesInit == fut = [i \in Ops |-> "unused"] /\ closed = FALSE

HandOut(i) ==
    /\ ~closed
    /\ fut[i] = "unused"
    /\ fut' = [CancelledIn(fut, Ops) EXCEPT ![i] = "pending"]
    /\ UNCHANGED closed

Decide(i) ==
    /\ fut[i] = "pending"
    /\ \E outcome \in {"result", "cancelled"} : fut' = [fut EXCEPT ![i] = outcome]
    /\ UNCHANGED closed

Close ==
    /\ closed' = TRUE
    /\ \/ fut' = CancelledIn(fut, Ops)
       \/ \E i \in Ops :
            fut[i] = "pending" /\ fut' = [CancelledIn(fut, Ops) EXCEPT ![i] = "result"]

FuturesNext ==
    \/ \E i \in Ops : HandOut(i) \/ Decide(i)
    \/ Close

FuturesSpec == FuturesInit /\ [][FuturesNext]_futuresVars
================================================================================

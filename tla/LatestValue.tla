------------------------------ MODULE LatestValue ------------------------------
(***************************************************************************)
(* What a slot between a producer and its consumers promises: each         *)
(* consumer has one slot; a new value replaces the one that still waits,   *)
(* and a value taken is gone from the slot.  Values are numbered in the    *)
(* order they are put, so a consumer sees the newest value there is, never *)
(* the same value twice, and none disappears but by a newer one.           *)
(***************************************************************************)
EXTENDS Naturals

CONSTANT Consumers

Empty == 0

VARIABLES
    slot,    \* the value that waits, for each consumer
    put,     \* the number of the newest value
    taken    \* the number of the value taken last

slotVars == <<slot, put, taken>>

SlotInit ==
    /\ slot = [c \in Consumers |-> Empty]
    /\ put = [c \in Consumers |-> 0]
    /\ taken = [c \in Consumers |-> 0]

\* One call may put a value for several consumers.
PutFor(some) ==
    /\ put' = [c \in Consumers |-> IF c \in some THEN put[c] + 1 ELSE put[c]]
    /\ slot' = [c \in Consumers |-> IF c \in some THEN put[c] + 1 ELSE slot[c]]
    /\ UNCHANGED taken

Take(c) ==
    /\ slot[c] # Empty
    /\ taken' = [taken EXCEPT ![c] = slot[c]]
    /\ slot' = [slot EXCEPT ![c] = Empty]
    /\ UNCHANGED put

SlotNext ==
    \/ \E some \in SUBSET Consumers : PutFor(some)
    \/ \E c \in Consumers : Take(c)

SlotSpec == SlotInit /\ [][SlotNext]_slotVars
================================================================================

------------------------------- MODULE IOWriter -------------------------------
(***************************************************************************)
(* The writer of outputs of one session (novapolicy/io.py, IOWriter), for  *)
(* one output.  Every chunk that sets it starts a task; the tasks wait for *)
(* a fair lock, so they write in the order they were started.  A value     *)
(* equal to the one written last is not written again.                     *)
(***************************************************************************)
EXTENDS WaypointSession, Sequences

CONSTANTS
    MaxWrites     \* bound: writes asked for

ASSUME MaxWritesAssumption == MaxWrites \in Nat

IOValues == {"off", "on"}

VARIABLES
    writes,         \* the values the tasks are to write, in the order of the lock
    lastWritten,    \* _last_written, or "none"
    output,         \* the output of the controller
    asked,          \* history: the value of the task that ended last, or "none"
    failed,         \* history: that task failed
    numWrites       \* history: tasks started

writerVars == <<writes, lastWritten, output, asked, failed, numWrites>>

WriterTypeOK ==
    /\ writes \in Seq(IOValues) /\ Len(writes) <= numWrites
    /\ {lastWritten, asked} \subseteq IOValues \cup {"none"}
    /\ output \in IOValues
    /\ failed \in BOOLEAN
    /\ numWrites \in 0..MaxWrites

WriterInit ==
    /\ writes = <<>>
    /\ lastWritten = "none"
    /\ output = "off"
    /\ asked = "none"
    /\ failed = FALSE
    /\ numWrites = 0

\* A task for the outputs of a chunk.
StartWrite(value) ==
    /\ numWrites < MaxWrites
    /\ numWrites' = numWrites + 1
    /\ writes' = Append(writes, value)
    /\ UNCHANGED <<lastWritten, output, asked, failed>>

\* The task that holds the lock ends.
WriteEnds(failing) ==
    /\ writes # <<>>
    /\ writes' = Tail(writes)
    /\ asked' = Head(writes)
    /\ failed' = failing
    /\ UNCHANGED <<numWrites, sessionVars>>

WriteSkipped ==
    /\ WriteEnds(FALSE)
    /\ lastWritten = Head(writes)
    /\ UNCHANGED <<lastWritten, output, faults>>

Written ==
    /\ WriteEnds(FALSE)
    /\ lastWritten # Head(writes)
    /\ output' = Head(writes)
    /\ lastWritten' = Head(writes)
    /\ UNCHANGED faults

\* Variant: the value is remembered before it is written.
RememberedThenRejected ==
    /\ WriteEnds(TRUE)
    /\ lastWritten # Head(writes)
    /\ May("write_rejected")
    /\ lastWritten' = Head(writes)
    /\ UNCHANGED output

WriteRejected ==
    /\ WriteEnds(TRUE)
    /\ lastWritten # Head(writes)
    /\ May("write_rejected")
    /\ UNCHANGED <<lastWritten, output>>

\* The controller has written the value, and the answer never arrives.
ReplyLost ==
    /\ WriteEnds(TRUE)
    /\ lastWritten # Head(writes)
    /\ May("reply_lost")
    /\ output' = Head(writes)
    /\ UNCHANGED lastWritten

WriterStep == WriteSkipped \/ Written
WriterFault == WriteRejected \/ ReplyLost
===============================================================================

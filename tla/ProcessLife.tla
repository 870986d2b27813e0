----------------------------- MODULE ProcessLife -----------------------------
(***************************************************************************)
(* What the rest of the system may assume about the life of one notifier   *)
(* process: it runs, is told to stop, closes its database handle and ends; *)
(* or it ends at any moment.  Jobs are dispatched to the workers only      *)
(* while it runs, and never more than the channel, the dispatcher and the  *)
(* workers can hold.  Runtime implements it in the detail of goroutines,   *)
(* and Notifier uses it for each of its processes.                         *)
(***************************************************************************)
EXTENDS Integers

CONSTANTS
    WorkerCount,
    BufferSize      \* capacity of the scheduler's output channel

VARIABLES
    phase,  \* "down", "running", "stopping" or "closed"
    ready,  \* jobs dispatched and not taken by a worker
    busy    \* workers with a job

vars == <<phase, ready, busy>>

Init == phase \in {"down", "running"} /\ ready = 0 /\ busy = 0

Start == phase = "down" /\ phase' = "running" /\ UNCHANGED <<ready, busy>>

Stop == phase = "running" /\ phase' = "stopping" /\ UNCHANGED <<ready, busy>>

Close == phase = "stopping" /\ phase' = "closed" /\ UNCHANGED <<ready, busy>>

\* The process ends, and with it everything in its memory.
End == phase # "down" /\ phase' = "down" /\ ready' = 0 /\ busy' = 0

Dispatch ==
    /\ phase = "running"
    /\ ready <= BufferSize
    /\ ready' = ready + 1
    /\ UNCHANGED <<phase, busy>>

\* The dispatcher gives up the job in its hand.
Drop ==
    /\ phase \in {"stopping", "closed"}
    /\ ready > 0
    /\ ready' = ready - 1
    /\ UNCHANGED <<phase, busy>>

TakeJob ==
    /\ phase # "down"
    /\ ready > 0 /\ busy < WorkerCount
    /\ ready' = ready - 1
    /\ busy' = busy + 1
    /\ UNCHANGED phase

FinishJob ==
    /\ phase # "down"
    /\ busy > 0
    /\ busy' = busy - 1
    /\ UNCHANGED <<phase, ready>>

Next == Start \/ Stop \/ Close \/ End \/ Dispatch \/ Drop \/ TakeJob \/ FinishJob

Spec == Init /\ [][Next]_vars
=============================================================================

------------------------------- MODULE JobPool -------------------------------
(***************************************************************************)
(* What the notifier needs of its scheduler, without queues, rotation,     *)
(* condition variable or channel: jobs wait in scheduled, move one at a    *)
(* time to dispatched (the dispatcher's hand and the channel) while the    *)
(* scheduler runs, and leave when a worker takes them.                     *)
(***************************************************************************)
EXTENDS Naturals, FiniteSets

CONSTANTS
    Jobs,
    BufferSize

VARIABLES
    scheduled,   \* jobs QueueDepth() counts
    dispatched,  \* jobs on their way to a worker
    running      \* neither closed nor cancelled

poolVars == <<scheduled, dispatched, running>>

Init ==
    /\ scheduled = {}
    /\ dispatched = {}
    /\ running = TRUE

\* Accepted whether or not the pool runs.
Enqueue(job) ==
    /\ job \notin scheduled \cup dispatched
    /\ scheduled' = scheduled \cup {job}
    /\ UNCHANGED <<dispatched, running>>

\* The channel is full and one more job is in the dispatcher's hand at most.
Dispatch(job) ==
    /\ running
    /\ job \in scheduled
    /\ Cardinality(dispatched) <= BufferSize
    /\ scheduled' = scheduled \ {job}
    /\ dispatched' = dispatched \cup {job}
    /\ UNCHANGED running

\* A worker takes the job, or a stopped dispatcher drops the one it holds.
Leave(job) ==
    /\ job \in dispatched
    /\ dispatched' = dispatched \ {job}
    /\ UNCHANGED <<scheduled, running>>

Stop ==
    /\ running' = FALSE
    /\ UNCHANGED <<scheduled, dispatched>>

Next ==
    \/ \E job \in Jobs : Enqueue(job) \/ Dispatch(job) \/ Leave(job)
    \/ Stop

Spec == Init /\ [][Next]_poolVars
=============================================================================

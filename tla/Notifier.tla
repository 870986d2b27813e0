------------------------------- MODULE Notifier -------------------------------
(***************************************************************************)
(* Several notifier processes over one work queue (internal/notifier).     *)
(* Each process runs a poller that claims rows, a scheduler, and a pool of *)
(* workers that deliver webhooks and record the outcome in the table.      *)
(*                                                                         *)
(* jobs[n][p] is the set of delivery jobs of process n at place p:         *)
(*   "batch"       returned by the claim, not yet passed to Enqueue        *)
(*   "scheduled"   in the scheduler's queues; QueueDepth() counts them     *)
(*   "dispatched"  in the dispatcher's hand or in the output channel       *)
(*   "requesting"  a worker is in Deliver, the endpoint has not got it     *)
(*   "answering"   a worker is in Deliver, the endpoint has received it    *)
(* "scheduled" and "dispatched" behave as module JobPool, which            *)
(* RoundRobinScheduler implements.  Workers are interchangeable, so they   *)
(* are counted, not named.                                                 *)
(***************************************************************************)
EXTENDS WorkQueue

CONSTANTS
    MaxUrlsPerEvent,            \* bound: rows one accepted event creates
    WorkerCount,
    ScheduledQueueLimitFactor,
    BufferSize,                 \* WorkerCount * SchedulerBufferMultiplier
    MaxRetryAttempts,
    NextDelay,                  \* retry.Policy.NextDelay, see module Delivery
    FaultKinds,                 \* subset of {"crash", "stop", "claim", "update"}
    MaxFaults                   \* bound: faults of these kinds in a behaviour

ASSUME NotifierAssumption ==
    /\ MaxUrlsPerEvent \in Nat
    /\ WorkerCount \in Int
    /\ ScheduledQueueLimitFactor \in Int
    /\ BufferSize \in Nat
    /\ MaxRetryAttempts \in Nat
    /\ NextDelay \in [0 .. MaxRetryAttempts -> Int]
    /\ FaultKinds \subseteq {"crash", "stop", "claim", "update"}
    /\ MaxFaults \in Nat

VARIABLES
    now,        \* the clock the processes share
    phase,      \* life of each process
    locked,     \* rows locked by a process's open claim transaction
    jobs,       \* delivery jobs in the memory of each process
    received,   \* how often the endpoint received the row's request
    faults      \* faults so far

vars == <<table, now, phase, locked, jobs, received, faults>>

(***************************************************************************)
(* "running":  requestContext is live.                                     *)
(* "stopping": SIGTERM has cancelled requestContext.                       *)
(* "closed":   shutdown has also closed the database handle.               *)
(* "down":     there is no process.                                        *)
(***************************************************************************)
Phases == {"running", "stopping", "closed", "down"}

Places == {"batch", "scheduled", "dispatched", "requesting", "answering"}

Job == [row : Rows, attempt : Nat]

DefaultScheduledQueueLimitFactor == 10

ScheduledQueueLimit ==
    (IF WorkerCount <= 0 THEN 1 ELSE WorkerCount)
        * (IF ScheduledQueueLimitFactor <= 0 THEN DefaultScheduledQueueLimitFactor
                                             ELSE ScheduledQueueLimitFactor)

NoJobs == [p \in Places |-> {}]

Alive(n) == phase[n] # "down"

Init ==
    /\ QueueInit
    /\ now = 0
    /\ phase = [n \in Owners |-> "running"]
    /\ locked = [n \in Owners |-> {}]
    /\ jobs = [n \in Owners |-> NoJobs]
    /\ received = [i \in Rows |-> 0]
    /\ faults = 0

\* A fault of this kind happens in this step.
Fault(kind) ==
    /\ kind \in FaultKinds
    /\ faults < MaxFaults
    /\ faults' = faults + 1

\* Job j of process n moves from place p to place q, or leaves its memory.
Move(n, j, p, q) ==
    /\ j \in jobs[n][p]
    /\ jobs' = [jobs EXCEPT ![n][p] = @ \ {j}, ![n][q] = @ \cup {j}]

Finish(n, j, p) ==
    /\ j \in jobs[n][p]
    /\ jobs' = [jobs EXCEPT ![n][p] = @ \ {j}]

-----------------------------------------------------------------------------
(***************************************************************************)
(* An event accepted by a process that still serves HTTP becomes rows      *)
(* (module Ingest has the handler).  Time passes only while a pending row  *)
(* waits for its available_at: nothing else in the model reads the clock.  *)
(***************************************************************************)
Accept ==
    /\ \E n \in Owners : phase[n] \in {"running", "stopping"}
    /\ \E S \in SUBSET Rows :
          /\ S # {}
          /\ Cardinality(S) <= MaxUrlsPerEvent
          /\ EnqueueDeliveries(S, now)
    /\ UNCHANGED <<now, phase, locked, jobs, received, faults>>

Tick ==
    /\ \E i \in Rows : status[i] = "pending" /\ availableAt[i] > now
    /\ now' = now + 1
    /\ UNCHANGED <<table, phase, locked, jobs, received, faults>>

(***************************************************************************)
(* claimAndSchedule: nothing while the scheduled queue is full; otherwise  *)
(* claim a batch in one transaction, then enqueue its jobs one by one.     *)
(* The order in which the UPDATE returns the rows is not specified, so the *)
(* batch is a set.  The loop over the batch does not look at the context.  *)
(***************************************************************************)
FaultyScheduledQueueIsFull(n) ==
    Cardinality(jobs[n]["scheduled"]) > ScheduledQueueLimit

ScheduledQueueIsFull(n) ==
    Cardinality(jobs[n]["scheduled"]) >= ScheduledQueueLimit

AllLocked == UNION {locked[n] : n \in Owners}

BeginClaim(n) ==
    /\ phase[n] = "running"
    /\ locked[n] = {}
    /\ jobs[n]["batch"] = {}
    /\ ~ScheduledQueueIsFull(n)
    /\ locked' = [locked EXCEPT ![n] = SelectedRows(now, AllLocked)]
    /\ UNCHANGED <<table, now, phase, jobs, received, faults>>

FaultyClaimedJobs(n) ==
    {[row |-> i, attempt |-> 0] : i \in locked[n]}

ClaimedJobs(n) ==
    {[row |-> i, attempt |-> retryCount[i]] : i \in locked[n]}

CommitClaim(n) ==
    /\ phase[n] = "running"
    /\ locked[n] # {}
    /\ ClaimRows(locked[n], n)
    /\ jobs' = [jobs EXCEPT ![n]["batch"] = ClaimedJobs(n)]
    /\ locked' = [locked EXCEPT ![n] = {}]
    /\ UNCHANGED <<now, phase, received, faults>>

ScheduleJob(n, j) ==
    /\ Alive(n)
    /\ Move(n, j, "batch", "scheduled")
    /\ UNCHANGED <<table, now, phase, locked, received, faults>>

-----------------------------------------------------------------------------
(***************************************************************************)
(* The end of a process: its memory is gone and PostgreSQL rolls back its  *)
(* open transaction.  Nothing returns its claimed rows to pending.         *)
(***************************************************************************)
EndProcess(n) ==
    /\ phase' = [phase EXCEPT ![n] = "down"]
    /\ locked' = [locked EXCEPT ![n] = {}]
    /\ jobs' = [jobs EXCEPT ![n] = NoJobs]

Crash(n) ==
    /\ Alive(n)
    /\ Fault("crash")
    /\ EndProcess(n)
    /\ UNCHANGED <<table, now, received>>

(***************************************************************************)
(* A claim error ends runQueuePoller, then Run, and main calls log.Fatalf: *)
(* the whole process exits without shutdown.  When the COMMIT is what      *)
(* failed, it may have taken effect in the database.                       *)
(***************************************************************************)
FailClaim(n) ==
    /\ phase[n] = "running"
    /\ jobs[n]["batch"] = {}
    /\ locked[n] # {} \/ ~ScheduledQueueIsFull(n)
    /\ Fault("claim")
    /\ ClaimRows(locked[n], n) \/ UNCHANGED table
    /\ EndProcess(n)
    /\ UNCHANGED <<now, received>>

(***************************************************************************)
(* Graceful shutdown.  Cancelling requestContext rolls back an open claim; *)
(* a COMMIT that took effect although the context is cancelled is a        *)
(* CommitClaim just before Stop, since its jobs are never dispatched.      *)
(* shutdown closes the database handle before it waits for the workers.    *)
(***************************************************************************)
Stop(n) ==
    /\ phase[n] = "running"
    /\ Fault("stop")
    /\ phase' = [phase EXCEPT ![n] = "stopping"]
    /\ locked' = [locked EXCEPT ![n] = {}]
    /\ UNCHANGED <<table, now, jobs, received>>

CloseWorkQueue(n) ==
    /\ phase[n] = "stopping"
    /\ phase' = [phase EXCEPT ![n] = "closed"]
    /\ UNCHANGED <<table, now, locked, jobs, received, faults>>

Exit(n) ==
    /\ phase[n] = "closed"
    /\ EndProcess(n)
    /\ UNCHANGED <<table, now, received, faults>>

Restart(n) ==
    /\ phase[n] = "down"
    /\ phase' = [phase EXCEPT ![n] = "running"]
    /\ UNCHANGED <<table, now, locked, jobs, received, faults>>

-----------------------------------------------------------------------------
(***************************************************************************)
(* The scheduler hands out jobs until it is cancelled; a worker may take   *)
(* one that is already in the channel even later, because its select picks *)
(* either ready branch.                                                    *)
(***************************************************************************)
FaultyDispatch(n, j) ==
    /\ Alive(n)
    /\ Cardinality(jobs[n]["dispatched"]) <= BufferSize
    /\ Move(n, j, "scheduled", "dispatched")
    /\ UNCHANGED <<table, now, phase, locked, received, faults>>

Dispatch(n, j) ==
    /\ phase[n] = "running"
    /\ Cardinality(jobs[n]["dispatched"]) <= BufferSize
    /\ Move(n, j, "scheduled", "dispatched")
    /\ UNCHANGED <<table, now, phase, locked, received, faults>>

BusyWorkers(n) == Cardinality(jobs[n]["requesting"]) + Cardinality(jobs[n]["answering"])

TakeJob(n, j) ==
    /\ Alive(n)
    /\ BusyWorkers(n) < WorkerCount
    /\ Move(n, j, "dispatched", "requesting")
    /\ UNCHANGED <<table, now, phase, locked, received, faults>>

(***************************************************************************)
(* The endpoint receives the request.  One that was sent before the        *)
(* context was cancelled counts as received before.                        *)
(***************************************************************************)
EndpointReceives(n, j) ==
    /\ phase[n] = "running"
    /\ Move(n, j, "requesting", "answering")
    /\ received' = [received EXCEPT ![j.row] = @ + 1]
    /\ UNCHANGED <<table, now, phase, locked, faults>>

(***************************************************************************)
(* What Deliver can return.  A 2xx answer needs a received request.  A     *)
(* timeout or temporary error, 429 and 5xx are retryable, anything else is *)
(* permanent; with the context cancelled, Do returns a context error,      *)
(* which is not retryable.                                                 *)
(***************************************************************************)
FaultyDeliver(n, p) ==
    {"success", "retryable", "permanent"}

Deliver(n, p) ==
    (IF p = "answering" THEN {"success"} ELSE {})
        \cup {"retryable", "permanent"}
        \cup (IF phase[n] = "running" THEN {} ELSE {"interrupted"})

FaultyCanRetry(attempt) == attempt <= MaxRetryAttempts

CanRetry(attempt) == attempt < MaxRetryAttempts

(***************************************************************************)
(* How an UPDATE of the outcome ends: an error is only logged.  With       *)
(* requestContext it fails as soon as the process is stopping; the dead    *)
(* letter is written with context.Background(), which fails only once the  *)
(* handle is closed.                                                       *)
(***************************************************************************)
Record(update, works) ==
    \/ works /\ update /\ UNCHANGED faults
    \/ works /\ Fault("update") /\ UNCHANGED table
    \/ ~works /\ UNCHANGED <<table, faults>>

HandleSuccessfulDelivery(n, j, p) ==
    /\ "success" \in Deliver(n, p)
    /\ Finish(n, j, p)
    /\ Record(MarkDelivered(j.row), phase[n] = "running")
    /\ UNCHANGED <<now, phase, locked, received>>

HandleRetryableFailure(n, j, p) ==
    /\ "retryable" \in Deliver(n, p)
    /\ CanRetry(j.attempt)
    /\ Finish(n, j, p)
    /\ Record(MarkRetryPending(j.row, "retryable", now + NextDelay[j.attempt]),
              phase[n] = "running")
    /\ UNCHANGED <<now, phase, locked, received>>

HandlePermanentFailure(n, j, p) ==
    /\ \E failure \in Deliver(n, p) \ {"success"} :
          /\ failure = "retryable" => ~CanRetry(j.attempt)
          /\ Record(MarkDeadLetter(j.row, failure), phase[n] \in {"running", "stopping"})
    /\ Finish(n, j, p)
    /\ UNCHANGED <<now, phase, locked, received>>

-----------------------------------------------------------------------------
Poller(n) ==
    \/ BeginClaim(n)
    \/ CommitClaim(n)
    \/ \E j \in jobs[n]["batch"] : ScheduleJob(n, j)

Scheduler(n) ==
    \E j \in jobs[n]["scheduled"] : Dispatch(n, j)

Worker(n) ==
    \/ \E j \in jobs[n]["dispatched"] : TakeJob(n, j)
    \/ \E p \in {"requesting", "answering"} : \E j \in jobs[n][p] :
          \/ HandleSuccessfulDelivery(n, j, p)
          \/ HandleRetryableFailure(n, j, p)
          \/ HandlePermanentFailure(n, j, p)

Lifetime(n) ==
    \/ CloseWorkQueue(n)
    \/ Exit(n)
    \/ Restart(n)

Environment(n) ==
    \/ \E j \in jobs[n]["requesting"] : EndpointReceives(n, j)
    \/ Crash(n)
    \/ Stop(n)
    \/ FailClaim(n)

Next ==
    \/ Accept
    \/ Tick
    \/ \E n \in Owners : Poller(n) \/ Scheduler(n) \/ Worker(n) \/ Lifetime(n) \/ Environment(n)

Spec == Init /\ [][Next]_vars

(***************************************************************************)
(* Time passes, and the Go runtime runs every runnable goroutine.  A       *)
(* worker inside Deliver gets a result, at the latest at the client's      *)
(* RequestTimeout.  An ended process is started again.  Events, receipts   *)
(* by the endpoint, and faults may or may not happen.                      *)
(***************************************************************************)
Fairness ==
    /\ WF_vars(Tick)
    /\ \A n \in Owners : /\ WF_vars(Poller(n))
                         /\ WF_vars(Scheduler(n))
                         /\ WF_vars(Worker(n))
                         /\ WF_vars(Lifetime(n))

FairSpec == Spec /\ Fairness

-----------------------------------------------------------------------------
(***************************************************************************)
(* Types of the table and of the memory of the processes.                  *)
(***************************************************************************)
TypeOK ==
    /\ QueueTypeOK
    /\ now \in Nat
    /\ phase \in [Owners -> Phases]
    /\ locked \in [Owners -> SUBSET Rows]
    /\ jobs \in [Owners -> [Places -> SUBSET Job]]
    /\ received \in [Rows -> Nat]
    /\ faults \in Nat

(***************************************************************************)
(* Claim exclusivity: across all processes a row has at most one live job. *)
(* Nothing but the claim transaction guarantees it, and the UPDATEs that   *)
(* record an outcome, which compare neither owner nor status, rely on it.  *)
(***************************************************************************)
OneHolder ==
    \A n, m \in Owners : \A p, q \in Places :
        \A j \in jobs[n][p], k \in jobs[m][q] :
            j.row = k.row => n = m /\ p = q /\ j = k

(***************************************************************************)
(* A live job is never stale: its row is still claimed, by the process     *)
(* that holds the job, and the Attempt copied at the claim still equals    *)
(* retry_count when CanRetry and NextDelay use it.                         *)
(***************************************************************************)
JobsAreCurrent ==
    \A n \in Owners : \A p \in Places : \A j \in jobs[n][p] :
        /\ status[j.row] = "claimed"
        /\ claimOwner[j.row] = n
        /\ j.attempt = retryCount[j.row]

(***************************************************************************)
(* An endpoint receives a delivery at most MaxRetryAttempts + 1 times,     *)
(* whatever crashes, shutdowns and database errors happen.                 *)
(***************************************************************************)
AttemptsBounded ==
    \A i \in Rows : received[i] <= MaxRetryAttempts + 1

(***************************************************************************)
(* A completed row was received: MarkDelivered is never reached for a      *)
(* request that did not get to the endpoint.                               *)
(***************************************************************************)
CompletedWasReceived ==
    \A i \in Rows : status[i] = "completed" => received[i] > 0

(***************************************************************************)
(* Back-pressure of claimAndSchedule.  The limit is compared before a      *)
(* whole batch is claimed, so the scheduled queue can pass it, by less     *)
(* than one batch.                                                         *)
(***************************************************************************)
ScheduledQueueBounded ==
    \A n \in Owners :
        Cardinality(jobs[n]["scheduled"]) + Cardinality(jobs[n]["batch"])
            <= ScheduledQueueLimit - 1 + ClaimBatchSize

(***************************************************************************)
(* Dead letters are earned: the endpoint refused the delivery for good, or *)
(* the retries are used up.                                                *)
(***************************************************************************)
DeadLettersAreEarned ==
    \A i \in Rows : status[i] = "dead_lettered" =>
        \/ lastError[i] = "permanent"
        \/ lastError[i] = "retryable" /\ retryCount[i] = MaxRetryAttempts

(***************************************************************************)
(* "claimed: currently owned by a worker" (how-to-run.md): every claimed   *)
(* row has a live job.                                                     *)
(***************************************************************************)
ClaimedHasJob ==
    \A i \in Rows : status[i] = "claimed" =>
        \E n \in Owners : \E p \in Places : \E j \in jobs[n][p] : j.row = i

(***************************************************************************)
(* The table goes through the life cycle of DeliveryLifecycle, although    *)
(* the UPDATEs have no guard on the status they leave: completed and       *)
(* dead_lettered are final, and a row is retried at most MaxRetryAttempts  *)
(* times.                                                                  *)
(***************************************************************************)
Lifecycle == INSTANCE DeliveryLifecycle

ImplementsLifecycle == Lifecycle!Spec

(***************************************************************************)
(* Each process lives as ProcessLife says, which Runtime, the model of its *)
(* goroutines, implements: nothing is dispatched after the signal, and at  *)
(* most WorkerCount requests are under way at once.                        *)
(***************************************************************************)
Life(n) == INSTANCE ProcessLife WITH
               phase <- phase[n],
               ready <- Cardinality(jobs[n]["dispatched"]),
               busy <- BusyWorkers(n)

ImplementsProcessLife ==
    /\ \A n \in Owners : Life(n)!Init
    /\ [][\A n \in Owners : [Life(n)!Next]_(Life(n)!vars)]_vars

(***************************************************************************)
(* At-least-once delivery (docs/adr/0002): an accepted row reaches its     *)
(* endpoint, or is dead-lettered.                                          *)
(***************************************************************************)
AtLeastOnce ==
    \A i \in Rows : status[i] = "pending" ~> (received[i] > 0 \/ status[i] = "dead_lettered")
=============================================================================

------------------------ MODULE RoundRobinScheduler ------------------------
(***************************************************************************)
(* The in-memory scheduler of one notifier process                         *)
(* (internal/scheduler/round_robin.go): one FIFO queue per customer, a     *)
(* rotating pointer over the customers, and a dispatcher goroutine that    *)
(* moves jobs one at a time into the channel the workers read.             *)
(*                                                                         *)
(* A section under scheduler.mutex is one atomic action, with one          *)
(* exception.  waitForNextJob checks closed and requestContext.Err(),      *)
(* finds no job, and only then registers with the condition variable.  It  *)
(* holds the mutex throughout, but the goroutine started at line 32        *)
(* broadcasts WITHOUT the mutex, so the two halves are two actions, with   *)
(* the mutex held in between (dispatcher = "parking").                     *)
(***************************************************************************)
EXTENDS Integers, Sequences, FiniteSets

CONSTANTS
    Jobs,         \* delivery jobs; a retried job is enqueued again
    Customers,    \* customer IDs
    CustomerOf,   \* job.Event.CustomerID
    BufferSize    \* capacity of the output channel

ASSUME SchedulerAssumption ==
    /\ CustomerOf \in [Jobs -> Customers]
    /\ BufferSize \in Nat

VARIABLES
    customerQueues,     \* map customer -> queue; its DOMAIN is the map's keys
    customerOrder,      \* customers in the order of their first job
    nextCustomerIndex,  \* where the next scan starts, counted from 0
    queuedJobCount,     \* what QueueDepth() returns
    closed,             \* set by Close()
    cancelled,          \* requestContext.Err() != nil
    dispatcher,         \* program counter of the goroutine of Start
    held,               \* nextJob of that goroutine: a set of at most one job
    watcher,            \* the goroutine that waits for requestContext.Done()
    output,             \* contents of the channel
    outputClosed,       \* close(scheduler.output) has run
    bypassed            \* history: jobs of others dequeued while c was waiting

queueVars == <<customerQueues, customerOrder, nextCustomerIndex, queuedJobCount, bypassed>>
channelVars == <<output, outputClosed>>
vars == <<queueVars, channelVars, closed, cancelled, dispatcher, held, watcher>>

(***************************************************************************)
(* "checking": in waitForNextJob, about to run the loop body.              *)
(* "parking":  found nothing, holds the mutex, not yet a registered waiter.*)
(* "parked":   asleep in condition.Wait().                                 *)
(* "sending":  in the select of Start with a dequeued job.                 *)
(* "returned": the goroutine has returned and closed the channel.          *)
(***************************************************************************)
DispatcherStates == {"checking", "parking", "parked", "sending", "returned"}

Queued == {j \in Jobs : \E c \in DOMAIN customerQueues :
                           \E i \in DOMAIN customerQueues[c] : customerQueues[c][i] = j}

InChannel == {output[i] : i \in DOMAIN output}

InScheduler == Queued \cup held \cup InChannel

HasJobs(c) == customerQueues[c] # <<>>

Init ==
    /\ customerQueues = [c \in {} |-> <<>>]
    /\ customerOrder = <<>>
    /\ nextCustomerIndex = 0
    /\ queuedJobCount = 0
    /\ closed = FALSE
    /\ cancelled = FALSE
    /\ dispatcher = "checking"
    /\ held = {}
    /\ watcher = "waiting"
    /\ output = <<>>
    /\ outputClosed = FALSE
    /\ bypassed = [c \in Customers |-> 0]

(***************************************************************************)
(* sync.Cond.  Signal and Broadcast wake the only possible waiter, the     *)
(* dispatcher, and are lost when it is not registered yet.                 *)
(***************************************************************************)
FaultyWakeDispatcher ==
    dispatcher' = dispatcher

WakeDispatcher ==
    dispatcher' = IF dispatcher = "parked" THEN "checking" ELSE dispatcher

MutexFree == dispatcher # "parking"

-----------------------------------------------------------------------------
(***************************************************************************)
(* Enqueue.  The customer joins customerOrder when the map has no key for  *)
(* it; a drained queue keeps its key, so a customer joins once.  There is  *)
(* no check of closed.  The environment hands over only jobs that are not  *)
(* in the scheduler already: a queue row has at most one live job, which   *)
(* is OneHolder of Notifier.                                               *)
(***************************************************************************)
FaultyIsNewCustomer(c) ==
    c \in DOMAIN customerQueues => ~HasJobs(c)

IsNewCustomer(c) ==
    c \notin DOMAIN customerQueues

QueueOf(c) ==
    IF c \in DOMAIN customerQueues THEN customerQueues[c] ELSE <<>>

Enqueue(job) ==
    LET c == CustomerOf[job] IN
    /\ MutexFree
    /\ job \notin InScheduler
    /\ customerOrder' = IF IsNewCustomer(c) THEN Append(customerOrder, c) ELSE customerOrder
    /\ customerQueues' = [d \in DOMAIN customerQueues \cup {c} |->
                            IF d = c THEN Append(QueueOf(c), job) ELSE customerQueues[d]]
    /\ queuedJobCount' = queuedJobCount + 1
    /\ WakeDispatcher
    /\ UNCHANGED <<nextCustomerIndex, bypassed, channelVars, closed, cancelled, held, watcher>>

FaultyClose ==
    /\ MutexFree
    /\ ~closed
    /\ closed' = TRUE
    /\ UNCHANGED <<queueVars, channelVars, cancelled, dispatcher, held, watcher>>

Close ==
    /\ MutexFree
    /\ ~closed
    /\ closed' = TRUE
    /\ WakeDispatcher
    /\ UNCHANGED <<queueVars, channelVars, cancelled, held, watcher>>

(***************************************************************************)
(* The owner of requestContext cancels it; later the watcher goroutine     *)
(* broadcasts, without taking the mutex.                                   *)
(***************************************************************************)
Cancel ==
    /\ ~cancelled
    /\ cancelled' = TRUE
    /\ UNCHANGED <<queueVars, channelVars, closed, dispatcher, held, watcher>>

WatcherBroadcast ==
    /\ cancelled
    /\ watcher = "waiting"
    /\ watcher' = "done"
    /\ WakeDispatcher
    /\ UNCHANGED <<queueVars, channelVars, closed, cancelled, held>>

-----------------------------------------------------------------------------
(***************************************************************************)
(* waitForNextJob and dequeueNextJobLocked.  The scan visits the customers *)
(* from nextCustomerIndex on, wrapping around, and serves the first one    *)
(* with a job; the pointer then moves just past the served customer.       *)
(***************************************************************************)
FaultyStopping == closed

Stopping == closed \/ cancelled

FaultyScannedIndex(offset) ==
    offset

ScannedIndex(offset) ==
    (nextCustomerIndex + offset) % Len(customerOrder)

ScannedCustomer(offset) ==
    customerOrder[ScannedIndex(offset) + 1]

FirstWithJobs(offset) ==
    /\ HasJobs(ScannedCustomer(offset))
    /\ \A earlier \in 0 .. offset - 1 : ~HasJobs(ScannedCustomer(earlier))

Serve(offset) ==
    LET c == ScannedCustomer(offset) IN
    /\ held' = {Head(customerQueues[c])}
    /\ customerQueues' = [customerQueues EXCEPT ![c] = Tail(@)]
    /\ nextCustomerIndex' = (ScannedIndex(offset) + 1) % Len(customerOrder)
    /\ bypassed' = [d \in Customers |->
                      IF d # c /\ QueueOf(d) # <<>> THEN bypassed[d] + 1 ELSE 0]

DequeueNextJob ==
    /\ dispatcher = "checking"
    /\ ~Stopping
    /\ \E offset \in 0 .. Len(customerOrder) - 1 :
          /\ FirstWithJobs(offset)
          /\ Serve(offset)
    /\ queuedJobCount' = queuedJobCount - 1
    /\ dispatcher' = "sending"
    /\ UNCHANGED <<customerOrder, channelVars, closed, cancelled, watcher>>

FindNothing ==
    /\ dispatcher = "checking"
    /\ ~Stopping
    /\ \A i \in DOMAIN customerOrder : ~HasJobs(customerOrder[i])
    /\ dispatcher' = "parking"
    /\ UNCHANGED <<queueVars, channelVars, closed, cancelled, held, watcher>>

ConditionWait ==
    /\ dispatcher = "parking"
    /\ dispatcher' = "parked"
    /\ UNCHANGED <<queueVars, channelVars, closed, cancelled, held, watcher>>

StopDispatcher ==
    /\ dispatcher = "checking"
    /\ Stopping
    /\ dispatcher' = "returned"
    /\ outputClosed' = TRUE
    /\ UNCHANGED <<queueVars, output, closed, cancelled, held, watcher>>

(***************************************************************************)
(* The select of Start.  When the channel has room and the context is done *)
(* either branch may run; the branch for the context drops the job.        *)
(***************************************************************************)
SendJob ==
    /\ dispatcher = "sending"
    /\ Len(output) < BufferSize
    /\ \E job \in held : output' = Append(output, job)
    /\ held' = {}
    /\ dispatcher' = "checking"
    /\ UNCHANGED <<queueVars, outputClosed, closed, cancelled, watcher>>

FaultyAbandonJob ==
    /\ dispatcher = "sending"
    /\ cancelled
    /\ held' = {}
    /\ dispatcher' = "returned"
    /\ outputClosed' = TRUE
    /\ queuedJobCount' = queuedJobCount - 1
    /\ UNCHANGED <<customerQueues, customerOrder, nextCustomerIndex, bypassed,
                   output, closed, cancelled, watcher>>

AbandonJob ==
    /\ dispatcher = "sending"
    /\ cancelled
    /\ held' = {}
    /\ dispatcher' = "returned"
    /\ outputClosed' = TRUE
    /\ UNCHANGED <<queueVars, output, closed, cancelled, watcher>>

(***************************************************************************)
(* A worker receives a job: from the buffer, also after the channel was    *)
(* closed, or, when the buffer is empty (or has no room at all), directly  *)
(* from the sending dispatcher.                                            *)
(***************************************************************************)
ReceiveBuffered ==
    /\ output # <<>>
    /\ output' = Tail(output)
    /\ UNCHANGED <<queueVars, outputClosed, closed, cancelled, dispatcher, held, watcher>>

ReceiveDirectly ==
    /\ output = <<>>
    /\ dispatcher = "sending"
    /\ held' = {}
    /\ dispatcher' = "checking"
    /\ UNCHANGED <<queueVars, channelVars, closed, cancelled, watcher>>

Receive == ReceiveBuffered \/ ReceiveDirectly

Dispatcher ==
    \/ DequeueNextJob
    \/ FindNothing
    \/ ConditionWait
    \/ StopDispatcher
    \/ SendJob
    \/ AbandonJob

Next ==
    \/ \E job \in Jobs : Enqueue(job)
    \/ Close
    \/ Cancel
    \/ WatcherBroadcast
    \/ Dispatcher
    \/ Receive

Spec == Init /\ [][Next]_vars

(***************************************************************************)
(* The Go runtime runs every runnable goroutine eventually.  Workers keep  *)
(* receiving until the context is cancelled; afterwards they may leave.    *)
(* Nothing forces anyone to enqueue, close or cancel.                      *)
(***************************************************************************)
Fairness ==
    /\ WF_vars(Dispatcher)
    /\ WF_vars(WatcherBroadcast)
    /\ WF_vars(~cancelled /\ Receive)

FairSpec == Spec /\ Fairness

-----------------------------------------------------------------------------
(***************************************************************************)
(* Types.  A partial map from customers to queues.                         *)
(***************************************************************************)
TypeOK ==
    /\ DOMAIN customerQueues \subseteq Customers
    /\ customerQueues \in [DOMAIN customerQueues -> Seq(Jobs)]
    /\ customerOrder \in Seq(Customers)
    /\ nextCustomerIndex \in Nat
    /\ queuedJobCount \in Nat
    /\ closed \in BOOLEAN
    /\ cancelled \in BOOLEAN
    /\ dispatcher \in DispatcherStates
    /\ held \in SUBSET Jobs
    /\ watcher \in {"waiting", "done"}
    /\ output \in Seq(Jobs)
    /\ outputClosed \in BOOLEAN
    /\ bypassed \in [Customers -> Nat]

(***************************************************************************)
(* The rotation visits exactly the customers that have a queue, each once  *)
(* (Enqueue, line 61), and the pointer stays inside it although the        *)
(* rotation grows between two scans (lines 109-125).                       *)
(***************************************************************************)
RotationMatchesQueues ==
    /\ {customerOrder[i] : i \in DOMAIN customerOrder} = DOMAIN customerQueues
    /\ \A i, k \in DOMAIN customerOrder : customerOrder[i] = customerOrder[k] => i = k
    /\ nextCustomerIndex < Len(customerOrder) \/ nextCustomerIndex = 0

(***************************************************************************)
(* QueueDepth(), which the poller's back-pressure reads, is the number of  *)
(* jobs waiting in the customers' queues (lines 66, 89 and 97-102).        *)
(***************************************************************************)
DepthCountsQueuedJobs ==
    queuedJobCount = Cardinality(Queued)

(***************************************************************************)
(* Round-robin fairness of dequeueNextJobLocked: while a customer has a    *)
(* job waiting, at most one job of every other known customer is taken     *)
(* before its own, however many jobs the others have and whichever         *)
(* customers join meanwhile.                                               *)
(***************************************************************************)
BoundedBypass ==
    \A c \in DOMAIN customerQueues :
        HasJobs(c) => bypassed[c] <= Len(customerOrder) - 1

(***************************************************************************)
(* The scheduler implements the job pool the notifier is modelled with: a  *)
(* job is in one place at a time, jobs are dispatched only between Start   *)
(* and Close or cancellation, and never more than the channel and the      *)
(* dispatcher can hold.                                                    *)
(***************************************************************************)
Pool == INSTANCE JobPool WITH
            scheduled <- Queued,
            dispatched <- held \cup InChannel,
            running <- ~(closed \/ cancelled)

ImplementsJobPool == Pool!Spec

(***************************************************************************)
(* No job starves: a queued job leaves the scheduler for a worker unless   *)
(* the scheduler is told to stop, even if others enqueue forever.          *)
(***************************************************************************)
NoJobStarves ==
    \A j \in Jobs : j \in Queued ~> (j \notin InScheduler \/ Stopping)

(***************************************************************************)
(* Close() ends the dispatcher and closes the workers' channel, wherever   *)
(* the dispatcher is at that moment (runtime.go calls Close on every exit).*)
(***************************************************************************)
CloseClosesOutput ==
    closed ~> outputClosed

(***************************************************************************)
(* What round_robin_additional_test.go says of Start: the output channel   *)
(* closes after context cancellation, with no call of Close.               *)
(***************************************************************************)
CancelClosesOutput ==
    cancelled ~> outputClosed
=============================================================================

----------------------------- MODULE FairnessRun -----------------------------
(***************************************************************************)
(* The benchmark runs, three ways to drive the scheduler of                *)
(* RoundRobinScheduler to the end of a scenario.                           *)
(*   "app"         RunInMemoryFairnessScenario: the real poller and        *)
(*                 workers over an in-memory queue and a delivery client   *)
(*                 that always succeeds (benchmark_runner.go).             *)
(*                 It starts after enqueueEvents has stored all events.    *)
(*   "scheduler"   runSchedulerFairnessWorkerRun: its own workers over the *)
(*                 scheduler alone (cmd/scheduler-benchmark).              *)
(*   "throughput"  one iteration of runScenarioBenchmark, where the main   *)
(*                 goroutine enqueues and receives every job itself.       *)
(***************************************************************************)
EXTENDS RoundRobinScheduler

CONSTANTS
    Workers,
    ClaimBatchSize,         \* max(128, 64 * WorkerCount) in the code
    ScheduledQueueLimit,    \* 10 * WorkerCount in the code
    EarlyCompletionWindow,  \* of the scenario, before it is clamped
    AppBufferSize,          \* max(128, 64 * WorkerCount) in the code
    CustomerSegments        \* "whale" or "non-whale"

ASSUME FairnessRunAssumption ==
    /\ IsFiniteSet(Jobs) /\ Jobs \subseteq Nat      \* queueItemIDs
    /\ IsFiniteSet(Customers)
    /\ IsFiniteSet(Workers) /\ Workers # {}
    /\ ClaimBatchSize \in Nat \ {0}
    /\ ScheduledQueueLimit \in Nat \ {0}
    /\ EarlyCompletionWindow \in Int
    /\ AppBufferSize \in 0 .. BufferSize
    /\ BufferSize = Cardinality(Jobs)     \* of the modes without a poller
    /\ CustomerSegments \in [Customers -> {"whale", "non-whale"}]

VARIABLES
    mode,                   \* which of the three runs this is
    status,                 \* status of each queue item
    poller,                 \* "polling" or "done"
    claimed,                \* jobs a loop around Enqueue has still to hand over, in order
    worker,                 \* state of each worker
    job,                    \* its job: a set of at most one
    stamp,                  \* its completedAt
    clock,                  \* time.Now(): the number of completedAt read so far
    deliveryGroup,          \* counter of the WaitGroup of deliveries
    totalCompleted,
    completionCounts,
    firstCompletionTimes,   \* 0 before the first completion
    finishCompletionTimes,  \* 0 before the last
    earlyCompletionCounts,
    main,                   \* program counter of the run
    stamps,                 \* history: completedAt of the customer's deliveries
    overtaken               \* history: jobs of others taken while the job waited

schedulerVars == vars
summaryVars == <<totalCompleted, completionCounts, firstCompletionTimes, finishCompletionTimes,
                 earlyCompletionCounts>>
workerVars == <<worker, job, stamp, clock, stamps, overtaken>>
runVars == <<schedulerVars, mode, status, poller, claimed, workerVars, deliveryGroup, summaryVars, main>>

WorkerStates == {"idle", "delivering", "reporting", "reported", "marking", "done"}

EventsPerCustomer == [c \in Customers |-> Cardinality({j \in Jobs : CustomerOf[j] = c})]

TotalJobCount == Cardinality(Jobs)

EarlyWindow ==
    IF EarlyCompletionWindow <= 0 \/ EarlyCompletionWindow > TotalJobCount
      THEN TotalJobCount ELSE EarlyCompletionWindow

Modes == {"app", "scheduler", "throughput"}

OutputCapacity == IF mode = "app" THEN AppBufferSize ELSE BufferSize

SummaryInit ==
    /\ deliveryGroup = TotalJobCount
    /\ totalCompleted = 0
    /\ completionCounts = [c \in Customers |-> 0]
    /\ firstCompletionTimes = [c \in Customers |-> 0]
    /\ finishCompletionTimes = [c \in Customers |-> 0]
    /\ earlyCompletionCounts = [c \in Customers |-> 0]

RunInit ==
    /\ Init
    /\ mode \in Modes
    /\ status = [j \in Jobs |-> IF mode = "app" THEN "pending" ELSE "claimed"]
    /\ poller = IF mode = "app" THEN "polling" ELSE "done"
    /\ claimed = IF mode = "app" THEN {} ELSE Jobs
    /\ worker = [w \in Workers |-> IF mode = "throughput" THEN "done" ELSE "idle"]
    /\ job = [w \in Workers |-> {}]
    /\ stamp = [w \in Workers |-> 0]
    /\ clock = 0
    /\ SummaryInit
    /\ main = "delivering"
    /\ stamps = [c \in Customers |-> {}]
    /\ overtaken = [j \in Jobs |-> 0]

-----------------------------------------------------------------------------
(***************************************************************************)
(* runQueuePoller over benchmarkQueue.  The claim sorts by available_at,   *)
(* which grows with the ID, ignores the context and cannot fail.  A poll   *)
(* that finds the scheduler full, or no pending item, changes nothing.     *)
(* With claimed = {} the poller is at its select, which takes either       *)
(* branch when the ticker and the context are both ready.                  *)
(*                                                                         *)
(* A batch is sorted by ID, and so are the jobs of newScenario: the loop   *)
(* around Enqueue always hands over the least job left.                    *)
(***************************************************************************)
Claimable ==
    LET pending == {j \in Jobs : status[j] = "pending"} IN
    {j \in pending : Cardinality({k \in pending : k < j}) < ClaimBatchSize}

MarkClaimed(S) == status' = [j \in Jobs |-> IF j \in S THEN "claimed" ELSE status[j]]

FaultyClaimedDeliveries ==
    {j \in Claimable : \E k \in Claimable : k < j}

ClaimedDeliveries == Claimable

ClaimAvailableDeliveries ==
    /\ poller = "polling"
    /\ claimed = {}
    /\ MutexFree
    /\ queuedJobCount < ScheduledQueueLimit
    /\ Claimable # {}
    /\ MarkClaimed(Claimable)
    /\ claimed' = ClaimedDeliveries
    /\ UNCHANGED <<mode, schedulerVars, poller, workerVars, deliveryGroup, summaryVars, main>>

EnqueueNext ==
    /\ \E j \in claimed :
          /\ \A k \in claimed : j <= k
          /\ Enqueue(j)
          /\ claimed' = claimed \ {j}
    /\ UNCHANGED <<mode, status, poller, workerVars, deliveryGroup, summaryVars, main>>

StopPoller ==
    /\ poller = "polling"
    /\ claimed = {}
    /\ cancelled
    /\ poller' = "done"
    /\ UNCHANGED <<mode, schedulerVars, status, claimed, workerVars, deliveryGroup, summaryVars, main>>

-----------------------------------------------------------------------------
(***************************************************************************)
(* The workers.  Mode "app" runs runWorker: Deliver reads the clock, then  *)
(* calls onCompletion, which takes its mutex for the summary and calls     *)
(* deliveryGroup.Done() after it; then the worker marks the item.  The     *)
(* workers of mode "scheduler" read the clock under the mutex and have     *)
(* nothing to mark.                                                        *)
(***************************************************************************)
TakeJob(w) ==
    /\ worker[w] = "idle"
    /\ \/ ReceiveBuffered /\ job' = [job EXCEPT ![w] = {Head(output)}]
       \/ ReceiveDirectly /\ job' = [job EXCEPT ![w] = held]
    /\ overtaken' = [j \in Jobs |->
                       IF j \in InScheduler /\ \A k \in job'[w] : CustomerOf[k] # CustomerOf[j]
                         THEN overtaken[j] + 1 ELSE overtaken[j]]
    /\ worker' = [worker EXCEPT ![w] = "delivering"]
    /\ UNCHANGED <<mode, status, poller, claimed, stamp, clock, stamps, deliveryGroup, summaryVars, main>>

LeaveWorker(w) ==
    /\ worker[w] = "idle"
    /\ cancelled \/ (outputClosed /\ output = <<>>)
    /\ worker' = [worker EXCEPT ![w] = "done"]
    /\ UNCHANGED <<mode, schedulerVars, status, poller, claimed, job, stamp, clock, stamps, overtaken,
                   deliveryGroup, summaryVars, main>>

\* time.Now() for the completion of worker w's job.
ReadClock(w) ==
    /\ clock' = clock + 1
    /\ stamp' = [stamp EXCEPT ![w] = clock']
    /\ \E j \in job[w] : stamps' = [stamps EXCEPT ![CustomerOf[j]] = @ \cup {clock'}]

Deliver(w) ==
    /\ mode = "app"
    /\ worker[w] = "delivering"
    /\ worker' = [worker EXCEPT ![w] = "reporting"]
    /\ ReadClock(w)
    /\ UNCHANGED <<mode, schedulerVars, status, poller, claimed, job, overtaken, deliveryGroup, summaryVars, main>>

FaultyIsFirst(c) == TRUE

IsFirst(c) == completionCounts[c] = 0

FaultyIsLast(c) == completionCounts[c] = EventsPerCustomer[c]

IsLast(c) == completionCounts[c] + 1 = EventsPerCustomer[c]

OnCompletion(w) ==
    \E c \in {CustomerOf[j] : j \in job[w]} :
        /\ \/ mode = "app" /\ worker[w] = "reporting" /\ UNCHANGED <<clock, stamp, stamps>>
           \/ mode = "scheduler" /\ worker[w] = "delivering" /\ ReadClock(w)
        /\ worker' = [worker EXCEPT ![w] = "reported"]
        /\ totalCompleted' = totalCompleted + 1
        /\ completionCounts' = [completionCounts EXCEPT ![c] = @ + 1]
        /\ firstCompletionTimes' = [firstCompletionTimes EXCEPT ![c] = IF IsFirst(c) THEN (stamp')[w] ELSE @]
        /\ earlyCompletionCounts' =
             [earlyCompletionCounts EXCEPT ![c] = IF totalCompleted + 1 <= EarlyWindow THEN @ + 1 ELSE @]
        /\ finishCompletionTimes' = [finishCompletionTimes EXCEPT ![c] = IF IsLast(c) THEN stamp'[w] ELSE @]
        /\ UNCHANGED <<mode, schedulerVars, status, poller, claimed, job, overtaken, deliveryGroup, main>>

FinishJob(w) ==
    /\ worker' = [worker EXCEPT ![w] = "idle"]
    /\ status' = [j \in Jobs |-> IF j \in job[w] THEN "completed" ELSE status[j]]
    /\ job' = [job EXCEPT ![w] = {}]
    /\ stamp' = [stamp EXCEPT ![w] = 0]

DeliveryDone(w) ==
    /\ worker[w] = "reported"
    /\ deliveryGroup' = deliveryGroup - 1
    /\ \/ mode = "app" /\ worker' = [worker EXCEPT ![w] = "marking"] /\ UNCHANGED <<status, job, stamp>>
       \/ mode = "scheduler" /\ FinishJob(w)
    /\ UNCHANGED <<mode, schedulerVars, poller, claimed, clock, stamps, overtaken, summaryVars, main>>

MarkDelivered(w) ==
    /\ worker[w] = "marking"
    /\ FinishJob(w)
    /\ UNCHANGED <<mode, schedulerVars, poller, claimed, clock, stamps, overtaken, deliveryGroup, summaryVars, main>>

-----------------------------------------------------------------------------
(***************************************************************************)
(* runScenarioBenchmark: the main goroutine receives as many jobs as it    *)
(* has enqueued (deliveryGroup stands for the loop's counter), and after   *)
(* Close and cancel ranges over the channel until it is closed.            *)
(***************************************************************************)
ReceiveJob ==
    /\ mode = "throughput"
    /\ main \in {"delivering", "waiting"}
    /\ claimed = {}
    /\ main = "delivering" => deliveryGroup > 0
    /\ \/ ReceiveBuffered /\ status' = [status EXCEPT ![Head(output)] = "completed"]
       \/ ReceiveDirectly /\ status' = [j \in Jobs |-> IF j \in held THEN "completed" ELSE status[j]]
    /\ deliveryGroup' = IF main = "delivering" THEN deliveryGroup - 1 ELSE deliveryGroup
    /\ UNCHANGED <<mode, poller, claimed, workerVars, summaryVars, main>>

(***************************************************************************)
(* The end of a run: deliveryGroup.Wait(), then Close and cancel, in mode  *)
(* "app" the other way round, then workerGroup.Wait().  Nobody waits for   *)
(* the dispatcher, but in mode "throughput" for its close of the channel.  *)
(***************************************************************************)
EndDeliveries ==
    /\ main = "delivering"
    /\ deliveryGroup = 0
    /\ \/ mode = "app" /\ Cancel
       \/ mode # "app" /\ Close
    /\ main' = "closing"
    /\ UNCHANGED <<mode, status, poller, claimed, workerVars, deliveryGroup, summaryVars>>

EndScheduler ==
    /\ main = "closing"
    /\ \/ mode = "app" /\ Close
       \/ mode # "app" /\ Cancel
    /\ main' = "waiting"
    /\ UNCHANGED <<mode, status, poller, claimed, workerVars, deliveryGroup, summaryVars>>

FaultyWaitForGroup ==
    /\ main = "waiting"
    /\ main' = "returned"
    /\ UNCHANGED <<mode, schedulerVars, status, poller, claimed, workerVars, deliveryGroup, summaryVars>>

WaitForGroup ==
    /\ main = "waiting"
    /\ poller = "done"
    /\ \A w \in Workers : worker[w] = "done"
    /\ mode = "throughput" => outputClosed /\ output = <<>>
    /\ main' = "returned"
    /\ UNCHANGED <<mode, schedulerVars, status, poller, claimed, workerVars, deliveryGroup, summaryVars>>

(***************************************************************************)
(* analyzeFairnessRun: the verdict the report prints.  The averages beside *)
(* it are left out.                                                        *)
(***************************************************************************)
FinishTimes(segment) ==
    {finishCompletionTimes[c] : c \in {d \in Customers : CustomerSegments[d] = segment}}

NonWhalesFinishedBeforeWhales ==
    /\ FinishTimes("whale") # {} /\ FinishTimes("non-whale") # {}
    /\ \A t \in FinishTimes("non-whale"), u \in FinishTimes("whale") : t < u

SchedulerStep ==
    /\ Dispatcher \/ WatcherBroadcast
    /\ Len(output') <= OutputCapacity
    /\ UNCHANGED <<mode, status, poller, claimed, workerVars, deliveryGroup, summaryVars, main>>

Poller == ClaimAvailableDeliveries \/ EnqueueNext \/ StopPoller

Worker(w) ==
    TakeJob(w) \/ LeaveWorker(w) \/ Deliver(w) \/ OnCompletion(w) \/ DeliveryDone(w) \/ MarkDelivered(w)

Main == ReceiveJob \/ EndDeliveries \/ EndScheduler \/ WaitForGroup

RunNext ==
    \/ SchedulerStep
    \/ Poller
    \/ \E w \in Workers : Worker(w)
    \/ Main

RunSpec == RunInit /\ [][RunNext]_runVars

(***************************************************************************)
(* Every goroutine that can run does.  The poller's select chooses at      *)
(* random among its ready branches, so it does not miss Done() forever.    *)
(***************************************************************************)
FairRunSpec ==
    /\ RunSpec
    /\ WF_runVars(SchedulerStep)
    /\ WF_runVars(Poller)
    /\ \A w \in Workers : WF_runVars(Worker(w))
    /\ WF_runVars(Main)

-----------------------------------------------------------------------------
\* <<c, k>> is the k-th of the counts[c] things of c: the sum of counts is its size.
CountedOut(counts) == UNION {{c} \X (1 .. counts[c]) : c \in DOMAIN counts}

(***************************************************************************)
(* What a run reports is final when it returns: every job has been         *)
(* received, and marked where there is a queue; each customer has all its  *)
(* completions, and the early completions fill the window, so the shares   *)
(* add up to one.                                                          *)
(***************************************************************************)
SummaryIsComplete ==
    main = "returned" =>
        /\ \A j \in Jobs : status[j] = "completed"
        /\ mode # "throughput" =>
              /\ completionCounts = EventsPerCustomer
              /\ EarlyWindow = Cardinality(CountedOut(earlyCompletionCounts))
              /\ \A c \in Customers : EventsPerCustomer[c] > 0 =>
                    firstCompletionTimes[c] > 0 /\ finishCompletionTimes[c] > 0

(***************************************************************************)
(* The verdict "non-whales fully finished before the first whale finished" *)
(* (fairness_analysis.go:103) is printed exactly when there are customers  *)
(* of both kinds and every completion of a non-whale came before the last  *)
(* completion of every whale.  Mode "app" is excepted: its finish time is  *)
(* read before the mutex and may be older than the customer's last         *)
(* completion, so its verdict can be wrong.                                *)
(***************************************************************************)
VerdictIsSound ==
    main = "returned" /\ mode = "scheduler" =>
        LET whales == {c \in Customers : CustomerSegments[c] = "whale"}
            others == Customers \ whales
        IN  NonWhalesFinishedBeforeWhales <=>
                /\ whales # {} /\ others # {}
                /\ \A c \in others, d \in whales :
                      \E u \in stamps[d] : \A t \in stamps[c] : t < u

(***************************************************************************)
(* completedAt is read before completionMutex is taken, so workers may     *)
(* record their times in another order than they read them (lines 80-95).  *)
(* The first-finish time of a customer still has fewer completions before  *)
(* it than there are workers.  The finish time has no such bound: a worker *)
(* delayed before the mutex records an old time as the last one.           *)
(***************************************************************************)
FirstFinishIsNearlyFirst ==
    \A c \in Customers :
        Cardinality({t \in stamps[c] : t < firstCompletionTimes[c]}) < Cardinality(Workers)

(***************************************************************************)
(* The fairness the benchmark is run to show, from the poller to the       *)
(* workers: before a job starts, workers start at most one job of every    *)
(* other customer per job of its own customer, plus what the channel and   *)
(* the dispatcher already held, however many jobs a whale queued first.    *)
(***************************************************************************)
StartIsFair ==
    \A j \in Jobs :
        overtaken[j] <= OutputCapacity + 1 + EventsPerCustomer[CustomerOf[j]] * (Cardinality(Customers) - 1)

(***************************************************************************)
(* A run returns: all deliveries are made, the poller and all workers      *)
(* leave, whatever the dispatcher does with the cancellation, and the      *)
(* range over the channel of mode "throughput" ends.                       *)
(***************************************************************************)
ScenarioReturns == <>(main = "returned")
=============================================================================

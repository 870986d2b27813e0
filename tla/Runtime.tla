------------------------------- MODULE Runtime -------------------------------
(***************************************************************************)
(* The goroutines of one notifier process (cmd/notifier/main.go, app.go    *)
(* and runtime.go of internal/notifier): main with NewApplication and Run, *)
(* the queue poller, the HTTP server with its handlers, the scheduler's    *)
(* dispatcher and the workers, from the start of main to its exit, when    *)
(* every goroutine is gone.                                                *)
(***************************************************************************)
EXTENDS Integers, FiniteSets, Sequences

CONSTANTS
    Workers,      \* worker goroutines, config.WorkerCount of them
    BufferSize,   \* capacity of the scheduler's output channel
    MaxRequests,  \* bound: HTTP requests in flight at once
    Failures      \* what may fail by itself, subset of FailureKinds

FailureKinds == {"startup", "listen", "claim", "close"}

ASSUME RuntimeAssumption ==
    /\ IsFiniteSet(Workers)
    /\ BufferSize \in Nat
    /\ MaxRequests \in Nat
    /\ Failures \subseteq FailureKinds

VARIABLES
    cancelled,        \* SIGINT or SIGTERM has cancelled requestContext
    main,             \* program counter of main, NewApplication, Run and shutdown
    outcome,          \* the error they are going to return
    worker,           \* state of each worker
    workerGroup,      \* counter of Run's sync.WaitGroup
    waitedGroup,      \* counter of the copy that shutdown received by value
    ready,            \* jobs in the output channel and in the dispatcher's hand
    outputClosed,     \* the dispatcher has returned
    schedulerClosed,  \* scheduler.Close() was called
    poller,           \* state of runQueuePoller
    queueErrors,      \* channel of capacity one
    server,           \* state of ListenAndServe
    serverErrors,     \* channel of capacity one
    requests,         \* HTTP requests in flight
    databaseOpen      \* handles opened and not yet closed

runVars == <<main, outcome, waitedGroup, schedulerClosed, databaseOpen>>
workerVars == <<worker, workerGroup, ready>>
pollerVars == <<poller, queueErrors>>
serverVars == <<server, serverErrors, requests>>
vars == <<cancelled, runVars, workerVars, outputClosed, pollerVars, serverVars>>

Errors == {"nil", "error"}

\* What main and NewApplication do in turn before Run.
StartupOrder == <<"loadingConfig", "openingRegistry", "pinging", "openingWorkQueue",
                  "ensuringSchema", "starting">>

Startup == {StartupOrder[i] : i \in DOMAIN StartupOrder}

MainStates == Startup \cup
    {"selecting", "closingScheduler", "shuttingDown", "draining", "closingRegistry",
     "closingWorkQueue", "waiting", "returned"}

Init ==
    /\ cancelled = FALSE
    /\ main = StartupOrder[1]
    /\ outcome = "nil"
    /\ worker = [w \in Workers |-> "unborn"]
    /\ workerGroup = 0
    /\ waitedGroup = 0
    /\ ready = 0
    /\ outputClosed = FALSE
    /\ schedulerClosed = FALSE
    /\ poller = "unborn"
    /\ queueErrors = {}
    /\ server = "unborn"
    /\ serverErrors = {}
    /\ requests = 0
    /\ databaseOpen = {}

\* The return of main ends the process and all its goroutines.
Running == main # "returned"

-----------------------------------------------------------------------------
(***************************************************************************)
(* Startup.  An error is fatal at once, and what was opened stays open; a  *)
(* signal before NotifyContext is installed kills the process as well.     *)
(* Run starts the workers, the listener and the poller.                    *)
(***************************************************************************)
Opened(step) ==
    CASE step = "openingRegistry" -> {"registry"}
      [] step = "openingWorkQueue" -> {"workQueue"}
      [] OTHER -> {}

Initialize(i) ==
    /\ main = StartupOrder[i]
    /\ main' = StartupOrder[i + 1]
    /\ databaseOpen' = databaseOpen \cup Opened(main)
    /\ UNCHANGED <<cancelled, outcome, waitedGroup, schedulerClosed,
                   workerVars, outputClosed, pollerVars, serverVars>>

FailStartup ==
    /\ main \in Startup
    /\ "startup" \in Failures
    /\ main' = "returned"
    /\ outcome' = "error"
    /\ UNCHANGED <<cancelled, waitedGroup, schedulerClosed, databaseOpen,
                   workerVars, outputClosed, pollerVars, serverVars>>

StartRuntime ==
    /\ main = "starting"
    /\ main' = "selecting"
    /\ worker' = [w \in Workers |-> "idle"]
    /\ workerGroup' = Cardinality(Workers)
    /\ poller' = "claiming"
    /\ server' = "serving"
    /\ UNCHANGED <<cancelled, outcome, waitedGroup, schedulerClosed, databaseOpen,
                   ready, outputClosed, queueErrors, serverErrors, requests>>

Cancel ==
    /\ Running
    /\ main \notin Startup
    /\ ~cancelled
    /\ cancelled' = TRUE
    /\ UNCHANGED <<runVars, workerVars, outputClosed, pollerVars, serverVars>>

-----------------------------------------------------------------------------
(***************************************************************************)
(* The dispatcher.  It surely returns once Close was called; cancelling    *)
(* alone may be missed (CancelClosesOutput of RoundRobinScheduler).  When  *)
(* cancelled it may drop the job in its hand.                              *)
(***************************************************************************)
FaultyDispatchJob ==
    /\ Running
    /\ main \notin Startup
    /\ ~schedulerClosed /\ ~outputClosed
    /\ ready <= BufferSize
    /\ ready' = ready + 1
    /\ UNCHANGED <<cancelled, runVars, worker, workerGroup, outputClosed, pollerVars, serverVars>>

DispatchJob ==
    /\ Running
    /\ main \notin Startup
    /\ ~cancelled /\ ~schedulerClosed /\ ~outputClosed
    /\ ready <= BufferSize
    /\ ready' = ready + 1
    /\ UNCHANGED <<cancelled, runVars, worker, workerGroup, outputClosed, pollerVars, serverVars>>

CloseOutput ==
    /\ Running
    /\ cancelled \/ schedulerClosed
    /\ ~outputClosed
    /\ outputClosed' = TRUE
    /\ ready' \in {ready} \cup (IF cancelled THEN {ready - 1} ELSE {})
    /\ ready' \in 0 .. BufferSize
    /\ UNCHANGED <<cancelled, runVars, worker, workerGroup, pollerVars, serverVars>>

(***************************************************************************)
(* runWorker.  A select with two ready branches takes either.              *)
(***************************************************************************)
TakeJob(w) ==
    /\ Running
    /\ worker[w] = "idle"
    /\ ready > 0
    /\ worker' = [worker EXCEPT ![w] = "delivering"]
    /\ ready' = ready - 1
    /\ UNCHANGED <<cancelled, runVars, workerGroup, outputClosed, pollerVars, serverVars>>

FinishJob(w) ==
    /\ Running
    /\ worker[w] = "delivering"
    /\ worker' = [worker EXCEPT ![w] = "idle"]
    /\ UNCHANGED <<cancelled, runVars, workerGroup, ready, outputClosed, pollerVars, serverVars>>

LeaveWorker(w) ==
    /\ Running
    /\ worker[w] = "idle"
    /\ cancelled \/ (outputClosed /\ ready = 0)
    /\ worker' = [worker EXCEPT ![w] = "done"]
    /\ workerGroup' = workerGroup - 1
    /\ UNCHANGED <<cancelled, runVars, ready, outputClosed, pollerVars, serverVars>>

-----------------------------------------------------------------------------
(***************************************************************************)
(* runQueuePoller and pollQueue.  Between two polls the select may take    *)
(* the ticker although the context is done.  A claim fails when the        *)
(* context is cancelled under it, and still returns nil when it finished   *)
(* before, or when the scheduled queue was full.                           *)
(***************************************************************************)
Poll ==
    /\ Running
    /\ poller = "idle"
    /\ poller' = "claiming"
    /\ UNCHANGED <<cancelled, runVars, workerVars, outputClosed, queueErrors, serverVars>>

FinishPoll ==
    /\ Running
    /\ poller = "claiming"
    /\ poller' = "idle"
    /\ UNCHANGED <<cancelled, runVars, workerVars, outputClosed, queueErrors, serverVars>>

EndPoller(error) ==
    /\ poller' = "done"
    /\ queueErrors' = {error}
    /\ UNCHANGED <<cancelled, runVars, workerVars, outputClosed, serverVars>>

FailPoll ==
    /\ Running
    /\ poller = "claiming"
    /\ cancelled \/ "claim" \in Failures
    /\ EndPoller("error")

StopPoller ==
    /\ Running
    /\ poller = "idle"
    /\ cancelled
    /\ EndPoller("nil")

-----------------------------------------------------------------------------
(***************************************************************************)
(* serveHTTP and the handlers of its requests.                             *)
(***************************************************************************)
FailListen ==
    /\ Running
    /\ server = "serving"
    /\ "listen" \in Failures
    /\ server' = "done"
    /\ serverErrors' = {"error"}
    /\ UNCHANGED <<cancelled, runVars, workerVars, outputClosed, pollerVars, requests>>

StopListening ==
    /\ Running
    /\ server = "closing"
    /\ server' = "done"
    /\ serverErrors' = {"nil"}
    /\ UNCHANGED <<cancelled, runVars, workerVars, outputClosed, pollerVars, requests>>

BeginRequest ==
    /\ Running
    /\ server = "serving"
    /\ requests < MaxRequests
    /\ requests' = requests + 1
    /\ UNCHANGED <<cancelled, runVars, workerVars, outputClosed, pollerVars, server, serverErrors>>

EndRequest ==
    /\ Running
    /\ requests > 0
    /\ requests' = requests - 1
    /\ UNCHANGED <<cancelled, runVars, workerVars, outputClosed, pollerVars, server, serverErrors>>

-----------------------------------------------------------------------------
(***************************************************************************)
(* Run: waitForRuntimeCompletion, whose select takes any ready branch,     *)
(* then scheduler.Close().  After an error Run returns at once; otherwise  *)
(* it passes its WaitGroup BY VALUE to shutdown (line 32).                 *)
(***************************************************************************)
SelectDone ==
    /\ main = "selecting"
    /\ cancelled
    /\ main' = "closingScheduler"
    /\ UNCHANGED <<cancelled, outcome, waitedGroup, schedulerClosed, databaseOpen,
                   workerVars, outputClosed, pollerVars, serverVars>>

SelectServerError ==
    /\ main = "selecting"
    /\ outcome' \in serverErrors
    /\ serverErrors' = {}
    /\ main' = "closingScheduler"
    /\ UNCHANGED <<cancelled, waitedGroup, schedulerClosed, databaseOpen,
                   workerVars, outputClosed, pollerVars, server, requests>>

FaultySelectQueueError ==
    /\ main = "selecting"
    /\ queueErrors # {}
    /\ outcome' = outcome
    /\ queueErrors' = {}
    /\ main' = "closingScheduler"
    /\ UNCHANGED <<cancelled, waitedGroup, schedulerClosed, databaseOpen,
                   workerVars, outputClosed, poller, serverVars>>

SelectQueueError ==
    /\ main = "selecting"
    /\ outcome' \in queueErrors
    /\ queueErrors' = {}
    /\ main' = "closingScheduler"
    /\ UNCHANGED <<cancelled, waitedGroup, schedulerClosed, databaseOpen,
                   workerVars, outputClosed, poller, serverVars>>

FaultyCloseScheduler ==
    /\ main = "closingScheduler"
    /\ schedulerClosed' = TRUE
    /\ IF outcome = "error"
          THEN main' = "returned" /\ UNCHANGED waitedGroup
          ELSE main' = "shuttingDown" /\ waitedGroup' = Cardinality(Workers)
    /\ UNCHANGED <<cancelled, outcome, databaseOpen, workerVars, outputClosed, pollerVars, serverVars>>

CloseScheduler ==
    /\ main = "closingScheduler"
    /\ schedulerClosed' = TRUE
    /\ IF outcome = "error"
          THEN main' = "returned" /\ UNCHANGED waitedGroup
          ELSE main' = "shuttingDown" /\ waitedGroup' = workerGroup
    /\ UNCHANGED <<cancelled, outcome, databaseOpen, workerVars, outputClosed, pollerVars, serverVars>>

(***************************************************************************)
(* shutdown: httpServer.Shutdown stops the listener and waits for the      *)
(* requests in flight, up to ShutdownTimeout; then both database handles   *)
(* are closed; then Wait on the copy of the WaitGroup.  The first error is *)
(* returned at the end.                                                    *)
(***************************************************************************)
ShutdownServer ==
    /\ main = "shuttingDown"
    /\ main' = "draining"
    /\ server' = IF server = "serving" THEN "closing" ELSE server
    /\ UNCHANGED <<cancelled, outcome, waitedGroup, schedulerClosed, databaseOpen,
                   workerVars, outputClosed, pollerVars, serverErrors, requests>>

FaultyDrained == TRUE

Drained == requests = 0

FinishDraining ==
    /\ main = "draining"
    /\ main' = "closingRegistry"
    /\ \/ Drained /\ UNCHANGED outcome
       \/ requests > 0 /\ outcome' = "error"
    /\ UNCHANGED <<cancelled, waitedGroup, schedulerClosed, databaseOpen,
                   workerVars, outputClosed, pollerVars, serverVars>>

CloseHandle(handle, from, to) ==
    /\ main = from
    /\ main' = to
    /\ databaseOpen' = databaseOpen \ {handle}
    /\ outcome' \in {outcome} \cup (IF "close" \in Failures THEN {"error"} ELSE {})
    /\ UNCHANGED <<cancelled, waitedGroup, schedulerClosed,
                   workerVars, outputClosed, pollerVars, serverVars>>

CloseRegistry == CloseHandle("registry", "closingRegistry", "closingWorkQueue")

CloseWorkQueue == CloseHandle("workQueue", "closingWorkQueue", "waiting")

FaultyWaitForWorkers ==
    /\ main = "waiting"
    /\ main' = "returned"
    /\ UNCHANGED <<cancelled, outcome, waitedGroup, schedulerClosed, databaseOpen,
                   workerVars, outputClosed, pollerVars, serverVars>>

WaitForWorkers ==
    /\ main = "waiting"
    /\ waitedGroup = 0
    /\ main' = "returned"
    /\ UNCHANGED <<cancelled, outcome, waitedGroup, schedulerClosed, databaseOpen,
                   workerVars, outputClosed, pollerVars, serverVars>>

-----------------------------------------------------------------------------
Run ==
    \/ \E i \in 1 .. Len(StartupOrder) - 1 : Initialize(i)
    \/ StartRuntime
    \/ SelectDone
    \/ SelectServerError
    \/ SelectQueueError
    \/ CloseScheduler
    \/ ShutdownServer
    \/ FinishDraining
    \/ CloseRegistry
    \/ CloseWorkQueue
    \/ WaitForWorkers

Poller == Poll \/ FinishPoll \/ FailPoll \/ StopPoller

RunWorker(w) == TakeJob(w) \/ FinishJob(w) \/ LeaveWorker(w)

Next ==
    \/ FailStartup
    \/ Cancel
    \/ DispatchJob
    \/ CloseOutput
    \/ \E w \in Workers : RunWorker(w)
    \/ Poller
    \/ FailListen
    \/ StopListening
    \/ BeginRequest
    \/ EndRequest
    \/ Run

Spec == Init /\ [][Next]_vars

(***************************************************************************)
(* Every runnable goroutine runs; a worker's request ends at the latest at *)
(* its timeout.  Signals, requests and failures need not come.             *)
(***************************************************************************)
Fairness ==
    /\ WF_vars(Run)
    /\ WF_vars(Poller)
    /\ WF_vars(schedulerClosed /\ CloseOutput)
    /\ WF_vars(StopListening)
    /\ \A w \in Workers : WF_vars(RunWorker(w))

FairSpec == Spec /\ Fairness

-----------------------------------------------------------------------------
(***************************************************************************)
(* Types; in particular the WaitGroup never becomes negative, which would  *)
(* panic.                                                                  *)
(***************************************************************************)
TypeOK ==
    /\ cancelled \in BOOLEAN
    /\ main \in MainStates
    /\ outcome \in Errors
    /\ worker \in [Workers -> {"unborn", "idle", "delivering", "done"}]
    /\ workerGroup \in Nat
    /\ waitedGroup \in Nat
    /\ ready \in 0 .. BufferSize + 1
    /\ outputClosed \in BOOLEAN
    /\ schedulerClosed \in BOOLEAN
    /\ poller \in {"unborn", "idle", "claiming", "done"}
    /\ queueErrors \in SUBSET Errors
    /\ server \in {"unborn", "serving", "closing", "done"}
    /\ serverErrors \in SUBSET Errors
    /\ requests \in 0 .. MaxRequests
    /\ databaseOpen \in SUBSET {"registry", "workQueue"}

(***************************************************************************)
(* Seen from outside, the goroutines behave as ProcessLife: jobs reach     *)
(* workers only between the start of Run and the signal, the database      *)
(* handle is closed only after the signal, never more jobs are out than    *)
(* the channel and the workers hold, and main's exit ends everything.      *)
(***************************************************************************)
Life == INSTANCE ProcessLife WITH
            WorkerCount <- Cardinality(Workers),
            phase <- IF main \in Startup \cup {"returned"} THEN "down"
                     ELSE IF "workQueue" \notin databaseOpen THEN "closed"
                     ELSE IF cancelled THEN "stopping" ELSE "running",
            ready <- IF Running THEN ready ELSE 0,
            busy <- IF Running THEN Cardinality({w \in Workers : worker[w] = "delivering"}) ELSE 0

ImplementsProcessLife == Life!Spec

(***************************************************************************)
(* A nil return of Run is a complete shutdown: a signal asked for it, no   *)
(* worker and no HTTP request is left, both handles are closed and the     *)
(* scheduler is.  It holds although Wait sees a copy of the counter.       *)
(***************************************************************************)
NilReturnIsComplete ==
    main = "returned" /\ outcome = "nil" =>
        /\ cancelled
        /\ \A w \in Workers : worker[w] = "done"
        /\ requests = 0
        /\ databaseOpen = {}
        /\ schedulerClosed

(***************************************************************************)
(* An HTTP handler still in flight loses its database handle only when the *)
(* drain timed out, and then Run reports an error (shutdown, lines 74-79). *)
(***************************************************************************)
HandlersKeepDatabase ==
    requests > 0 /\ databaseOpen # {"registry", "workQueue"} => outcome = "error"

(***************************************************************************)
(* A listen or claim failure stops the process: Run takes it from the      *)
(* channel and returns an error, unless a signal arrives first.            *)
(***************************************************************************)
FailureEndsRun ==
    ("error" \in serverErrors \cup queueErrors) ~>
        (main = "returned" /\ outcome = "error") \/ cancelled

(***************************************************************************)
(* When every worker has left before shutdown is called, Run returns: the  *)
(* copied counter (line 32) is the only thing that can hold it.            *)
(***************************************************************************)
ShutdownWithoutWorkersReturns ==
    (main = "closingScheduler" /\ workerGroup = 0) ~> main = "returned"

(***************************************************************************)
(* "Graceful shutdown" (docs/future/future_security_and_monitoring.md):    *)
(* a process that got its signal comes to an end.                          *)
(***************************************************************************)
SignalEndsRun ==
    cancelled ~> main = "returned"
=============================================================================

---------------------------- MODULE RuntimeProofs ----------------------------
(***************************************************************************)
(* Proofs about Runtime, for any number of workers, any capacity and any   *)
(* failures.  Order says what is open, closed, cancelled and drained at    *)
(* each point of main; Group relates the two counters of Run's WaitGroup,  *)
(* the live one and the copy in shutdown, to the workers that are left.    *)
(***************************************************************************)
EXTENDS Runtime, FiniteSetTheorems, TLAPS

(***************************************************************************)
(* Most leaves are first-order reasoning for Zenon; a leaf that needs      *)
(* arithmetic, functions or records cites SMT.                             *)
(***************************************************************************)
USE Zenon

NotDone == {w \in Workers : worker[w] # "done"}

Delivering == {w \in Workers : worker[w] = "delivering"}

ShutdownStates == {"shuttingDown", "draining", "closingRegistry", "closingWorkQueue", "waiting"}

BothHandles == {"registry", "workQueue"}

\* Before Run nothing moves but main, which opens the two handles in turn.
Unstarted ==
    /\ main = "loadingConfig" \/ main = "openingRegistry" => databaseOpen = {}
    /\ main = "pinging" \/ main = "openingWorkQueue" => databaseOpen = {"registry"}
    /\ main = "ensuringSchema" \/ main = "starting" => databaseOpen = BothHandles
    /\ main \in Startup => /\ ~cancelled /\ ~schedulerClosed
                           /\ outcome = "nil" /\ ready = 0 /\ requests = 0
                           /\ server = "unborn" /\ poller = "unborn"
                           /\ queueErrors = {} /\ serverErrors = {}

\* Once Run has begun.
Order ==
    /\ main \in {"selecting", "closingScheduler", "shuttingDown", "draining", "closingRegistry"}
          => databaseOpen = BothHandles
    /\ main = "closingWorkQueue" => databaseOpen = {"workQueue"}
    /\ main = "waiting" => databaseOpen = {}
    /\ main = "selecting" => outcome = "nil"
    /\ main \in ShutdownStates => cancelled /\ schedulerClosed
    /\ main = "closingScheduler" /\ outcome = "nil" => cancelled
    /\ "nil" \in queueErrors => cancelled
    /\ server = "closing" \/ "nil" \in serverErrors
          => main \notin {"selecting", "closingScheduler", "shuttingDown"}
    /\ main \in {"draining", "closingRegistry", "closingWorkQueue", "waiting"}
          => server # "serving"
    /\ main \in {"closingRegistry", "closingWorkQueue", "waiting"} /\ outcome = "nil"
          => requests = 0

\* The counters of the WaitGroup, and the workers they stand for.
Group ==
    /\ main \in Startup => \A w \in Workers : worker[w] = "unborn"
    /\ Running /\ main \notin Startup => /\ workerGroup = Cardinality(NotDone)
                                         /\ \A w \in Workers : worker[w] # "unborn"
    /\ main \in ShutdownStates /\ waitedGroup = 0 => NotDone = {}

IInv == TypeOK /\ Unstarted /\ Order /\ Group /\ NilReturnIsComplete

-----------------------------------------------------------------------------
\* The steps of main before Run, one by one.
LEMMA StartupSteps ==
    /\ Startup = {"loadingConfig", "openingRegistry", "pinging", "openingWorkQueue",
                  "ensuringSchema", "starting"}
    /\ \A i \in 1 .. Len(StartupOrder) - 1 : Initialize(i) =>
              \/ main = "loadingConfig" /\ main' = "openingRegistry"
              \/ main = "openingRegistry" /\ main' = "pinging"
              \/ main = "pinging" /\ main' = "openingWorkQueue"
              \/ main = "openingWorkQueue" /\ main' = "ensuringSchema"
              \/ main = "ensuringSchema" /\ main' = "starting"
  <1>1. /\ Len(StartupOrder) = 6 /\ DOMAIN StartupOrder = 1 .. 6
        /\ StartupOrder[1] = "loadingConfig" /\ StartupOrder[2] = "openingRegistry"
        /\ StartupOrder[3] = "pinging" /\ StartupOrder[4] = "openingWorkQueue"
        /\ StartupOrder[5] = "ensuringSchema" /\ StartupOrder[6] = "starting"
    BY SMT DEF StartupOrder
  <1>2. 1 .. 6 = {1, 2, 3, 4, 5, 6} /\ 1 .. 5 = {1, 2, 3, 4, 5}
    BY SMT
  <1>3. Startup = {"loadingConfig", "openingRegistry", "pinging", "openingWorkQueue",
                   "ensuringSchema", "starting"}
    BY <1>1, <1>2, SMT DEF Startup
  <1>4. ASSUME NEW i \in 1 .. Len(StartupOrder) - 1, Initialize(i)
        PROVE  \/ main = "loadingConfig" /\ main' = "openingRegistry"
               \/ main = "openingRegistry" /\ main' = "pinging"
               \/ main = "pinging" /\ main' = "openingWorkQueue"
               \/ main = "openingWorkQueue" /\ main' = "ensuringSchema"
               \/ main = "ensuringSchema" /\ main' = "starting"
    BY <1>1, <1>2, <1>4, SMT DEF Initialize
  <1>. QED
    BY <1>3, <1>4

\* A worker that leaves lowers the counter by one, and only its own.
LEMMA LeaveEffect ==
    ASSUME IInv, NEW w \in Workers, LeaveWorker(w)
    PROVE  /\ worker' \in [Workers -> {"unborn", "idle", "delivering", "done"}]
           /\ workerGroup' \in Nat
           /\ NotDone' = NotDone \ {w}
           /\ workerGroup' = Cardinality(NotDone')
           /\ \A v \in Workers : worker[v] # "unborn" => worker'[v] # "unborn"
  <1>1. IsFiniteSet(NotDone) /\ Cardinality(NotDone) \in Nat
    BY RuntimeAssumption, FS_Subset, FS_CardinalityType DEF NotDone
  <1>2. w \in NotDone /\ worker[w] = "idle" /\ Running
    BY DEF LeaveWorker, NotDone
  <1>3. main \notin Startup
    BY <1>2 DEF IInv, Group
  <1>4. workerGroup = Cardinality(NotDone) /\ workerGroup' = workerGroup - 1
    BY <1>2, <1>3 DEF LeaveWorker, IInv, Group
  <1>5. /\ worker' \in [Workers -> {"unborn", "idle", "delivering", "done"}]
        /\ \A v \in Workers : worker'[v] = IF v = w THEN "done" ELSE worker[v]
    BY DEF LeaveWorker, IInv, TypeOK
  <1>6. NotDone' = NotDone \ {w}
    BY <1>5 DEF NotDone
  <1>7. Cardinality(NotDone \ {w}) = Cardinality(NotDone) - 1
    BY <1>1, <1>2, FS_RemoveElement
  <1>8. Cardinality(NotDone \ {w}) \in Nat
    <2>1. IsFiniteSet(NotDone \ {w})
      BY <1>1, FS_RemoveElement
    <2>. QED
      BY <2>1, FS_CardinalityType
  <1>. QED
    BY <1>4, <1>5, <1>6, <1>7, <1>8

-----------------------------------------------------------------------------
\* NotDone follows from the workers alone.
LEMMA NotDoneUntouched ==
    ASSUME UNCHANGED worker
    PROVE  NotDone' = NotDone
  BY DEF NotDone

\* main up to the start of Run.
LEMMA StartupKeepsInv ==
    ASSUME IInv, (\E i \in 1 .. Len(StartupOrder) - 1 : Initialize(i)) \/ FailStartup \/ StartRuntime
    PROVE  IInv'
  <1>1. Startup = {"loadingConfig", "openingRegistry", "pinging", "openingWorkQueue",
                   "ensuringSchema", "starting"}
    BY StartupSteps
  <1>2. ASSUME NEW i \in 1 .. Len(StartupOrder) - 1, Initialize(i) PROVE IInv'
    <2>1. \/ main = "loadingConfig" /\ main' = "openingRegistry"
          \/ main = "openingRegistry" /\ main' = "pinging"
          \/ main = "pinging" /\ main' = "openingWorkQueue"
          \/ main = "openingWorkQueue" /\ main' = "ensuringSchema"
          \/ main = "ensuringSchema" /\ main' = "starting"
      BY <1>2, StartupSteps
    <2>2. /\ databaseOpen' = databaseOpen \cup Opened(main)
          /\ UNCHANGED <<cancelled, outcome, waitedGroup, schedulerClosed,
                         workerVars, outputClosed, pollerVars, serverVars>>
      BY <1>2 DEF Initialize
    <2>3. databaseOpen' \subseteq BothHandles /\ Unstarted'
      BY <1>1, <2>1, <2>2
         DEF IInv, TypeOK, Unstarted, Opened, BothHandles, workerVars, pollerVars, serverVars
    <2>4. TypeOK'
      BY <1>1, <2>1, <2>2, <2>3, SMT
         DEF IInv, TypeOK, MainStates, BothHandles, workerVars, pollerVars, serverVars
    <2>5. Order' /\ Group' /\ NilReturnIsComplete'
      BY <1>1, <2>1, <2>2
         DEF IInv, Unstarted, Order, Group, NilReturnIsComplete, Running, ShutdownStates,
             workerVars, pollerVars, serverVars
    <2>. QED
      BY <2>3, <2>4, <2>5 DEF IInv
  <1>3. CASE FailStartup
    <2>1. TypeOK'
      BY <1>1, <1>3 DEF IInv, TypeOK, FailStartup, MainStates, Errors,
                       workerVars, pollerVars, serverVars
    <2>2. Unstarted' /\ Order' /\ Group' /\ NilReturnIsComplete'
      BY <1>1, <1>3
         DEF IInv, FailStartup, Unstarted, Order, Group, NilReturnIsComplete, Running,
             ShutdownStates, workerVars, pollerVars, serverVars
    <2>. QED
      BY <2>1, <2>2 DEF IInv
  <1>4. CASE StartRuntime
    <2>1. IsFiniteSet(Workers) /\ Cardinality(Workers) \in Nat
      BY RuntimeAssumption, FS_CardinalityType
    <2>2. \A w \in Workers : worker'[w] = "idle"
      BY <1>4 DEF StartRuntime
    <2>3. NotDone' = Workers
      BY <2>2 DEF NotDone
    <2>4. TypeOK'
      BY <1>1, <1>4, <2>1 DEF IInv, TypeOK, StartRuntime, MainStates
    <2>5. Group'
      BY <1>1, <1>4, <2>2, <2>3 DEF StartRuntime, Group, ShutdownStates
    <2>6. Unstarted' /\ Order' /\ NilReturnIsComplete'
      BY <1>1, <1>4
         DEF IInv, StartRuntime, Unstarted, Order, NilReturnIsComplete, ShutdownStates
    <2>. QED
      BY <2>4, <2>5, <2>6 DEF IInv
  <1>. QED
    BY <1>2, <1>3, <1>4

\* The signal, the dispatcher, the poller, the listener and the handlers.
LEMMA OthersKeepInv ==
    ASSUME IInv,
           \/ Cancel \/ DispatchJob \/ CloseOutput \/ Poller
           \/ FailListen \/ StopListening \/ BeginRequest \/ EndRequest
    PROVE  IInv'
  <1>1. Startup = {"loadingConfig", "openingRegistry", "pinging", "openingWorkQueue",
                   "ensuringSchema", "starting"}
    BY StartupSteps
  <1>2. /\ main # "returned"
        /\ UNCHANGED <<runVars, worker, workerGroup>>
    BY DEF Running, Cancel, DispatchJob, CloseOutput, Poller, Poll, FinishPoll, FailPoll, StopPoller,
           EndPoller, FailListen, StopListening, BeginRequest, EndRequest, runVars, workerVars
  <1>3. main \notin Startup
    BY <1>1, SMT DEF IInv, TypeOK, Unstarted, Cancel, DispatchJob, CloseOutput, Poller, Poll, FinishPoll,
           FailPoll, StopPoller, FailListen, StopListening, BeginRequest, EndRequest,
           RuntimeAssumption
  <1>4. NotDone' = NotDone
    BY <1>2, NotDoneUntouched
  <1>5. Group' /\ Unstarted' /\ NilReturnIsComplete'
    BY <1>1, <1>2, <1>3, <1>4
       DEF IInv, Group, Unstarted, NilReturnIsComplete, Running, runVars
  <1>6. TypeOK' /\ Order'
    <2>1. CASE Cancel
      BY <1>2, <2>1, SMT
         DEF IInv, TypeOK, Order, Cancel, runVars, workerVars, pollerVars, serverVars
    <2>2. CASE DispatchJob \/ CloseOutput
      <3>1. ready' \in 0 .. BufferSize + 1 /\ outputClosed' \in BOOLEAN
        <4>1. CASE DispatchJob
          BY <4>1, RuntimeAssumption, SMT DEF IInv, TypeOK, DispatchJob
        <4>2. CASE CloseOutput
          <5>1. ready' \in 0 .. BufferSize /\ outputClosed' = TRUE
            BY <4>2 DEF CloseOutput
          <5>. QED
            BY <5>1, RuntimeAssumption, SMT
        <4>. QED
          BY <2>2, <4>1, <4>2
      <3>2. UNCHANGED <<cancelled, pollerVars, serverVars>>
        BY <2>2 DEF DispatchJob, CloseOutput
      <3>. QED
        BY <1>2, <3>1, <3>2, SMT DEF IInv, TypeOK, Order, runVars, pollerVars, serverVars
    <2>3. CASE Poller
      <3>1. /\ poller' \in {"unborn", "idle", "claiming", "done"} /\ queueErrors' \in SUBSET Errors
            /\ "nil" \in queueErrors' => cancelled
        BY <2>3 DEF IInv, TypeOK, Order, Poller, Poll, FinishPoll, FailPoll, StopPoller, EndPoller,
                    Errors
      <3>2. UNCHANGED <<cancelled, workerVars, outputClosed, serverVars>>
        BY <2>3 DEF Poller, Poll, FinishPoll, FailPoll, StopPoller, EndPoller
      <3>. QED
        BY <1>2, <3>1, <3>2, SMT DEF IInv, TypeOK, Order, runVars, workerVars, serverVars
    <2>4. CASE FailListen \/ StopListening
      <3>1. /\ server' = "done" /\ serverErrors' \in SUBSET Errors
            /\ "nil" \in serverErrors' => server = "closing"
            /\ UNCHANGED <<cancelled, workerVars, outputClosed, pollerVars, requests>>
        BY <2>4 DEF FailListen, StopListening, Errors
      <3>. QED
        BY <1>2, <3>1, SMT DEF IInv, TypeOK, Order, runVars, workerVars, pollerVars
    <2>5. CASE BeginRequest \/ EndRequest
      BY <1>2, <2>5, RuntimeAssumption, SMT
         DEF IInv, TypeOK, Order, BeginRequest, EndRequest, runVars, workerVars, pollerVars
    <2>. QED
      BY <2>1, <2>2, <2>3, <2>4, <2>5
  <1>. QED
    BY <1>5, <1>6 DEF IInv

\* The workers.
LEMMA WorkerKeepsInv ==
    ASSUME IInv, NEW w \in Workers, RunWorker(w)
    PROVE  IInv'
  <1>1. Startup = {"loadingConfig", "openingRegistry", "pinging", "openingWorkQueue",
                   "ensuringSchema", "starting"}
    BY StartupSteps
  <1>2. /\ main # "returned"
        /\ worker[w] # "unborn"
        /\ UNCHANGED <<cancelled, runVars, outputClosed, pollerVars, serverVars>>
    BY DEF Running, RunWorker, TakeJob, FinishJob, LeaveWorker
  <1>3. main \notin Startup
    BY <1>2 DEF IInv, Group
  <1>4. /\ worker' \in [Workers -> {"unborn", "idle", "delivering", "done"}]
        /\ \A v \in Workers : worker[v] # "unborn" => worker'[v] # "unborn"
        /\ NotDone' \subseteq NotDone
        /\ workerGroup' = Cardinality(NotDone') /\ workerGroup' \in Nat
        /\ ready' \in 0 .. BufferSize + 1
    <2>1. CASE TakeJob(w) \/ FinishJob(w)
      <3>1. /\ worker' \in [Workers -> {"unborn", "idle", "delivering", "done"}]
            /\ \A v \in Workers : v # w => worker'[v] = worker[v]
            /\ worker'[w] \in {"idle", "delivering"} /\ worker[w] \in {"idle", "delivering"}
            /\ UNCHANGED workerGroup
        BY <2>1 DEF TakeJob, FinishJob, IInv, TypeOK
      <3>2. NotDone' = NotDone
        BY <3>1 DEF NotDone
      <3>3. ready' \in 0 .. BufferSize + 1
        BY <2>1, RuntimeAssumption, SMT DEF TakeJob, FinishJob, IInv, TypeOK
      <3>. QED
        BY <1>2, <1>3, <3>1, <3>2, <3>3 DEF IInv, TypeOK, Group, Running
    <2>2. CASE LeaveWorker(w)
      <3>1. UNCHANGED ready
        BY <2>2 DEF LeaveWorker
      <3>. QED
        BY <2>2, <3>1, LeaveEffect DEF IInv, TypeOK
    <2>. QED
      BY <2>1, <2>2 DEF RunWorker
  <1>5. TypeOK'
    BY <1>2, <1>4 DEF IInv, TypeOK, runVars, pollerVars, serverVars
  <1>6. Group'
    BY <1>2, <1>3, <1>4 DEF IInv, Group, Running, runVars
  <1>7. Unstarted' /\ Order' /\ NilReturnIsComplete'
    BY <1>1, <1>2, <1>3
       DEF IInv, Unstarted, Order, NilReturnIsComplete, runVars, pollerVars, serverVars
  <1>. QED
    BY <1>5, <1>6, <1>7 DEF IInv

\* Run from its select to its return.
LEMMA ShutdownKeepsInv ==
    ASSUME IInv,
           \/ SelectDone \/ SelectServerError \/ SelectQueueError \/ CloseScheduler
           \/ ShutdownServer \/ FinishDraining \/ CloseRegistry \/ CloseWorkQueue
           \/ WaitForWorkers
    PROVE  IInv'
  <1>1. Startup = {"loadingConfig", "openingRegistry", "pinging", "openingWorkQueue",
                   "ensuringSchema", "starting"}
    BY StartupSteps
  <1>2. NotDone' = NotDone /\ UNCHANGED <<cancelled, workerVars, outputClosed, poller, requests>>
    BY NotDoneUntouched
       DEF SelectDone, SelectServerError, SelectQueueError, CloseScheduler, ShutdownServer,
           FinishDraining, CloseRegistry, CloseWorkQueue, CloseHandle, WaitForWorkers,
           workerVars, pollerVars, serverVars
  <1>3. CASE SelectDone \/ SelectServerError \/ SelectQueueError
    <2>1. /\ main = "selecting" /\ main' = "closingScheduler"
          /\ outcome' \in Errors /\ (outcome' = "nil" => cancelled)
          /\ serverErrors' \subseteq serverErrors /\ queueErrors' \subseteq queueErrors
          /\ UNCHANGED <<waitedGroup, schedulerClosed, databaseOpen, server>>
      BY <1>3 DEF IInv, TypeOK, Order, SelectDone, SelectServerError, SelectQueueError,
                  pollerVars, serverVars
    <2>2. TypeOK'
      BY <1>2, <2>1 DEF IInv, TypeOK, MainStates, workerVars
    <2>3. Unstarted' /\ Order' /\ Group' /\ NilReturnIsComplete'
      BY <1>1, <1>2, <2>1
         DEF IInv, Unstarted, Order, Group, NilReturnIsComplete, Running, ShutdownStates, workerVars
    <2>. QED
      BY <2>2, <2>3 DEF IInv
  <1>4. CASE CloseScheduler
    <2>1. /\ main = "closingScheduler" /\ schedulerClosed' = TRUE
          /\ \/ outcome = "error" /\ main' = "returned" /\ UNCHANGED waitedGroup
             \/ outcome = "nil" /\ main' = "shuttingDown" /\ waitedGroup' = workerGroup
          /\ UNCHANGED <<outcome, databaseOpen, pollerVars, serverVars>>
      BY <1>4 DEF IInv, TypeOK, CloseScheduler, Errors
    <2>2. TypeOK'
      BY <1>2, <2>1 DEF IInv, TypeOK, MainStates, workerVars, pollerVars, serverVars
    <2>3. workerGroup = 0 => NotDone = {}
      <3>1. IsFiniteSet(NotDone) /\ workerGroup = Cardinality(NotDone)
        BY <1>1, <2>1, RuntimeAssumption, FS_Subset DEF NotDone, IInv, Group, Running
      <3>. QED
        BY <3>1, FS_EmptySet
    <2>4. Unstarted' /\ Order' /\ Group' /\ NilReturnIsComplete'
      BY <1>1, <1>2, <2>1, <2>3
         DEF IInv, Unstarted, Order, Group, NilReturnIsComplete, Running, ShutdownStates,
             workerVars, pollerVars, serverVars
    <2>. QED
      BY <2>2, <2>4 DEF IInv
  <1>5. CASE ShutdownServer \/ FinishDraining
    <2>1. /\ \/ main = "shuttingDown" /\ main' = "draining" /\ UNCHANGED outcome
                /\ server' = IF server = "serving" THEN "closing" ELSE server
             \/ /\ main = "draining" /\ main' = "closingRegistry" /\ UNCHANGED server
                /\ \/ requests = 0 /\ UNCHANGED outcome
                   \/ outcome' = "error"
          /\ UNCHANGED <<waitedGroup, schedulerClosed, databaseOpen, queueErrors, serverErrors>>
      BY <1>5 DEF ShutdownServer, FinishDraining, Drained, pollerVars, serverVars
    <2>2. TypeOK'
      BY <1>2, <2>1, SMT DEF IInv, TypeOK, MainStates, Errors, workerVars
    <2>3. Unstarted' /\ Order' /\ Group' /\ NilReturnIsComplete'
      BY <1>1, <1>2, <2>1
         DEF IInv, TypeOK, Unstarted, Order, Group, NilReturnIsComplete, Running, ShutdownStates,
             workerVars
    <2>. QED
      BY <2>2, <2>3 DEF IInv
  <1>6. CASE CloseRegistry \/ CloseWorkQueue
    <2>1. /\ \/ /\ main = "closingRegistry" /\ main' = "closingWorkQueue"
                /\ databaseOpen' = databaseOpen \ {"registry"}
             \/ /\ main = "closingWorkQueue" /\ main' = "waiting"
                /\ databaseOpen' = databaseOpen \ {"workQueue"}
          /\ outcome' \in {outcome, "error"}
          /\ UNCHANGED <<waitedGroup, schedulerClosed, queueErrors, server, serverErrors>>
      BY <1>6 DEF CloseRegistry, CloseWorkQueue, CloseHandle, pollerVars, serverVars
    <2>2. TypeOK'
      <3>1. main' \in MainStates
        BY <2>1 DEF MainStates
      <3>2. outcome' \in Errors
        BY <2>1 DEF IInv, TypeOK, Errors
      <3>3. databaseOpen' \in SUBSET {"registry", "workQueue"}
        BY <2>1 DEF IInv, TypeOK
      <3>. QED
        BY <1>2, <2>1, <3>1, <3>2, <3>3 DEF IInv, TypeOK, workerVars
    <2>3. Unstarted' /\ Order' /\ Group' /\ NilReturnIsComplete'
      BY <1>1, <1>2, <2>1
         DEF IInv, Unstarted, Order, Group, NilReturnIsComplete, Running, ShutdownStates,
             BothHandles, workerVars
    <2>. QED
      BY <2>2, <2>3 DEF IInv
  <1>7. CASE WaitForWorkers
    <2>1. /\ main = "waiting" /\ main' = "returned" /\ waitedGroup = 0
          /\ UNCHANGED <<outcome, waitedGroup, schedulerClosed, databaseOpen,
                         pollerVars, serverVars>>
      BY <1>7 DEF WaitForWorkers
    <2>2. TypeOK'
      BY <1>2, <2>1 DEF IInv, TypeOK, MainStates, workerVars, pollerVars, serverVars
    <2>3. \A w \in Workers : worker[w] = "done"
      BY <2>1 DEF IInv, Group, ShutdownStates, NotDone
    <2>4. Unstarted' /\ Order' /\ Group' /\ NilReturnIsComplete'
      BY <1>1, <1>2, <2>1, <2>3
         DEF IInv, Unstarted, Order, Group, NilReturnIsComplete, Running, ShutdownStates,
             workerVars, pollerVars, serverVars
    <2>. QED
      BY <2>2, <2>4 DEF IInv
  <1>. QED
    BY <1>3, <1>4, <1>5, <1>6, <1>7

-----------------------------------------------------------------------------
\* main has not begun.
LEMMA InitInv == Init => IInv
  <1> SUFFICES ASSUME Init PROVE IInv
    OBVIOUS
  <1>1. main = "loadingConfig"
    BY DEF Init, StartupOrder
  <1>2. Startup = {"loadingConfig", "openingRegistry", "pinging", "openingWorkQueue",
                   "ensuringSchema", "starting"}
    BY StartupSteps
  <1>3. TypeOK
    <2>1. main \in MainStates /\ outcome \in Errors
      BY <1>1, <1>2 DEF Init, MainStates, Errors
    <2>2. ready \in 0 .. BufferSize + 1 /\ requests \in 0 .. MaxRequests
      BY RuntimeAssumption, SMT DEF Init
    <2>3. worker \in [Workers -> {"unborn", "idle", "delivering", "done"}]
      BY DEF Init
    <2>. QED
      BY <2>1, <2>2, <2>3 DEF Init, TypeOK
  <1>4. Unstarted /\ Order /\ Group /\ NilReturnIsComplete
    BY <1>1, <1>2
       DEF Init, Unstarted, Order, Group, NilReturnIsComplete, Running, ShutdownStates
  <1>. QED
    BY <1>3, <1>4 DEF IInv

\* Every step of every goroutine.
LEMMA InductiveStep == IInv /\ [Next]_vars => IInv'
  <1> SUFFICES ASSUME IInv, [Next]_vars PROVE IInv'
    OBVIOUS
  <1>1. CASE UNCHANGED vars
    <2>1. UNCHANGED <<cancelled, runVars, workerVars, outputClosed, pollerVars, serverVars>>
      BY <1>1 DEF vars
    <2>. QED
      BY <2>1, SMT DEF IInv, TypeOK, Unstarted, Order, Group, NilReturnIsComplete, Running, NotDone,
                  runVars, workerVars, pollerVars, serverVars
  <1>2. CASE Run
    BY <1>2, StartupKeepsInv, ShutdownKeepsInv DEF Run
  <1>. QED
    BY <1>1, <1>2, StartupKeepsInv, OthersKeepInv, WorkerKeepsInv DEF Next

\* The invariant holds throughout.
LEMMA Invariance == Spec => []IInv
  BY InitInv, InductiveStep, PTL DEF Spec

(***************************************************************************)
(* A nil return of Run is a complete shutdown, whatever the number of      *)
(* workers: the WaitGroup copied by value (runtime.go, line 32) can keep   *)
(* Run from returning but cannot let it return early.                      *)
(***************************************************************************)
THEOREM ShutdownIsComplete == Spec => []NilReturnIsComplete
  <1>1. IInv => NilReturnIsComplete
    BY DEF IInv
  <1>. QED
    BY <1>1, Invariance, PTL

(***************************************************************************)
(* A handler in flight loses a database handle only when the drain timed   *)
(* out, and then Run is going to return an error (shutdown).               *)
(***************************************************************************)
THEOREM HandlersAreServed == Spec => []HandlersKeepDatabase
  <1>1. IInv => HandlersKeepDatabase
    <2>1. Startup = {"loadingConfig", "openingRegistry", "pinging", "openingWorkQueue",
                     "ensuringSchema", "starting"}
      BY StartupSteps
    <2>. QED
      BY <2>1, SMT DEF IInv, TypeOK, MainStates, Errors, Unstarted, Order, NilReturnIsComplete,
                  HandlersKeepDatabase, BothHandles
  <1>. QED
    BY <1>1, Invariance, PTL

-----------------------------------------------------------------------------
\* The workers with a job are never more than the workers.
LEMMA BusyCount ==
    ASSUME IInv
    PROVE  /\ IsFiniteSet(Delivering) /\ Cardinality(Delivering) \in Nat
           /\ Cardinality(Workers) \in Nat
           /\ \A w \in Workers : w \notin Delivering => Cardinality(Delivering) < Cardinality(Workers)
           /\ \A w \in Delivering : Cardinality(Delivering) > 0
           /\ main \in Startup => Cardinality(Delivering) = 0
  <1>1. Delivering \in SUBSET Workers
    BY DEF Delivering
  <1>2. /\ IsFiniteSet(Delivering) /\ Cardinality(Delivering) <= Cardinality(Workers)
        /\ (Cardinality(Workers) = Cardinality(Delivering) => Workers = Delivering)
    BY <1>1, RuntimeAssumption, FS_Subset
  <1>3. Cardinality(Delivering) \in Nat /\ Cardinality(Workers) \in Nat
    BY <1>2, RuntimeAssumption, FS_CardinalityType
  <1>4. ASSUME NEW w \in Workers, w \notin Delivering
        PROVE  Cardinality(Delivering) < Cardinality(Workers)
    <2>1. Cardinality(Workers) # Cardinality(Delivering)
      BY <1>2, <1>4
    <2>. QED
      BY <1>2, <1>3, <2>1, SMT
  <1>5. ASSUME NEW w \in Delivering PROVE Cardinality(Delivering) > 0
    <2>1. Cardinality(Delivering) # 0
      BY <1>2, <1>5, FS_EmptySet
    <2>. QED
      BY <1>3, <2>1, SMT
  <1>6. ASSUME main \in Startup PROVE Cardinality(Delivering) = 0
    <2>1. Delivering = {}
      BY <1>6 DEF IInv, Group, Delivering
    <2>. QED
      BY <2>1, FS_EmptySet
  <1>. QED
    BY <1>2, <1>3, <1>4, <1>5, <1>6

\* The three variables of ProcessLife.
Phase ==
    IF main \in Startup \cup {"returned"} THEN "down"
    ELSE IF "workQueue" \notin databaseOpen THEN "closed"
    ELSE IF cancelled THEN "stopping" ELSE "running"

Ready == IF Running THEN ready ELSE 0

Busy == IF Running THEN Cardinality(Delivering) ELSE 0

\* Every step of the goroutines is a step of ProcessLife, or none.
LEMMA LifeStep == IInv /\ IInv' /\ [Next]_vars => [Life!Next]_(Life!vars)
  <1> SUFFICES ASSUME IInv, IInv', [Next]_vars PROVE Life!Next \/ UNCHANGED <<Phase, Ready, Busy>>
    BY DEF Life!vars, Phase, Ready, Busy, Delivering
  <1>1. Startup = {"loadingConfig", "openingRegistry", "pinging", "openingWorkQueue",
                   "ensuringSchema", "starting"}
    BY StartupSteps
  <1>2. /\ IsFiniteSet(Delivering) /\ Cardinality(Delivering) \in Nat
        /\ Cardinality(Workers) \in Nat
        /\ \A w \in Workers : w \notin Delivering => Cardinality(Delivering) < Cardinality(Workers)
        /\ \A w \in Delivering : Cardinality(Delivering) > 0
        /\ main \in Startup => Cardinality(Delivering) = 0
    BY BusyCount
  <1>3. UNCHANGED worker => Delivering' = Delivering
    BY DEF Delivering
  <1>4. CASE \E i \in 1 .. Len(StartupOrder) - 1 : Initialize(i)
    <2>1. main \in Startup /\ main' \in Startup /\ UNCHANGED <<worker, ready>>
      BY <1>1, <1>4, StartupSteps DEF Initialize, workerVars
    <2>. QED
      BY <1>1, <1>3, <2>1 DEF Phase, Ready, Busy, Running
  <1>5. CASE FailStartup
    <2>1. main \in Startup /\ main' = "returned" /\ ready = 0
      BY <1>5 DEF FailStartup, IInv, Unstarted
    <2>. QED
      BY <1>1, <1>2, <2>1 DEF Phase, Ready, Busy, Running
  <1>6. CASE StartRuntime
    <2>1. /\ main = "starting" /\ main' = "selecting" /\ UNCHANGED <<ready, cancelled, databaseOpen>>
          /\ \A w \in Workers : worker'[w] = "idle"
      BY <1>6 DEF StartRuntime
    <2>2. /\ Delivering' = {} /\ Cardinality(Delivering) = 0 /\ Cardinality({}) = 0
          /\ "workQueue" \in databaseOpen /\ ~cancelled
      BY <1>1, <1>2, <2>1, FS_EmptySet DEF Delivering, IInv, Unstarted, BothHandles
    <2>3. Phase = "down" /\ Phase' = "running" /\ UNCHANGED <<Ready, Busy>>
      BY <1>1, <2>1, <2>2 DEF Phase, Ready, Busy, Running
    <2>4. Life!Start
      BY <2>3 DEF Life!Start, Phase, Ready, Busy, Delivering
    <2>. QED
      BY <2>4 DEF Life!Next
  <1>7. CASE Cancel
    <2>1. /\ main \notin Startup \cup {"returned"} /\ ~cancelled /\ cancelled' = TRUE
          /\ UNCHANGED <<main, databaseOpen, worker, ready>>
      BY <1>7 DEF Cancel, Running, runVars, workerVars
    <2>2. "workQueue" \in databaseOpen
      BY <1>1, <2>1 DEF IInv, TypeOK, MainStates, Order, ShutdownStates, BothHandles
    <2>3. Phase = "running" /\ Phase' = "stopping" /\ UNCHANGED <<Ready, Busy>>
      BY <1>3, <2>1, <2>2 DEF Phase, Ready, Busy, Running
    <2>4. Life!Stop
      BY <2>3 DEF Life!Stop, Phase, Ready, Busy, Delivering
    <2>. QED
      BY <2>4 DEF Life!Next
  <1>8. CASE DispatchJob
    <2>1. /\ main \notin Startup \cup {"returned"} /\ ~cancelled
          /\ ready <= BufferSize /\ ready' = ready + 1
          /\ UNCHANGED <<main, cancelled, databaseOpen, worker>>
      BY <1>8 DEF DispatchJob, Running, runVars
    <2>2. "workQueue" \in databaseOpen
      BY <1>1, <2>1 DEF IInv, TypeOK, MainStates, Order, ShutdownStates, BothHandles
    <2>3. /\ Phase = "running" /\ Ready <= BufferSize /\ Ready' = Ready + 1
          /\ UNCHANGED <<Phase, Busy>>
      BY <1>3, <2>1, <2>2 DEF Phase, Ready, Busy, Running
    <2>4. Life!Dispatch
      BY <2>3 DEF Life!Dispatch, Phase, Ready, Busy, Delivering
    <2>. QED
      BY <2>4 DEF Life!Next
  <1>9. CASE CloseOutput
    <2>1. /\ main # "returned" /\ UNCHANGED <<main, cancelled, databaseOpen, worker>>
          /\ UNCHANGED ready \/ (cancelled /\ ready' = ready - 1 /\ ready' \in 0 .. BufferSize)
      BY <1>9 DEF CloseOutput, Running, runVars
    <2>2. CASE UNCHANGED ready
      BY <1>3, <2>1, <2>2 DEF Phase, Ready, Busy, Running
    <2>3. CASE cancelled /\ ready' = ready - 1 /\ ready' \in 0 .. BufferSize
      <3>1. main \notin Startup /\ ready \in Int /\ ready > 0
        BY <2>3, RuntimeAssumption, SMT DEF IInv, TypeOK, Unstarted
      <3>2. /\ Phase \in {"stopping", "closed"} /\ Ready > 0 /\ Ready' = Ready - 1
            /\ UNCHANGED <<Phase, Busy>>
        BY <1>3, <2>1, <2>3, <3>1 DEF Phase, Ready, Busy, Running
      <3>3. Life!Drop
        BY <3>2 DEF Life!Drop, Phase, Ready, Busy, Delivering
      <3>. QED
        BY <3>3 DEF Life!Next
    <2>. QED
      BY <2>1, <2>2, <2>3
  <1>10. ASSUME NEW w \in Workers, TakeJob(w) PROVE Life!Next
    <2>1. /\ main # "returned" /\ worker[w] = "idle" /\ ready > 0 /\ ready' = ready - 1
          /\ worker' = [worker EXCEPT ![w] = "delivering"]
          /\ UNCHANGED <<main, cancelled, databaseOpen>>
      BY <1>10 DEF TakeJob, Running, runVars
    <2>2. main \notin Startup
      BY <2>1 DEF IInv, Group
    <2>3. Delivering' = Delivering \cup {w} /\ w \notin Delivering
      BY <2>1 DEF Delivering, IInv, TypeOK
    <2>4. Cardinality(Delivering') = Cardinality(Delivering) + 1
      BY <1>2, <2>3, FS_AddElement
    <2>5. /\ Phase # "down" /\ Ready > 0 /\ Busy < Cardinality(Workers)
          /\ Ready' = Ready - 1 /\ Busy' = Busy + 1 /\ UNCHANGED Phase
      BY <1>2, <2>1, <2>2, <2>3, <2>4 DEF Phase, Ready, Busy, Running
    <2>6. Life!TakeJob
      BY <2>5 DEF Life!TakeJob, Phase, Ready, Busy, Delivering
    <2>. QED
      BY <2>6 DEF Life!Next
  <1>11. ASSUME NEW w \in Workers, FinishJob(w) PROVE Life!Next
    <2>1. /\ main # "returned" /\ worker[w] = "delivering"
          /\ worker' = [worker EXCEPT ![w] = "idle"]
          /\ UNCHANGED <<main, cancelled, databaseOpen, ready>>
      BY <1>11 DEF FinishJob, Running, runVars
    <2>2. main \notin Startup
      BY <2>1 DEF IInv, Group
    <2>3. Delivering' = Delivering \ {w} /\ w \in Delivering
      BY <2>1 DEF Delivering, IInv, TypeOK
    <2>4. Cardinality(Delivering') = Cardinality(Delivering) - 1
      BY <1>2, <2>3, FS_RemoveElement
    <2>5. Phase # "down" /\ Busy > 0 /\ Busy' = Busy - 1 /\ UNCHANGED <<Phase, Ready>>
      BY <1>2, <2>1, <2>2, <2>3, <2>4 DEF Phase, Ready, Busy, Running
    <2>6. Life!FinishJob
      BY <2>5 DEF Life!FinishJob, Phase, Ready, Busy, Delivering
    <2>. QED
      BY <2>6 DEF Life!Next
  <1>12. ASSUME NEW w \in Workers, LeaveWorker(w) PROVE UNCHANGED <<Phase, Ready, Busy>>
    <2>1. /\ worker[w] = "idle" /\ worker' = [worker EXCEPT ![w] = "done"]
          /\ UNCHANGED <<main, cancelled, databaseOpen, ready>>
      BY <1>12 DEF LeaveWorker, runVars
    <2>2. Delivering' = Delivering
      BY <2>1 DEF Delivering, IInv, TypeOK
    <2>. QED
      BY <2>1, <2>2 DEF Phase, Ready, Busy, Running
  <1>13. CASE Poller \/ FailListen \/ StopListening \/ BeginRequest \/ EndRequest \/ UNCHANGED vars
    <2>1. UNCHANGED <<main, cancelled, databaseOpen, worker, ready>>
      BY <1>13 DEF Poller, Poll, FinishPoll, FailPoll, StopPoller, EndPoller, FailListen,
                   StopListening, BeginRequest, EndRequest, vars, runVars, workerVars
    <2>. QED
      BY <1>3, <2>1 DEF Phase, Ready, Busy, Running
  <1>14. CASE \/ SelectDone \/ SelectServerError \/ SelectQueueError \/ ShutdownServer
              \/ FinishDraining \/ CloseRegistry
              \/ (CloseScheduler /\ main' # "returned")
    <2>1. /\ main \notin Startup \cup {"returned"} /\ main' \notin Startup \cup {"returned"}
          /\ "workQueue" \in databaseOpen <=> "workQueue" \in databaseOpen'
          /\ UNCHANGED <<cancelled, worker, ready>>
      BY <1>1, <1>14
         DEF SelectDone, SelectServerError, SelectQueueError, ShutdownServer, FinishDraining,
             CloseRegistry, CloseHandle, CloseScheduler, workerVars
    <2>. QED
      BY <1>3, <2>1 DEF Phase, Ready, Busy, Running
  <1>15. CASE CloseWorkQueue
    <2>1. /\ main = "closingWorkQueue" /\ main' = "waiting" /\ cancelled
          /\ "workQueue" \in databaseOpen /\ "workQueue" \notin databaseOpen'
          /\ UNCHANGED <<cancelled, worker, ready>>
      BY <1>15 DEF CloseWorkQueue, CloseHandle, IInv, Order, ShutdownStates, workerVars
    <2>2. Phase = "stopping" /\ Phase' = "closed" /\ UNCHANGED <<Ready, Busy>>
      BY <1>1, <1>3, <2>1 DEF Phase, Ready, Busy, Running
    <2>3. Life!Close
      BY <2>2 DEF Life!Close, Phase, Ready, Busy, Delivering
    <2>. QED
      BY <2>3 DEF Life!Next
  <1>16. CASE WaitForWorkers \/ (CloseScheduler /\ main' = "returned")
    <2>1. main \notin Startup \cup {"returned"} /\ main' = "returned"
      BY <1>1, <1>16 DEF WaitForWorkers, CloseScheduler
    <2>2. Phase # "down" /\ Phase' = "down" /\ Ready' = 0 /\ Busy' = 0
      BY <2>1 DEF Phase, Ready, Busy, Running
    <2>3. Life!End
      BY <2>2 DEF Life!End, Phase, Ready, Busy, Delivering
    <2>. QED
      BY <2>3 DEF Life!Next
  <1>. QED
    BY <1>4, <1>5, <1>6, <1>7, <1>8, <1>9, <1>10, <1>11, <1>12, <1>13, <1>14, <1>15, <1>16, SMT
       DEF Next, Run, RunWorker

(***************************************************************************)
(* The goroutines of a process implement ProcessLife, the process the      *)
(* notifier is modelled with, for any number of workers and any capacity.  *)
(***************************************************************************)
THEOREM LifeRefinement == Spec => ImplementsProcessLife
  <1>1. Init => Life!Init
    <2> SUFFICES ASSUME Init PROVE Life!Init
      OBVIOUS
    <2>1. main = "loadingConfig" /\ main \in Startup /\ ready = 0
      BY StartupSteps DEF Init, StartupOrder
    <2>2. Cardinality(Delivering) = 0
      BY <2>1, InitInv, BusyCount
    <2>. QED
      BY <2>1, <2>2 DEF Life!Init, Running, Delivering
  <1>. QED
    BY <1>1, LifeStep, Invariance, PTL DEF Spec, ImplementsProcessLife, Life!Spec
=============================================================================

---------------------------- MODULE ReportProofs ----------------------------
(***************************************************************************)
(* Proofs about what the benchmark runs of FairnessRun report, for any     *)
(* jobs, customers and workers and any window: the summary is final when   *)
(* a run returns, a first-finish time is nearly the first one, and the     *)
(* verdict of the scheduler's own run is right.                            *)
(***************************************************************************)
EXTENDS SchedulerProofs

(***************************************************************************)
(* Most leaves are first-order reasoning for Zenon; a leaf that needs      *)
(* arithmetic, functions or records cites SMT.                             *)
(***************************************************************************)
USE Zenon

-----------------------------------------------------------------------------
(***************************************************************************)
(* The summary.  It counts the jobs whose worker has called onCompletion:  *)
(* that is what it says at any time, and all jobs once the run returns.    *)
(***************************************************************************)
ReportedStates == {"reported", "marking"}

Reported == Past(ReportedStates)

SummaryCounts ==
    mode # "throughput" =>
        /\ \A c \in Customers : completionCounts[c] = Cardinality(Reported \cap OfCustomer(c))
        /\ totalCompleted = Cardinality(Reported)
        /\ IsFiniteSet(CountedOut(earlyCompletionCounts))
        /\ Cardinality(CountedOut(earlyCompletionCounts)) =
              IF totalCompleted <= EarlyWindow THEN totalCompleted ELSE EarlyWindow

-----------------------------------------------------------------------------
\* A job is not completed while a worker has it.
LEMMA InHandNotCompleted ==
    ASSUME RunInv, NEW w \in Workers
    PROVE  job[w] \cap Completed = {}
  <1>1. job[w] \in SUBSET Carried
    BY InHand DEF RunInv, Carried, RunTypeOK
  <1>2. job[w] \in SUBSET Jobs
    BY DEF RunInv, RunTypeOK
  <1>3. \A j \in job[w] : status[j] = "claimed"
    BY <1>1, <1>2 DEF RunInv, OneHand
  <1>. QED
    BY <1>3 DEF Completed

\* onCompletion reports one job, for the first time.
LEMMA CompletionReports ==
    ASSUME RunInv, NEW w \in Workers, OnCompletion(w)
    PROVE  \E j \in Jobs : job[w] = {j} /\ j \notin Reported /\ Reported' = Reported \cup {j}
  <1>1. worker[w] \in {"delivering", "reporting"} /\ IsWorkerStep(w, worker[w], "reported", job[w])
    BY OnCompletionMoves DEF Moves
  <1>2. PICK j \in Jobs : job[w] = {j}
    BY <1>1 DEF RunInv, Carrying
  <1>3. j \notin Reported
    <2>1. worker[w] \notin ReportedStates
      BY <1>1 DEF ReportedStates
    <2>2. job[w] \cap CarriedIn(ReportedStates) = {}
      BY <2>1, NotInOtherStates DEF RunInv
    <2>3. job[w] \cap Completed = {}
      BY InHandNotCompleted
    <2>. QED
      BY <1>2, <2>2, <2>3 DEF Reported, Past
  <1>4. Past(ReportedStates)' = (Past(ReportedStates) \ job[w]) \cup (job[w] \ job[w])
                                   \cup {k \in job[w] : "reported" \in ReportedStates}
    BY <1>1, WorkerPast, SMT
  <1>5. Reported' = (Reported \ job[w]) \cup job[w]
    BY <1>4 DEF Reported, ReportedStates
  <1>. QED
    BY <1>2, <1>3, <1>5

\* A worker that is not at onCompletion reports nothing.
LEMMA OtherMovesReportNothing ==
    ASSUME RunInv, NEW w \in Workers, NEW from, NEW to, NEW J, IsWorkerStep(w, from, to, J),
           from \in ReportedStates => (J = job[w] /\ to \in ReportedStates) \/ J = {},
           from \notin ReportedStates => to \notin ReportedStates /\ job[w] \in SUBSET J
    PROVE  Reported' = Reported
  <1>1. Past(ReportedStates)' = (Past(ReportedStates) \ job[w]) \cup (job[w] \ J)
                                   \cup {k \in J : to \in ReportedStates}
    BY WorkerPast, SMT
  <1>2. worker[w] = from
    BY DEF IsWorkerStep
  <1>3. CASE from \in ReportedStates
    <2>1. job[w] \in SUBSET CarriedIn(ReportedStates)
      BY <1>2, <1>3, InHand DEF RunInv
    <2>2. job[w] \in SUBSET Past(ReportedStates)
      BY <2>1 DEF Past
    <2>. QED
      BY <1>1, <1>3, <2>2 DEF Reported
  <1>4. CASE from \notin ReportedStates
    <2>1. job[w] \cap CarriedIn(ReportedStates) = {}
      BY <1>2, <1>4, NotInOtherStates DEF RunInv
    <2>2. job[w] \cap Past(ReportedStates) = {}
      BY <2>1, InHandNotCompleted DEF Past
    <2>. QED
      BY <1>1, <1>4, <2>2 DEF Reported
  <1>. QED
    BY <1>3, <1>4

\* No other step of a run with a summary writes the summary or reports a job.
LEMMA OtherStepsReportNothing ==
    ASSUME RunInv, [RunNext]_runVars, mode # "throughput"
    PROVE  \/ \E w \in Workers : OnCompletion(w)
           \/ Reported' = Reported /\ UNCHANGED summaryVars
  <1>1. CASE \/ SchedulerStep \/ EnqueueNext \/ StopPoller \/ EndDeliveries \/ EndScheduler
             \/ WaitForGroup \/ UNCHANGED runVars
    <2>1. UNCHANGED <<status, worker, job, summaryVars>>
      BY <1>1 DEF SchedulerStep, EnqueueNext, StopPoller, EndDeliveries, EndScheduler, WaitForGroup,
                  runVars, workerVars
    <2>. QED
      BY <2>1 DEF Reported, Past, Completed, CarriedIn
  <1>2. CASE ClaimAvailableDeliveries
    <2>1. UNCHANGED <<worker, job, summaryVars>>
      BY <1>2 DEF ClaimAvailableDeliveries, workerVars
    <2>2. Completed' = Completed
      BY <1>2 DEF ClaimAvailableDeliveries, MarkClaimed, Claimable, Completed
    <2>. QED
      BY <2>1, <2>2 DEF Reported, Past, CarriedIn
  <1>3. CASE ReceiveJob
    BY <1>3 DEF ReceiveJob
  <1>4. ASSUME NEW w \in Workers, Worker(w), ~OnCompletion(w)
        PROVE  Reported' = Reported /\ UNCHANGED summaryVars
    <2>1. UNCHANGED summaryVars
      BY <1>4 DEF Worker, TakeJob, LeaveWorker, Deliver, DeliveryDone, MarkDelivered
    <2>2. CASE TakeJob(w)
      <3>1. IsWorkerStep(w, "idle", "delivering", job'[w])
        BY <2>2, TakeJobMoves DEF Moves
      <3>2. job[w] = {}
        BY <2>2 DEF TakeJob, RunInv, Carrying
      <3>. QED
        BY <2>1, <3>1, <3>2, OtherMovesReportNothing DEF ReportedStates
    <2>3. CASE LeaveWorker(w) \/ Deliver(w)
      <3>1. \/ IsWorkerStep(w, "idle", "done", job[w])
            \/ IsWorkerStep(w, "delivering", "reporting", job[w])
        BY <2>3, LeaveWorkerMoves, DeliverMoves DEF Moves
      <3>. QED
        BY <2>1, <3>1, OtherMovesReportNothing DEF ReportedStates
    <2>4. CASE DeliveryDone(w) \/ MarkDelivered(w)
      <3>1. \/ IsWorkerStep(w, "reported", "marking", job[w])
            \/ IsWorkerStep(w, "reported", "idle", {})
            \/ IsWorkerStep(w, "marking", "idle", {})
        BY <2>4, DeliveryDoneMoves, MarkDeliveredMoves DEF Moves
      <3>. QED
        BY <2>1, <3>1, OtherMovesReportNothing DEF ReportedStates
    <2>. QED
      BY <1>4, <2>2, <2>3, <2>4 DEF Worker
  <1>. QED
    BY <1>1, <1>2, <1>3, <1>4 DEF RunNext, Poller, Main

-----------------------------------------------------------------------------
\* What onCompletion does for the job j of worker w.
Completes(w, j) ==
    LET c == CustomerOf[j] IN
    /\ j \in Jobs /\ job[w] = {j} /\ c \in Customers
    /\ mode # "throughput" /\ mode' = mode
    /\ j \notin Reported /\ Reported' = Reported \cup {j}
    /\ totalCompleted' = totalCompleted + 1
    /\ completionCounts' = [completionCounts EXCEPT ![c] = completionCounts[c] + 1]
    /\ firstCompletionTimes' =
          [firstCompletionTimes EXCEPT ![c] =
              IF completionCounts[c] = 0 THEN stamp'[w] ELSE firstCompletionTimes[c]]
    /\ finishCompletionTimes' =
          [finishCompletionTimes EXCEPT ![c] =
              IF completionCounts[c] + 1 = EventsPerCustomer[c] THEN stamp'[w]
                                                              ELSE finishCompletionTimes[c]]
    /\ earlyCompletionCounts' =
          [earlyCompletionCounts EXCEPT ![c] =
              IF totalCompleted + 1 <= EarlyWindow THEN earlyCompletionCounts[c] + 1
                                                   ELSE earlyCompletionCounts[c]]
    /\ \/ mode = "app" /\ worker[w] = "reporting" /\ UNCHANGED <<clock, stamp, stamps>>
       \/ mode = "scheduler" /\ worker[w] = "delivering" /\ ReadClock(w)
    /\ worker' = [worker EXCEPT ![w] = "reported"]
    /\ job' = job

\* onCompletion does that for some job.
LEMMA CompletionEffect ==
    ASSUME RunInv, NEW w \in Workers, OnCompletion(w)
    PROVE  \E j \in Jobs : Completes(w, j)
  <1>1. PICK j \in Jobs : job[w] = {j} /\ j \notin Reported /\ Reported' = Reported \cup {j}
    BY CompletionReports
  <1>2. CustomerOf[j] \in Customers
    BY SchedulerAssumption
  <1>3. {CustomerOf[k] : k \in job[w]} = {CustomerOf[j]}
    BY <1>1
  <1>. QED
    BY <1>1, <1>2, <1>3 DEF OnCompletion, Completes, IsFirst, IsLast

\* What CountedOut consists of.
LEMMA CountedMembers ==
    ASSUME NEW h \in [Customers -> Nat], NEW x
    PROVE  x \in CountedOut(h) <=> \E d \in Customers : \E k \in 1 .. h[d] : x = <<d, k>>
  <1>1. DOMAIN h = Customers
    OBVIOUS
  <1>2. x \in CountedOut(h) <=> \E d \in Customers : x \in {d} \X (1 .. h[d])
    BY <1>1 DEF CountedOut
  <1>3. ASSUME NEW d \in Customers
        PROVE  x \in {d} \X (1 .. h[d]) <=> \E k \in 1 .. h[d] : x = <<d, k>>
    BY SMT
  <1>. QED
    BY <1>2, <1>3

\* One more of c.
LEMMA OneMoreCounted ==
    ASSUME NEW f \in [Customers -> Nat], NEW g \in [Customers -> Nat], NEW c \in Customers,
           g[c] = f[c] + 1, \A d \in Customers : d # c => g[d] = f[d]
    PROVE  /\ CountedOut(g) = CountedOut(f) \cup {<<c, f[c] + 1>>}
           /\ <<c, f[c] + 1>> \notin CountedOut(f)
  <1>1. /\ f[c] \in Nat /\ f[c] + 1 \in Nat
        /\ f[c] + 1 \notin 1 .. f[c]
        /\ 1 .. f[c] + 1 = (1 .. f[c]) \cup {f[c] + 1}
    <2>1. f[c] \in Nat
      OBVIOUS
    <2>. QED
      BY <2>1, SMT
  <1>2. <<c, f[c] + 1>> \notin CountedOut(f)
    <2> SUFFICES ASSUME <<c, f[c] + 1>> \in CountedOut(f) PROVE FALSE
      OBVIOUS
    <2>1. PICK d \in Customers : \E k \in 1 .. f[d] : <<c, f[c] + 1>> = <<d, k>>
      BY CountedMembers
    <2>2. c = d /\ f[c] + 1 \in 1 .. f[d]
      BY <2>1, SMT
    <2>. QED
      BY <1>1, <2>2
  <1>3. ASSUME NEW x PROVE x \in CountedOut(g) <=> x \in CountedOut(f) \cup {<<c, f[c] + 1>>}
    <2>1. x \in CountedOut(g) <=> \E d \in Customers : \E k \in 1 .. g[d] : x = <<d, k>>
      BY CountedMembers, SMT
    <2>2. x \in CountedOut(f) <=> \E d \in Customers : \E k \in 1 .. f[d] : x = <<d, k>>
      BY CountedMembers, SMT
    <2>3. ASSUME NEW d \in Customers, NEW k \in 1 .. g[d], x = <<d, k>>
          PROVE  x \in CountedOut(f) \cup {<<c, f[c] + 1>>}
      <3>1. CASE d = c
        BY <1>1, <2>2, <2>3, <3>1
      <3>2. CASE d # c
        BY <2>2, <2>3, <3>2
      <3>. QED
        BY <3>1, <3>2
    <2>4. ASSUME NEW d \in Customers, NEW k \in 1 .. f[d], x = <<d, k>>
          PROVE  x \in CountedOut(g)
      <3>1. k \in 1 .. g[d]
        BY <1>1
      <3>. QED
        BY <2>1, <2>4, <3>1
    <2>5. <<c, f[c] + 1>> \in CountedOut(g)
      <3>1. f[c] + 1 \in 1 .. g[c]
        BY <1>1
      <3>. QED
        BY <3>1, CountedMembers
    <2>. QED
      BY <2>1, <2>2, <2>3, <2>4, <2>5
  <1>4. CountedOut(g) = CountedOut(f) \cup {<<c, f[c] + 1>>}
    BY <1>3
  <1>. QED
    BY <1>2, <1>4

-----------------------------------------------------------------------------
\* The window is a number of jobs.
LEMMA WindowType == EarlyWindow \in 0 .. Cardinality(Jobs) /\ Cardinality(Jobs) \in Nat
  <1>1. Cardinality(Jobs) \in Nat
    BY FairnessRunAssumption, FS_CardinalityType
  <1>2. EarlyCompletionWindow \in Int
    BY FairnessRunAssumption
  <1>. QED
    BY <1>1, <1>2, SMT DEF EarlyWindow, TotalJobCount

\* The summary of a run that starts counts nothing.
LEMMA InitCounts == RunInit => SummaryCounts
  <1> SUFFICES ASSUME RunInit PROVE SummaryCounts
    OBVIOUS
  <1>1. Reported = {}
    <2>1. Completed = {}
      BY DEF RunInit, Completed
    <2>2. CarriedIn(ReportedStates) = {}
      BY DEF CarriedIn, RunInit
    <2>. QED
      BY <2>1, <2>2 DEF Reported, Past
  <1>2. Cardinality({}) = 0 /\ IsFiniteSet({})
    BY FS_EmptySet
  <1>3. CountedOut(earlyCompletionCounts) = {}
    <2>1. earlyCompletionCounts = [c \in Customers |-> 0] /\ 1 .. 0 = {}
      BY SMT DEF RunInit, SummaryInit
    <2>2. \A c \in DOMAIN earlyCompletionCounts : 1 .. earlyCompletionCounts[c] = {}
      BY <2>1
    <2>. QED
      BY <2>2, SMT DEF CountedOut
  <1>4. /\ totalCompleted = 0
        /\ \A c \in Customers : completionCounts[c] = 0
    BY DEF RunInit, SummaryInit
  <1>5. IF totalCompleted <= EarlyWindow THEN totalCompleted = 0 ELSE EarlyWindow = 0
    BY <1>4, WindowType, SMT
  <1>6. \A c : Reported \cap OfCustomer(c) = {}
    BY <1>1
  <1>. QED
    BY <1>1, <1>2, <1>3, <1>4, <1>5, <1>6 DEF SummaryCounts

\* onCompletion counts the job it reports.
LEMMA CompletionCounted ==
    ASSUME RunInv, SummaryCounts, NEW w \in Workers, NEW j \in Jobs, Completes(w, j)
    PROVE  /\ \A c \in Customers : completionCounts'[c] = Cardinality(Reported' \cap OfCustomer(c))
           /\ totalCompleted' = Cardinality(Reported')
  <1> DEFINE c == CustomerOf[j]
  <1>1. /\ c \in Customers /\ j \notin Reported /\ Reported' = Reported \cup {j}
        /\ totalCompleted' = totalCompleted + 1
        /\ completionCounts'[c] = completionCounts[c] + 1
        /\ \A d \in Customers : d # c => completionCounts'[d] = completionCounts[d]
        /\ totalCompleted = Cardinality(Reported)
        /\ \A d \in Customers : completionCounts[d] = Cardinality(Reported \cap OfCustomer(d))
    BY DEF Completes, SummaryCounts, RunInv, RunTypeOK
  <1>2. Reported \in SUBSET Jobs
    BY DEF Reported, Past, Completed, CarriedIn
  <1>3. IsFiniteSet(Reported) /\ IsFiniteSet(Reported \cap OfCustomer(c))
    BY <1>2, FairnessRunAssumption, FS_Subset
  <1>4. Cardinality(Reported') = Cardinality(Reported) + 1
    BY <1>1, <1>3, FS_AddElement
  <1>5. Reported' \cap OfCustomer(c) = (Reported \cap OfCustomer(c)) \cup {j}
    BY <1>1 DEF OfCustomer
  <1>6. Cardinality(Reported' \cap OfCustomer(c)) = Cardinality(Reported \cap OfCustomer(c)) + 1
    <2>1. j \notin Reported \cap OfCustomer(c)
      BY <1>1
    <2>. QED
      BY <1>3, <1>5, <2>1, FS_AddElement
  <1>7. ASSUME NEW d \in Customers, d # c
        PROVE  Reported' \cap OfCustomer(d) = Reported \cap OfCustomer(d)
    BY <1>1, <1>7 DEF OfCustomer
  <1>. HIDE DEF c
  <1>. QED
    BY <1>1, <1>4, <1>6, <1>7

\* It is an early completion when the window has room.
LEMMA CompletionInWindow ==
    ASSUME RunInv, SummaryCounts, NEW w \in Workers, NEW j \in Jobs, Completes(w, j)
    PROVE  /\ IsFiniteSet(CountedOut(earlyCompletionCounts'))
           /\ Cardinality(CountedOut(earlyCompletionCounts')) =
                 IF totalCompleted' <= EarlyWindow THEN totalCompleted' ELSE EarlyWindow
  <1> DEFINE c == CustomerOf[j]
             early == earlyCompletionCounts
             counted == CountedOut(early)
  <1>1. /\ c \in Customers /\ totalCompleted' = totalCompleted + 1 /\ early \in [Customers -> Nat]
        /\ totalCompleted \in Nat
        /\ IsFiniteSet(counted)
        /\ Cardinality(counted) = IF totalCompleted <= EarlyWindow THEN totalCompleted ELSE EarlyWindow
    BY DEF Completes, SummaryCounts, RunInv, RunTypeOK
  <1>2. EarlyWindow \in Nat
    BY WindowType, SMT
  <1>3. CASE totalCompleted + 1 <= EarlyWindow
    <2>1. early' = [early EXCEPT ![c] = early[c] + 1]
      BY <1>3 DEF Completes
    <2>2. early[c] + 1 \in Nat
      <3>1. early[c] \in Nat
        BY <1>1
      <3>. QED
        BY <3>1, SMT
    <2>3. /\ early' \in [Customers -> Nat] /\ early'[c] = early[c] + 1
          /\ \A d \in Customers : d # c => early'[d] = early[d]
      BY <1>1, <2>1, <2>2
    <2>4. /\ CountedOut(early') = counted \cup {<<c, early[c] + 1>>}
          /\ <<c, early[c] + 1>> \notin counted
      <3>. HIDE DEF early, c
      <3>1. early \in [Customers -> Nat] /\ c \in Customers
        BY <1>1
      <3>. QED
        BY <2>3, <3>1, OneMoreCounted, SMT
    <2>5. IsFiniteSet(CountedOut(early')) /\ Cardinality(CountedOut(early')) = Cardinality(counted) + 1
      BY <1>1, <2>4, FS_AddElement
    <2>6. totalCompleted <= EarlyWindow
      BY <1>1, <1>2, <1>3, SMT
    <2>. HIDE DEF counted, early, c
    <2>. QED
      BY <1>1, <1>3, <2>5, <2>6 DEF early
  <1>4. CASE ~(totalCompleted + 1 <= EarlyWindow)
    <2>1. early' = early
      BY <1>1, <1>4 DEF Completes
    <2>2. IF totalCompleted <= EarlyWindow THEN totalCompleted = EarlyWindow ELSE TRUE
      BY <1>1, <1>2, <1>4, SMT
    <2>. HIDE DEF counted, c
    <2>. QED
      BY <1>1, <1>4, <2>1, <2>2 DEF counted
  <1>. QED
    BY <1>3, <1>4

\* So a step keeps the counts.
LEMMA CountsStep == RunInv /\ SummaryCounts /\ [RunNext]_runVars => SummaryCounts'
  <1> SUFFICES ASSUME RunInv, SummaryCounts, [RunNext]_runVars, mode' # "throughput"
               PROVE  SummaryCounts'
    BY DEF SummaryCounts
  <1>1. mode # "throughput"
    BY ModeIsFixed
  <1>2. CASE Reported' = Reported /\ UNCHANGED summaryVars
    BY <1>1, <1>2 DEF SummaryCounts, summaryVars, CountedOut
  <1>3. ASSUME NEW w \in Workers, OnCompletion(w) PROVE SummaryCounts'
    <2>1. PICK j \in Jobs : Completes(w, j)
      BY <1>3, CompletionEffect
    <2>2. /\ \A c \in Customers : completionCounts'[c] = Cardinality(Reported' \cap OfCustomer(c))
          /\ totalCompleted' = Cardinality(Reported')
      BY <2>1, CompletionCounted
    <2>3. /\ IsFiniteSet(CountedOut(earlyCompletionCounts'))
          /\ Cardinality(CountedOut(earlyCompletionCounts')) =
                IF totalCompleted' <= EarlyWindow THEN totalCompleted' ELSE EarlyWindow
      BY <2>1, CompletionInWindow
    <2>. QED
      BY <2>2, <2>3 DEF SummaryCounts
  <1>. QED
    BY <1>1, <1>2, <1>3, OtherStepsReportNothing

-----------------------------------------------------------------------------
(***************************************************************************)
(* The times.  Between reading the clock and taking completionMutex a      *)
(* worker of mode "app" is in state "reporting".  Before the first         *)
(* completion of a customer is recorded, all its stamps belong to such     *)
(* workers; that bounds how many of them the recorded one can overtake.    *)
(***************************************************************************)
Reports(w, c) == worker[w] = "reporting" /\ job[w] \in SUBSET OfCustomer(c)

Earlier(c) == {t \in stamps[c] : t < firstCompletionTimes[c]}

TimesOf(c) ==
    /\ stamps[c] \in SUBSET (1 .. clock)
    /\ \A w \in Workers : Reports(w, c) => stamp[w] \in stamps[c]
    /\ IF completionCounts[c] = 0
         THEN /\ firstCompletionTimes[c] = 0
              /\ \A t \in stamps[c] : \E w \in Workers : Reports(w, c) /\ stamp[w] = t
         ELSE /\ firstCompletionTimes[c] \in stamps[c]
              /\ IsFiniteSet(Earlier(c)) /\ Cardinality(Earlier(c)) < Cardinality(Workers)
    /\ IF completionCounts[c] = 0 \/ completionCounts[c] < EventsPerCustomer[c]
         THEN finishCompletionTimes[c] = 0
         ELSE finishCompletionTimes[c] \in stamps[c]
    /\ mode = "scheduler" /\ completionCounts[c] = EventsPerCustomer[c] =>
          \A t \in stamps[c] : t <= finishCompletionTimes[c]

SummaryTimes == \A c \in Customers : TimesOf(c)

-----------------------------------------------------------------------------
\* No time has been read when a run starts.
LEMMA InitTimes == RunInit => SummaryTimes
  <1> SUFFICES ASSUME RunInit, NEW c \in Customers PROVE TimesOf(c)
    BY DEF SummaryTimes
  <1>1. /\ stamps[c] = {} /\ firstCompletionTimes[c] = 0 /\ finishCompletionTimes[c] = 0
        /\ completionCounts[c] = 0
        /\ \A w \in Workers : worker[w] # "reporting"
    BY DEF RunInit, SummaryInit
  <1>. QED
    BY <1>1 DEF TimesOf, Reports

\* A customer's times stay as they are when nobody completes its jobs.
LEMMA TimesKept ==
    ASSUME NEW c \in Customers, TimesOf(c), mode' = mode,
           clock \in Nat, clock' \in Nat, clock <= clock',
           UNCHANGED <<stamps[c], firstCompletionTimes[c], finishCompletionTimes[c], completionCounts[c]>>,
           \A v \in Workers : Reports(v, c)' <=> Reports(v, c),
           \A v \in Workers : Reports(v, c) => stamp'[v] = stamp[v]
    PROVE  TimesOf(c)'
  <1>1. stamps'[c] \in SUBSET (1 .. clock')
    <2>1. \A t \in 1 .. clock : t \in 1 .. clock'
      BY SMT
    <2>. QED
      BY <2>1 DEF TimesOf
  <1>2. \A v \in Workers : Reports(v, c)' => stamp'[v] \in stamps'[c]
    BY DEF TimesOf
  <1>3. IF completionCounts'[c] = 0
         THEN /\ firstCompletionTimes'[c] = 0
              /\ \A t \in stamps'[c] : \E w \in Workers : Reports(w, c)' /\ stamp'[w] = t
         ELSE /\ firstCompletionTimes'[c] \in stamps'[c]
              /\ IsFiniteSet(Earlier(c)') /\ Cardinality(Earlier(c)') < Cardinality(Workers)
    <2>1. Earlier(c)' = Earlier(c)
      BY DEF Earlier
    <2>. QED
      BY <2>1 DEF TimesOf
  <1>. QED
    BY <1>1, <1>2, <1>3 DEF TimesOf

\* The only steps that read the clock or report are Deliver and OnCompletion.
LEMMA OtherStepsReadNoClock ==
    ASSUME RunInv, SummaryTimes, [RunNext]_runVars
    PROVE  \/ \E w \in Workers : Deliver(w) \/ OnCompletion(w)
           \/ SummaryTimes'
  <1> SUFFICES ASSUME \A w \in Workers : ~Deliver(w) /\ ~OnCompletion(w), NEW c \in Customers
               PROVE  TimesOf(c)'
    BY DEF SummaryTimes
  <1>1. UNCHANGED <<clock, stamps, summaryVars>> /\ mode' = mode
    <2>1. UNCHANGED <<clock, stamps, summaryVars>>
      BY DEF RunNext, Poller, Main, Worker, SchedulerStep, ClaimAvailableDeliveries, EnqueueNext,
             StopPoller, TakeJob, LeaveWorker, DeliveryDone, MarkDelivered, ReceiveJob,
             EndDeliveries, EndScheduler, WaitForGroup, workerVars, runVars
    <2>. QED
      BY <2>1, ModeIsFixed
  <1>2. ASSUME NEW v \in Workers
        PROVE  /\ Reports(v, c)' <=> Reports(v, c)
               /\ Reports(v, c) => stamp'[v] = stamp[v]
    <2>1. CASE UNCHANGED <<worker, job, stamp>>
      BY <2>1 DEF Reports
    <2>2. ASSUME NEW w \in Workers, Worker(w)
          PROVE  /\ Reports(v, c)' <=> Reports(v, c)
                 /\ Reports(v, c) => stamp'[v] = stamp[v]
      <3>1. v # w => UNCHANGED <<worker[v], job[v], stamp[v]>>
        BY <2>2 DEF Worker, TakeJob, LeaveWorker, DeliveryDone, MarkDelivered, FinishJob, RunInv, RunTypeOK
      <3>2. worker[w] # "reporting" /\ worker'[w] # "reporting"
        BY <2>2 DEF Worker, TakeJob, LeaveWorker, DeliveryDone, MarkDelivered, FinishJob, RunInv, RunTypeOK
      <3>3. CASE v = w
        BY <3>2, <3>3 DEF Reports
      <3>4. CASE v # w
        BY <3>1, <3>4 DEF Reports
      <3>. QED
        BY <3>3, <3>4
    <2>3. CASE ~\E w \in Workers : Worker(w)
      <3>1. UNCHANGED <<worker, job, stamp>>
        BY <2>3 DEF RunNext, Poller, Main, SchedulerStep, ClaimAvailableDeliveries, EnqueueNext,
               StopPoller, ReceiveJob, EndDeliveries, EndScheduler, WaitForGroup, workerVars, runVars
      <3>. QED
        BY <2>1, <3>1
    <2>. QED
      BY <2>2, <2>3
  <1>3. clock \in Nat /\ clock' \in Nat /\ clock <= clock'
    <2>1. clock \in Nat /\ clock' = clock
      BY <1>1 DEF RunInv, RunTypeOK
    <2>. QED
      BY <2>1, SMT
  <1>4. UNCHANGED <<stamps[c], firstCompletionTimes[c], finishCompletionTimes[c], completionCounts[c]>>
    BY <1>1 DEF summaryVars
  <1>. QED
    BY <1>1, <1>2, <1>3, <1>4, TimesKept DEF SummaryTimes

-----------------------------------------------------------------------------
\* The other customers do not notice that worker w goes on with job j.
LEMMA TimesOfOthers ==
    ASSUME RunInv, NEW w \in Workers, NEW j \in Jobs, job[w] = {j}, job' = job, mode' = mode,
           \A v \in Workers : v # w => worker'[v] = worker[v] /\ stamp'[v] = stamp[v],
           clock' \in Nat, clock <= clock',
           NEW d \in Customers, d # CustomerOf[j], TimesOf(d),
           UNCHANGED <<stamps[d], firstCompletionTimes[d], finishCompletionTimes[d], completionCounts[d]>>
    PROVE  TimesOf(d)'
  <1>1. ~Reports(w, d) /\ ~Reports(w, d)'
    BY DEF Reports, OfCustomer
  <1>2. \A v \in Workers : v # w => (Reports(v, d)' <=> Reports(v, d))
    BY DEF Reports
  <1>3. /\ \A v \in Workers : Reports(v, d)' <=> Reports(v, d)
        /\ \A v \in Workers : Reports(v, d) => stamp'[v] = stamp[v]
    BY <1>1, <1>2
  <1>4. clock \in Nat
    BY DEF RunInv, RunTypeOK
  <1>. QED
    BY <1>3, <1>4, TimesKept

\* Times already read are not later than the clock.
LEMMA AfterClock ==
    ASSUME RunInv, NEW c \in Customers, TimesOf(c), NEW T \in SUBSET Nat, NEW t0 \in Nat,
           stamps[c] \in SUBSET T, \A t \in T : t \in stamps[c] \/ t > clock,
           t0 \in stamps[c]
    PROVE  {t \in T : t < t0} = {t \in stamps[c] : t < t0}
  <1>1. t0 <= clock /\ clock \in Nat
    <2>1. t0 \in 1 .. clock /\ clock \in Nat
      BY DEF TimesOf, RunInv, RunTypeOK
    <2>. QED
      BY <2>1, SMT
  <1>2. ASSUME NEW t \in T, t < t0 PROVE t \in stamps[c]
    <2>1. ~(t > clock)
      BY <1>1, <1>2, SMT
    <2>. QED
      BY <2>1
  <1>. QED
    BY <1>2

\* What reading the clock does for job j.
LEMMA ClockOf ==
    ASSUME RunInv, NEW w \in Workers, ReadClock(w), NEW j \in Jobs, job[w] = {j}
    PROVE  LET c == CustomerOf[j] IN
           /\ clock' = clock + 1 /\ clock' \in Nat /\ clock \in Nat /\ stamp'[w] = clock'
           /\ clock <= clock' /\ clock' > clock /\ clock' \in 1 .. clock'
           /\ \A t \in 1 .. clock : t \in 1 .. clock'
           /\ \A v \in Workers : v # w => stamp'[v] = stamp[v]
           /\ c \in Customers
           /\ stamps'[c] = stamps[c] \cup {clock'}
           /\ \A d \in Customers : d # c => stamps'[d] = stamps[d]
           /\ stamps'[c] \in SUBSET Nat
  <1>1. PICK k \in job[w] :
           /\ CustomerOf[k] \in Customers
           /\ stamps'[CustomerOf[k]] = stamps[CustomerOf[k]] \cup {clock'}
           /\ \A d \in Customers : d # CustomerOf[k] => stamps'[d] = stamps[d]
    BY ClockEffect
  <1>2. k = j
    OBVIOUS
  <1>3. clock \in Nat
    BY DEF RunInv, RunTypeOK
  <1>4. /\ clock' = clock + 1 /\ clock' \in Nat /\ stamp'[w] = clock'
        /\ \A v \in Workers : v # w => stamp'[v] = stamp[v]
        /\ stamps' \in [Customers -> SUBSET Nat]
    BY ClockEffect
  <1>5. clock <= clock' /\ clock' > clock /\ clock' \in 1 .. clock' /\ \A t \in 1 .. clock : t \in 1 .. clock'
    <2>1. clock' = clock + 1 /\ clock \in Nat
      BY <1>3, <1>4
    <2>. QED
      BY <2>1, SMT
  <1>. QED
    BY <1>1, <1>2, <1>3, <1>4, <1>5

\* Deliver adds a time, of a worker that will report it.
LEMMA DeliverTimes ==
    ASSUME RunInv, SummaryTimes, NEW w \in Workers, Deliver(w)
    PROVE  SummaryTimes'
  <1>1. /\ mode = "app" /\ mode' = mode /\ worker[w] = "delivering" /\ job' = job /\ ReadClock(w)
        /\ UNCHANGED summaryVars
        /\ worker'[w] = "reporting" /\ \A v \in Workers : v # w => worker'[v] = worker[v]
    BY DEF Deliver, RunInv, RunTypeOK
  <1>2. PICK j \in Jobs : job[w] = {j}
    BY <1>1 DEF RunInv, Carrying
  <1> DEFINE c == CustomerOf[j]
  <1>3. /\ clock' = clock + 1 /\ clock' \in Nat /\ clock \in Nat /\ stamp'[w] = clock'
        /\ \A v \in Workers : v # w => stamp'[v] = stamp[v]
        /\ c \in Customers
        /\ stamps'[c] = stamps[c] \cup {clock'}
        /\ \A d \in Customers : d # c => stamps'[d] = stamps[d]
        /\ stamps'[c] \in SUBSET Nat
    BY <1>1, <1>2, ClockOf
  <1>4. clock <= clock' /\ clock' > clock /\ clock' \in 1 .. clock' /\ \A t \in 1 .. clock : t \in 1 .. clock'
    BY <1>1, <1>2, ClockOf
  <1>. HIDE DEF c
  <1>5. ASSUME NEW d \in Customers, d # c PROVE TimesOf(d)'
    <2>1. UNCHANGED <<stamps[d], firstCompletionTimes[d], finishCompletionTimes[d], completionCounts[d]>>
      BY <1>1, <1>3, <1>5 DEF summaryVars
    <2>2. d # CustomerOf[j] /\ TimesOf(d)
      BY <1>5 DEF SummaryTimes, c
    <2>3. \A v \in Workers : v # w => worker'[v] = worker[v] /\ stamp'[v] = stamp[v]
      BY <1>1, <1>3
    <2>. QED
      BY <1>1, <1>2, <1>3, <1>4, <2>1, <2>2, <2>3, TimesOfOthers
  <1>6. TimesOf(c)'
    <2>1. /\ firstCompletionTimes'[c] = firstCompletionTimes[c]
          /\ finishCompletionTimes'[c] = finishCompletionTimes[c]
          /\ completionCounts'[c] = completionCounts[c]
      BY <1>1 DEF summaryVars
    <2>2. TimesOf(c)
      BY <1>3 DEF SummaryTimes
    <2>3. stamps'[c] \in SUBSET (1 .. clock')
      BY <1>3, <1>4, <2>2 DEF TimesOf
    <2>4. Reports(w, c)' /\ stamp'[w] = clock' /\ ~Reports(w, c)
      BY <1>1, <1>2, <1>3 DEF Reports, OfCustomer, c
    <2>5. \A v \in Workers : v # w => (Reports(v, c)' <=> Reports(v, c)) /\ stamp'[v] = stamp[v]
      BY <1>1, <1>3 DEF Reports
    <2>6. \A v \in Workers : Reports(v, c)' => stamp'[v] \in stamps'[c]
      BY <1>3, <2>2, <2>4, <2>5 DEF TimesOf
    <2>7. CASE completionCounts[c] = 0
      <3>1. \A t \in stamps'[c] : \E v \in Workers : Reports(v, c)' /\ stamp'[v] = t
        <4>1. ASSUME NEW t \in stamps[c] PROVE \E v \in Workers : Reports(v, c)' /\ stamp'[v] = t
          <5>1. PICK v \in Workers : Reports(v, c) /\ stamp[v] = t
            BY <2>2, <2>7 DEF TimesOf
          <5>. QED
            BY <2>4, <2>5, <5>1
        <4>. QED
          BY <1>3, <2>4, <4>1
      <3>2. firstCompletionTimes'[c] = 0 /\ finishCompletionTimes'[c] = 0 /\ completionCounts'[c] = 0
        BY <2>1, <2>2, <2>7 DEF TimesOf
      <3>3. mode' # "scheduler"
        BY <1>1
      <3>. QED
        BY <2>3, <2>6, <3>1, <3>2, <3>3 DEF TimesOf
    <2>8. CASE completionCounts[c] # 0
      <3>1. /\ firstCompletionTimes[c] \in stamps[c]
            /\ IsFiniteSet(Earlier(c)) /\ Cardinality(Earlier(c)) < Cardinality(Workers)
        BY <2>2, <2>8 DEF TimesOf
      <3>2. Earlier(c)' = Earlier(c)
        <4>1. /\ stamps'[c] \in SUBSET Nat /\ firstCompletionTimes[c] \in Nat
              /\ stamps[c] \in SUBSET stamps'[c]
              /\ \A t \in stamps'[c] : t \in stamps[c] \/ t > clock
          <5>1. firstCompletionTimes \in [Customers -> Nat]
            BY DEF RunInv, RunTypeOK
          <5>. QED
            BY <1>3, <1>4, <5>1
        <4>2. {t \in stamps'[c] : t < firstCompletionTimes[c]} = {t \in stamps[c] : t < firstCompletionTimes[c]}
          <5>1. c \in Customers /\ firstCompletionTimes[c] \in stamps[c]
            BY <1>3, <3>1
          <5>. QED
            BY <2>2, <4>1, <5>1, AfterClock, SMT
        <4>. QED
          BY <2>1, <4>2 DEF Earlier
      <3>3. IF completionCounts'[c] = 0 \/ completionCounts'[c] < EventsPerCustomer[c]
              THEN finishCompletionTimes'[c] = 0
              ELSE finishCompletionTimes'[c] \in stamps'[c]
        BY <1>3, <2>1, <2>2 DEF TimesOf
      <3>4. firstCompletionTimes'[c] \in stamps'[c] /\ completionCounts'[c] # 0 /\ mode' # "scheduler"
        BY <1>1, <1>3, <2>1, <2>8, <3>1
      <3>. QED
        BY <2>3, <2>6, <3>1, <3>2, <3>3, <3>4 DEF TimesOf
    <2>. QED
      BY <2>7, <2>8
  <1>. QED
    BY <1>5, <1>6 DEF SummaryTimes

-----------------------------------------------------------------------------
\* A customer has no more completions than jobs.
LEMMA CountsBounded ==
    ASSUME RunInv, SummaryCounts, NEW w \in Workers, NEW j \in Jobs, Completes(w, j)
    PROVE  LET c == CustomerOf[j] IN
           /\ completionCounts[c] \in Nat /\ EventsPerCustomer[c] \in Nat
           /\ completionCounts'[c] = completionCounts[c] + 1
           /\ completionCounts[c] + 1 <= EventsPerCustomer[c]
  <1> DEFINE c == CustomerOf[j]
  <1>1. c \in Customers /\ completionCounts[c] \in Nat /\ completionCounts'[c] = completionCounts[c] + 1
    BY DEF Completes, RunInv, RunTypeOK
  <1>2. completionCounts'[c] = Cardinality(Reported' \cap OfCustomer(c))
    BY <1>1, CompletionCounted
  <1>3. EventsPerCustomer[c] = Cardinality(OfCustomer(c))
    BY <1>1 DEF EventsPerCustomer, OfCustomer
  <1>4. IsFiniteSet(OfCustomer(c))
    BY FairnessRunAssumption, FS_Subset DEF OfCustomer
  <1>5. Reported' \cap OfCustomer(c) \in SUBSET OfCustomer(c)
    OBVIOUS
  <1>6. Cardinality(Reported' \cap OfCustomer(c)) <= Cardinality(OfCustomer(c))
    BY <1>4, <1>5, FS_Subset
  <1>7. Cardinality(OfCustomer(c)) \in Nat
    BY <1>4, FS_CardinalityType
  <1>. HIDE DEF c
  <1>8. completionCounts[c] + 1 <= EventsPerCustomer[c] /\ EventsPerCustomer[c] \in Nat
    BY <1>1, <1>2, <1>3, <1>6, <1>7
  <1>. QED
    BY <1>1, <1>8 DEF c

(***************************************************************************)
(* onCompletion records a time t0 of the customer: one that it read        *)
(* before, or now.  Nobody reads another time of the customer in the step. *)
(***************************************************************************)
Records(w, c, t0) ==
    /\ c \in Customers /\ stamp'[w] = t0
    /\ t0 \in stamps'[c]
    /\ stamps'[c] \in SUBSET (1 .. clock')
    /\ stamps'[c] = stamps[c] \cup {t0}
    /\ t0 \in stamps[c] \/ t0 > clock
    /\ Reports(w, c) => t0 = stamp[w]
    /\ ~Reports(w, c)'
    /\ \A v \in Workers : v # w => (Reports(v, c)' <=> Reports(v, c)) /\ stamp'[v] = stamp[v]
    /\ mode = "scheduler" => t0 = clock'

\* That is so in both modes that have a summary.
LEMMA CompletionRecords ==
    ASSUME RunInv, SummaryTimes, NEW w \in Workers, NEW j \in Jobs, Completes(w, j)
    PROVE  /\ Records(w, CustomerOf[j], stamp'[w])
           /\ clock' \in Nat /\ clock <= clock'
           /\ \A v \in Workers : v # w => worker'[v] = worker[v] /\ stamp'[v] = stamp[v]
           /\ \A d \in Customers : d # CustomerOf[j] => stamps'[d] = stamps[d]
  <1> DEFINE c == CustomerOf[j]
  <1>1. /\ c \in Customers /\ job[w] = {j} /\ job' = job /\ mode' = mode
        /\ worker'[w] = "reported" /\ \A v \in Workers : v # w => worker'[v] = worker[v]
        /\ TimesOf(c) /\ clock \in Nat /\ stamps[c] \in SUBSET Nat
    BY DEF Completes, SummaryTimes, RunInv, RunTypeOK
  <1>2. /\ ~Reports(w, c)' /\ stamps[c] \in SUBSET (1 .. clock)
        /\ \A v \in Workers : v # w => (Reports(v, c)' <=> Reports(v, c))
    BY <1>1 DEF Reports, TimesOf
  <1>3. CASE mode = "app" /\ worker[w] = "reporting" /\ UNCHANGED <<clock, stamp, stamps>>
    <2>1. Reports(w, c)
      BY <1>1, <1>3 DEF Reports, OfCustomer
    <2>2. stamp[w] \in stamps[c]
      BY <1>1, <2>1 DEF TimesOf
    <2>3. stamps'[c] = stamps[c] \cup {stamp[w]} /\ stamp'[w] = stamp[w]
      BY <1>3, <2>2
    <2>4. clock <= clock
      BY <1>1, SMT
    <2>. HIDE DEF c
    <2>5. Records(w, c, stamp'[w])
      BY <1>1, <1>2, <1>3, <2>2, <2>3 DEF Records
    <2>. QED
      BY <1>1, <1>3, <2>4, <2>5 DEF c
  <1>4. CASE mode = "scheduler" /\ worker[w] = "delivering" /\ ReadClock(w)
    <2>1. /\ clock' \in Nat /\ stamp'[w] = clock'
          /\ clock <= clock' /\ clock' > clock /\ clock' \in 1 .. clock'
          /\ \A t \in 1 .. clock : t \in 1 .. clock'
          /\ \A v \in Workers : v # w => stamp'[v] = stamp[v]
          /\ stamps'[c] = stamps[c] \cup {clock'}
          /\ \A d \in Customers : d # c => stamps'[d] = stamps[d]
      BY <1>1, <1>4, ClockOf
    <2>2. ~Reports(w, c)
      BY <1>4 DEF Reports
    <2>. HIDE DEF c
    <2>3. Records(w, c, stamp'[w])
      BY <1>1, <1>2, <2>1, <2>2 DEF Records
    <2>. QED
      BY <1>1, <2>1, <2>3 DEF c
  <1>. QED
    BY <1>3, <1>4 DEF Completes

-----------------------------------------------------------------------------
\* The first time recorded has fewer times before it than there are workers:
\* each belongs to another worker that is still on its way to the mutex.
LEMMA FirstOvertakesFew ==
    ASSUME RunInv, NEW w \in Workers, NEW c, NEW t0 \in Nat, TimesOf(c), Records(w, c, t0),
           completionCounts[c] = 0
    PROVE  LET T == {t \in stamps'[c] : t < t0} IN
           IsFiniteSet(T) /\ Cardinality(T) < Cardinality(Workers)
  <1> DEFINE T == {t \in stamps'[c] : t < t0}
             others == Workers \ {w}
             f == [v \in others |-> stamp[v]]
             image == {stamp[v] : v \in others}
  <1>1. IsFiniteSet(Workers) /\ Cardinality(Workers) \in Nat
    BY FairnessRunAssumption, FS_CardinalityType
  <1>2. IsFiniteSet(others) /\ Cardinality(others) = Cardinality(Workers) - 1
    BY <1>1, FS_RemoveElement
  <1>3. f \in Surjection(others, image)
    BY DEF Surjection
  <1>4. IsFiniteSet(image) /\ Cardinality(image) <= Cardinality(others)
    BY <1>2, <1>3, FS_Surjection
  <1>5. T \in SUBSET image
    <2> SUFFICES ASSUME NEW t \in stamps'[c], t < t0 PROVE t \in image
      OBVIOUS
    <2>1. t # t0
      BY SMT
    <2>2. t \in stamps[c]
      BY <2>1 DEF Records
    <2>3. PICK v \in Workers : Reports(v, c) /\ stamp[v] = t
      BY <2>2 DEF TimesOf
    <2>4. v # w
      BY <2>1, <2>3 DEF Records
    <2>. QED
      BY <2>3, <2>4
  <1>6. IsFiniteSet(T) /\ Cardinality(T) <= Cardinality(image)
    BY <1>4, <1>5, FS_Subset
  <1>7. Cardinality(T) \in Nat /\ Cardinality(image) \in Nat /\ Cardinality(others) \in Nat
    BY <1>2, <1>4, <1>6, FS_CardinalityType
  <1>. HIDE DEF T, image, others
  <1>8. Cardinality(T) < Cardinality(Workers)
    BY <1>1, <1>2, <1>4, <1>6, <1>7, SMT
  <1>. QED
    BY <1>6, <1>8 DEF T

\* onCompletion keeps what is said of the times of its customer.
LEMMA CompletionTimesOf ==
    ASSUME RunInv, SummaryCounts, SummaryTimes, NEW w \in Workers, NEW j \in Jobs, Completes(w, j)
    PROVE  TimesOf(CustomerOf[j])'
  <1> DEFINE c == CustomerOf[j]
             t0 == stamp'[w]
  <1>1. Records(w, c, t0)
    BY CompletionRecords
  <1>2. /\ completionCounts[c] \in Nat /\ EventsPerCustomer[c] \in Nat
        /\ completionCounts'[c] = completionCounts[c] + 1
        /\ completionCounts[c] + 1 <= EventsPerCustomer[c]
    BY CountsBounded
  <1>3. /\ c \in Customers /\ mode' = mode
        /\ firstCompletionTimes'[c] = IF completionCounts[c] = 0 THEN t0 ELSE firstCompletionTimes[c]
        /\ finishCompletionTimes'[c] = IF completionCounts[c] + 1 = EventsPerCustomer[c]
                                         THEN t0 ELSE finishCompletionTimes[c]
        /\ firstCompletionTimes[c] \in Nat
    BY DEF Completes, RunInv, RunTypeOK
  <1>4. TimesOf(c)
    BY <1>3 DEF SummaryTimes
  <1>. HIDE DEF c, t0
  <1>5. /\ t0 \in stamps'[c] /\ stamps'[c] \in SUBSET (1 .. clock') /\ stamps[c] \in SUBSET stamps'[c]
        /\ \A t \in stamps'[c] : t \in stamps[c] \/ t > clock
    BY <1>1 DEF Records
  <1>6. t0 \in Nat /\ clock' \in Nat
    <2>1. t0 \in 1 .. clock'
      BY <1>5
    <2>2. clock' \in Nat
      BY CompletionRecords
    <2>. QED
      BY <2>1, <2>2, SMT
  <1>7. \A v \in Workers : Reports(v, c)' => stamp'[v] \in stamps'[c]
    BY <1>1, <1>4, <1>5 DEF Records, TimesOf
  <1>8. completionCounts'[c] # 0
    BY <1>2, SMT
  <1>9. /\ firstCompletionTimes'[c] \in stamps'[c]
        /\ IsFiniteSet(Earlier(c)') /\ Cardinality(Earlier(c)') < Cardinality(Workers)
    <2>1. CASE completionCounts[c] = 0
      <3>1. LET T == {t \in stamps'[c] : t < t0} IN
            IsFiniteSet(T) /\ Cardinality(T) < Cardinality(Workers)
        BY <1>1, <1>4, <1>6, <2>1, FirstOvertakesFew
      <3>2. firstCompletionTimes'[c] = t0
        BY <1>3, <2>1
      <3>. QED
        BY <1>5, <3>1, <3>2 DEF Earlier
    <2>2. CASE completionCounts[c] # 0
      <3>1. firstCompletionTimes'[c] = firstCompletionTimes[c]
        BY <1>3, <2>2
      <3>2. /\ firstCompletionTimes[c] \in stamps[c]
            /\ IsFiniteSet(Earlier(c)) /\ Cardinality(Earlier(c)) < Cardinality(Workers)
        BY <1>4, <2>2 DEF TimesOf
      <3>3. stamps'[c] \in SUBSET Nat
        BY <1>5, <1>6, SMT
      <3>4. {t \in stamps'[c] : t < firstCompletionTimes[c]} = {t \in stamps[c] : t < firstCompletionTimes[c]}
        <4>1. c \in Customers /\ firstCompletionTimes[c] \in Nat
          BY <1>3
        <4>. QED
          BY <1>4, <1>5, <3>2, <3>3, <4>1, AfterClock, SMT
      <3>5. Earlier(c)' = Earlier(c)
        BY <3>1, <3>4 DEF Earlier
      <3>. QED
        BY <1>5, <3>1, <3>2, <3>5
    <2>. QED
      BY <2>1, <2>2
  <1>10. IF completionCounts'[c] = 0 \/ completionCounts'[c] < EventsPerCustomer[c]
           THEN finishCompletionTimes'[c] = 0
           ELSE finishCompletionTimes'[c] \in stamps'[c]
    <2>1. CASE completionCounts[c] + 1 = EventsPerCustomer[c]
      <3>1. ~(completionCounts'[c] < EventsPerCustomer[c])
        BY <1>2, <2>1, SMT
      <3>. QED
        BY <1>3, <1>5, <1>8, <2>1, <3>1
    <2>2. CASE completionCounts[c] + 1 # EventsPerCustomer[c]
      <3>1. completionCounts'[c] < EventsPerCustomer[c] /\ completionCounts[c] < EventsPerCustomer[c]
        BY <1>2, <2>2, SMT
      <3>. QED
        BY <1>3, <1>4, <2>2, <3>1 DEF TimesOf
    <2>. QED
      BY <2>1, <2>2
  <1>11. ASSUME mode' = "scheduler", completionCounts'[c] = EventsPerCustomer[c], NEW t \in stamps'[c]
         PROVE  t <= finishCompletionTimes'[c]
    <2>1. finishCompletionTimes'[c] = clock'
      BY <1>1, <1>2, <1>3, <1>11 DEF Records
    <2>2. t \in 1 .. clock'
      BY <1>5
    <2>. QED
      BY <1>6, <2>1, <2>2, SMT
  <1>12. TimesOf(c)'
    BY <1>5, <1>7, <1>8, <1>9, <1>10, <1>11 DEF TimesOf
  <1>. QED
    BY <1>12 DEF c

\* So does every step.
LEMMA TimesStep == RunInv /\ SummaryCounts /\ SummaryTimes /\ [RunNext]_runVars => SummaryTimes'
  <1> SUFFICES ASSUME RunInv, SummaryCounts, SummaryTimes, [RunNext]_runVars PROVE SummaryTimes'
    OBVIOUS
  <1>1. ASSUME NEW w \in Workers, OnCompletion(w) PROVE SummaryTimes'
    <2>1. PICK j \in Jobs : Completes(w, j)
      BY <1>1, CompletionEffect
    <2>2. TimesOf(CustomerOf[j])'
      BY <2>1, CompletionTimesOf
    <2>3. ASSUME NEW d \in Customers, d # CustomerOf[j] PROVE TimesOf(d)'
      <3>1. /\ clock' \in Nat /\ clock <= clock'
            /\ \A v \in Workers : v # w => worker'[v] = worker[v] /\ stamp'[v] = stamp[v]
            /\ stamps'[d] = stamps[d]
        BY <2>1, <2>3, CompletionRecords
      <3>2. /\ job[w] = {j} /\ job' = job /\ mode' = mode
            /\ UNCHANGED <<firstCompletionTimes[d], finishCompletionTimes[d], completionCounts[d]>>
        BY <2>1, <2>3 DEF Completes, RunInv, RunTypeOK
      <3>3. TimesOf(d)
        BY DEF SummaryTimes
      <3>. QED
        BY <2>3, <3>1, <3>2, <3>3, TimesOfOthers
    <2>. QED
      BY <2>2, <2>3 DEF SummaryTimes
  <1>. QED
    BY <1>1, DeliverTimes, OtherStepsReadNoClock

-----------------------------------------------------------------------------
SummaryInv == RunInv /\ SummaryCounts /\ SummaryTimes

\* What is said of the summary holds throughout a run.
LEMMA SummaryInvariance == RunSpec => []SummaryInv
  <1>1. RunInit => SummaryInv
    BY InitRunInv, InitCounts, InitTimes DEF SummaryInv
  <1>2. SummaryInv /\ [RunNext]_runVars => SummaryInv'
    BY RunInductiveStep, CountsStep, TimesStep DEF SummaryInv
  <1>. QED
    BY <1>1, <1>2, PTL DEF RunSpec

\* When a run has returned, all jobs are completed.
LEMMA ReturnedCompleted ==
    ASSUME RunInv, main = "returned"
    PROVE  Completed = Jobs /\ Reported = Jobs
  <1>1. deliveryGroup = 0 /\ \A w \in Workers : worker[w] = "done"
    BY DEF RunInv, Ending
  <1>2. Jobs \ Done = {}
    BY <1>1, AllDone
  <1>3. CarriedIn({"marking"}) = {}
    BY <1>1 DEF CarriedIn
  <1>4. Completed = Jobs
    BY <1>2, <1>3 DEF Done, Past, Completed
  <1>. QED
    BY <1>4 DEF Reported, Past, CarriedIn

\* Then every customer has all its completions.
LEMMA ReturnedCounts ==
    ASSUME SummaryInv, main = "returned", mode # "throughput", NEW c \in Customers
    PROVE  completionCounts[c] = EventsPerCustomer[c]
  <1>1. Reported \cap OfCustomer(c) = OfCustomer(c)
    BY ReturnedCompleted DEF SummaryInv, OfCustomer
  <1>2. completionCounts[c] = Cardinality(OfCustomer(c))
    BY <1>1 DEF SummaryInv, SummaryCounts
  <1>. QED
    BY <1>2 DEF EventsPerCustomer, OfCustomer

(***************************************************************************)
(* The report of a run that returned is final, in any scenario, with any   *)
(* number of workers: nothing is lost between the poller, the scheduler    *)
(* and the workers, deliveryGroup.Wait() waits for every onCompletion, and *)
(* no completion is counted twice or after the summary was read.           *)
(***************************************************************************)
THEOREM ReportIsFinal == RunSpec => []SummaryIsComplete
  <1>1. SummaryInv => SummaryIsComplete
    <2> SUFFICES ASSUME SummaryInv, main = "returned"
                 PROVE  SummaryIsComplete
      BY DEF SummaryIsComplete
    <2>1. \A j \in Jobs : status[j] = "completed"
      BY ReturnedCompleted DEF SummaryInv, Completed
    <2>2. ASSUME mode # "throughput" PROVE completionCounts = EventsPerCustomer
      <3>1. completionCounts \in [Customers -> Nat]
        BY DEF SummaryInv, RunInv, RunTypeOK
      <3>2. completionCounts = [c \in Customers |-> completionCounts[c]]
        BY <3>1
      <3>3. EventsPerCustomer = [c \in Customers |-> EventsPerCustomer[c]]
        BY DEF EventsPerCustomer
      <3>4. \A c \in Customers : completionCounts[c] = EventsPerCustomer[c]
        BY <2>2, ReturnedCounts
      <3>. QED
        BY <3>2, <3>3, <3>4
    <2>3. ASSUME mode # "throughput" PROVE EarlyWindow = Cardinality(CountedOut(earlyCompletionCounts))
      <3>1. /\ totalCompleted = Cardinality(Jobs)
            /\ Cardinality(CountedOut(earlyCompletionCounts)) =
                  IF totalCompleted <= EarlyWindow THEN totalCompleted ELSE EarlyWindow
        BY <2>3, ReturnedCompleted DEF SummaryInv, SummaryCounts
      <3>2. totalCompleted <= EarlyWindow => totalCompleted = EarlyWindow
        <4>1. totalCompleted = Cardinality(Jobs)
          BY <3>1
        <4>. QED
          BY <4>1, WindowType, SMT
      <3>. QED
        BY <3>1, <3>2
    <2>4. ASSUME mode # "throughput", NEW c \in Customers, EventsPerCustomer[c] > 0
          PROVE  firstCompletionTimes[c] > 0 /\ finishCompletionTimes[c] > 0
      <3>1. completionCounts[c] = EventsPerCustomer[c] /\ completionCounts[c] \in Nat
        BY <2>4, ReturnedCounts DEF SummaryInv, RunInv, RunTypeOK
      <3>2. completionCounts[c] # 0 /\ ~(completionCounts[c] < EventsPerCustomer[c])
        BY <2>4, <3>1, SMT
      <3>3. firstCompletionTimes[c] \in stamps[c] /\ finishCompletionTimes[c] \in stamps[c]
        BY <3>2 DEF SummaryInv, SummaryTimes, TimesOf
      <3>4. stamps[c] \in SUBSET (1 .. clock) /\ clock \in Nat
        BY DEF SummaryInv, SummaryTimes, TimesOf, RunInv, RunTypeOK
      <3>. QED
        BY <3>3, <3>4, SMT
    <2>. QED
      BY <2>1, <2>2, <2>3, <2>4 DEF SummaryIsComplete
  <1>. QED
    BY <1>1, SummaryInvariance, PTL

(***************************************************************************)
(* However the workers of mode "app" are delayed between time.Now() and    *)
(* completionMutex, the recorded first-finish time of a customer has fewer *)
(* of its completions before it than there are workers.                    *)
(***************************************************************************)
THEOREM FirstFinishBound == RunSpec => []FirstFinishIsNearlyFirst
  <1>1. SummaryInv => FirstFinishIsNearlyFirst
    <2> SUFFICES ASSUME SummaryInv, NEW c \in Customers
                 PROVE  Cardinality({t \in stamps[c] : t < firstCompletionTimes[c]}) < Cardinality(Workers)
      BY DEF FirstFinishIsNearlyFirst
    <2>1. TimesOf(c) /\ clock \in Nat
      BY DEF SummaryInv, SummaryTimes, RunInv, RunTypeOK
    <2>2. CASE completionCounts[c] = 0
      <3>1. firstCompletionTimes[c] = 0 /\ stamps[c] \in SUBSET (1 .. clock)
        BY <2>1, <2>2 DEF TimesOf
      <3>2. {t \in stamps[c] : t < firstCompletionTimes[c]} = {}
        BY <2>1, <3>1, SMT
      <3>3. Cardinality({}) = 0 /\ Cardinality(Workers) \in Nat /\ Cardinality(Workers) # 0
        BY FairnessRunAssumption, FS_EmptySet, FS_CardinalityType
      <3>. QED
        BY <3>2, <3>3, SMT
    <2>3. CASE completionCounts[c] # 0
      BY <2>1, <2>3 DEF TimesOf, Earlier
    <2>. QED
      BY <2>2, <2>3
  <1>. QED
    BY <1>1, SummaryInvariance, PTL

-----------------------------------------------------------------------------
\* In mode "scheduler" the finish time is the last time of the customer.
LEMMA FinishIsLast ==
    ASSUME SummaryInv, main = "returned", mode = "scheduler", NEW c \in Customers
    PROVE  /\ finishCompletionTimes[c] \in Nat /\ stamps[c] \in SUBSET (Nat \ {0})
           /\ \A t \in stamps[c] : t <= finishCompletionTimes[c]
           /\ finishCompletionTimes[c] = 0 \/ finishCompletionTimes[c] \in stamps[c]
  <1>1. completionCounts[c] = EventsPerCustomer[c]
    BY ReturnedCounts
  <1>2. TimesOf(c) /\ clock \in Nat /\ finishCompletionTimes[c] \in Nat
    BY DEF SummaryInv, SummaryTimes, RunInv, RunTypeOK
  <1>3. stamps[c] \in SUBSET (Nat \ {0})
    <2>1. stamps[c] \in SUBSET (1 .. clock)
      BY <1>2 DEF TimesOf
    <2>. QED
      BY <1>2, <2>1, SMT
  <1>. QED
    BY <1>1, <1>2, <1>3 DEF TimesOf

\* So comparing finish times is comparing all times of two customers.
LEMMA FinishComparesTimes ==
    ASSUME SummaryInv, main = "returned", mode = "scheduler", NEW c \in Customers, NEW d \in Customers
    PROVE  finishCompletionTimes[c] < finishCompletionTimes[d] <=>
              \E u \in stamps[d] : \A t \in stamps[c] : t < u
  <1> DEFINE fc == finishCompletionTimes[c]
             fd == finishCompletionTimes[d]
  <1>1. /\ fc \in Nat /\ stamps[c] \in SUBSET (Nat \ {0}) /\ \A t \in stamps[c] : t <= fc
        /\ fc = 0 \/ fc \in stamps[c]
    BY FinishIsLast
  <1>2. /\ fd \in Nat /\ stamps[d] \in SUBSET (Nat \ {0}) /\ \A t \in stamps[d] : t <= fd
        /\ fd = 0 \/ fd \in stamps[d]
    BY FinishIsLast
  <1>. HIDE DEF fc, fd
  <1>3. ASSUME fc < fd PROVE \E u \in stamps[d] : \A t \in stamps[c] : t < u
    <2>1. fd # 0
      BY <1>1, <1>2, <1>3, SMT
    <2>2. \A t \in stamps[c] : t < fd
      BY <1>1, <1>2, <1>3, SMT
    <2>. QED
      BY <1>2, <2>1, <2>2
  <1>4. ASSUME NEW u \in stamps[d], \A t \in stamps[c] : t < u PROVE fc < fd
    <2>1. u \in Nat \ {0} /\ u <= fd
      BY <1>2
    <2>2. fc < u
      BY <1>1, <1>4, <2>1, SMT
    <2>. QED
      BY <1>1, <1>2, <2>1, <2>2, SMT
  <1>5. fc < fd <=> \E u \in stamps[d] : \A t \in stamps[c] : t < u
    BY <1>3, <1>4
  <1>. QED
    BY <1>5 DEF fc, fd

(***************************************************************************)
(* analyzeFairnessRun judges the scheduler's worker run correctly, for any *)
(* customers, segments and number of workers: it prints that the           *)
(* non-whales finished before the whales exactly when they did.            *)
(***************************************************************************)
THEOREM VerdictIsRight == RunSpec => []VerdictIsSound
  <1>1. SummaryInv => VerdictIsSound
    <2> DEFINE whales == {c \in Customers : CustomerSegments[c] = "whale"}
               others == Customers \ whales
    <2> SUFFICES ASSUME SummaryInv, main = "returned", mode = "scheduler"
                 PROVE  NonWhalesFinishedBeforeWhales <=>
                           /\ whales # {} /\ others # {}
                           /\ \A c \in others, d \in whales :
                                 \E u \in stamps[d] : \A t \in stamps[c] : t < u
      BY DEF VerdictIsSound
    <2>1. others = {c \in Customers : CustomerSegments[c] = "non-whale"}
      BY FairnessRunAssumption
    <2>2. /\ FinishTimes("whale") = {finishCompletionTimes[c] : c \in whales}
          /\ FinishTimes("non-whale") = {finishCompletionTimes[c] : c \in others}
      BY <2>1 DEF FinishTimes
    <2>3. whales \in SUBSET Customers /\ others \in SUBSET Customers
      OBVIOUS
    <2>. HIDE DEF whales, others
    <2>4. NonWhalesFinishedBeforeWhales <=>
             /\ whales # {} /\ others # {}
             /\ \A c \in others, d \in whales : finishCompletionTimes[c] < finishCompletionTimes[d]
      <3>1. /\ FinishTimes("whale") # {} <=> whales # {}
            /\ FinishTimes("non-whale") # {} <=> others # {}
        BY <2>2, SMT
      <3>2. (\A t \in FinishTimes("non-whale"), u \in FinishTimes("whale") : t < u) <=>
               \A c \in others, d \in whales : finishCompletionTimes[c] < finishCompletionTimes[d]
        BY <2>2, SMT
      <3>. QED
        BY <3>1, <3>2 DEF NonWhalesFinishedBeforeWhales
    <2>5. \A c \in others, d \in whales :
             finishCompletionTimes[c] < finishCompletionTimes[d] <=>
                \E u \in stamps[d] : \A t \in stamps[c] : t < u
      BY <2>3, FinishComparesTimes
    <2>. QED
      BY <2>4, <2>5
  <1>. QED
    BY <1>1, SummaryInvariance, PTL
=============================================================================

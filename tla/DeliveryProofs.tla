--------------------------- MODULE DeliveryProofs ---------------------------
(***************************************************************************)
(* Proofs about the counters of Delivery, for any number of deliveries and *)
(* workers, any environment and any answers.  Each counter is related to   *)
(* the number of deliveries that have passed one place of the worker's     *)
(* code and not yet the other.                                             *)
(***************************************************************************)
EXTENDS Delivery, FiniteSetTheorems, WellFoundedInduction, TLAPS

(***************************************************************************)
(* Most leaves are first-order reasoning for Zenon; a leaf that needs      *)
(* arithmetic, functions or records cites SMT.                             *)
(***************************************************************************)
USE Zenon

States == InHand \cup {"queued", "waiting", "delivered", "dead_lettered", "orphaned"}

Counts == [delivered : Nat, failed : Nat, retried : Nat, deadLetter : Nat]

\* The deliveries in a state, and those that the metrics count as retried and
\* that the worker has still to retry.
In(s) == {d \in Deliveries : state[d] = s}

MayRetry(d) == Result(d).shouldRetry /\ CanRetry(attempt[d])

WillRetry == {d \in Deliveries : state[d] \in {"recorded", "failed"} /\ MayRetry(d)}

Types ==
    /\ state \in [Deliveries -> States]
    /\ attempt \in [Deliveries -> Nat]
    /\ answer \in [Deliveries -> Answers \cup {NoAnswer}]
    /\ \A d \in Deliveries : state[d] \in {"recorded", "failed"} => answer[d] \in Answers
    /\ metrics \in Counts
    /\ stats \in Counts
    /\ deadLetters \in Nat
    /\ report \in Seq(Nat)
    /\ config.workerCount \in Int

Sums ==
    /\ stats.failed = stats.retried + stats.deadLetter + Cardinality(In("failed"))
    /\ metrics.delivered + metrics.failed
          = stats.delivered + stats.failed + Cardinality(In("recorded"))
    /\ metrics.retried = stats.retried + Cardinality(WillRetry)
    /\ stats.deadLetter = metrics.deadLetter + Cardinality(In("deadLettering"))
    /\ metrics.deadLetter = deadLetters + Cardinality(In("recording"))
    /\ Cardinality(In("dead_lettered")) <= deadLetters
    /\ Cardinality(Busy) <= WorkerTotal

\* What a report has read, against what it is going to read.
Read ==
    /\ Len(report) <= 4
    /\ Len(report) = 2 => report[2] <= stats.retried + stats.deadLetter + WorkerTotal
    /\ Len(report) = 3 => report[2] <= report[3] + stats.deadLetter + WorkerTotal
    /\ Len(report) = 4 => report[2] <= report[3] + report[4] + WorkerTotal

IInv == Types /\ Sums /\ Read

-----------------------------------------------------------------------------
\* All these sets are finite.
LEMMA FiniteStates ==
    /\ \A s : IsFiniteSet(In(s)) /\ Cardinality(In(s)) \in Nat
    /\ IsFiniteSet(WillRetry) /\ Cardinality(WillRetry) \in Nat
    /\ IsFiniteSet(Busy) /\ Cardinality(Busy) \in Nat
  <1>1. ASSUME NEW S \in SUBSET Deliveries PROVE IsFiniteSet(S) /\ Cardinality(S) \in Nat
    BY DeliveryAssumption, FS_Subset, FS_CardinalityType, SMT
  <1>. QED
    BY <1>1 DEF In, WillRetry, Busy

\* A delivery that goes from one state to another.
LEMMA GotoEffect ==
    ASSUME Types, NEW d \in Deliveries, NEW from \in States, NEW to \in States, from # to,
           Goto(d, from, to)
    PROVE  /\ state' \in [Deliveries -> States]
           /\ state[d] = from /\ state'[d] = to
           /\ \A e \in Deliveries : e # d => state'[e] = state[e]
           /\ Cardinality(In(from)') = Cardinality(In(from)) - 1
           /\ Cardinality(In(to)') = Cardinality(In(to)) + 1
           /\ \A s : s # from /\ s # to => Cardinality(In(s)') = Cardinality(In(s))
           /\ Cardinality(Busy') = Cardinality(Busy)
                 + (IF to \in InHand THEN 1 ELSE 0) - (IF from \in InHand THEN 1 ELSE 0)
  <1>1. /\ state' \in [Deliveries -> States] /\ state[d] = from /\ state'[d] = to
        /\ \A e \in Deliveries : e # d => state'[e] = state[e]
    BY DEF Goto, Types
  <1>2. /\ In(from)' = In(from) \ {d} /\ In(to)' = In(to) \cup {d}
        /\ d \in In(from) /\ d \notin In(to)
        /\ \A s : s # from /\ s # to => In(s)' = In(s)
    BY <1>1, SMT DEF In
  <1>3. /\ Cardinality(In(from) \ {d}) = Cardinality(In(from)) - 1
        /\ Cardinality(In(to) \cup {d}) = Cardinality(In(to)) + 1
    BY <1>2, FiniteStates, FS_AddElement, FS_RemoveElement
  <1>4. Cardinality(Busy') = Cardinality(Busy)
           + (IF to \in InHand THEN 1 ELSE 0) - (IF from \in InHand THEN 1 ELSE 0)
    <2>1. Cardinality(Busy) \in Nat /\ IsFiniteSet(Busy)
      BY FiniteStates
    <2>2. CASE to \in InHand <=> from \in InHand
      <3>1. Busy' = Busy
        BY <1>1, <2>2 DEF Busy
      <3>. QED
        BY <2>1, <2>2, <3>1, SMT
    <2>3. CASE to \in InHand /\ from \notin InHand
      <3>1. Busy' = Busy \cup {d} /\ d \notin Busy
        BY <1>1, <2>3 DEF Busy
      <3>2. Cardinality(Busy \cup {d}) = Cardinality(Busy) + 1
        BY <2>1, <3>1, FS_AddElement
      <3>. QED
        BY <2>1, <2>3, <3>1, <3>2, SMT
    <2>4. CASE to \notin InHand /\ from \in InHand
      <3>1. Busy' = Busy \ {d} /\ d \in Busy
        BY <1>1, <2>4 DEF Busy
      <3>2. Cardinality(Busy \ {d}) = Cardinality(Busy) - 1
        BY <2>1, <3>1, FS_RemoveElement
      <3>. QED
        BY <2>1, <2>4, <3>1, <3>2, SMT
    <2>. QED
      BY <2>2, <2>3, <2>4
  <1>. QED
    BY <1>1, <1>2, <1>3, <1>4

\* A success is never retried (Deliver).
LEMMA SuccessIsFinal ==
    ASSUME NEW a \in Answers, IsSuccess(Deliver(a).statusCode)
    PROVE  ~Deliver(a).shouldRetry
  <1>1. CASE a = Unsent
    BY <1>1 DEF Unsent, Deliver
  <1>2. CASE a \in [kind : {"status"}, code : StatusCodes]
    BY <1>2 DEF Deliver
  <1>3. CASE a \in [kind : {"error"}, cause : Causes]
    BY <1>3, SMT DEF Deliver, IsSuccess
  <1>. QED
    BY <1>1, <1>2, <1>3 DEF Answers

\* A report keeps its bound while the counters it has still to read grow.
LEMMA ReadKept ==
    ASSUME Types, stats' \in Counts, Read, report' = report, config' = config,
           stats'.retried >= stats.retried, stats'.deadLetter >= stats.deadLetter
    PROVE  Read'
  <1>1. WorkerTotal' = WorkerTotal /\ WorkerTotal \in Nat
    BY SMT DEF Types, WorkerTotal
  <1>2. /\ stats.retried \in Nat /\ stats.deadLetter \in Nat
        /\ stats'.retried \in Nat /\ stats'.deadLetter \in Nat
    BY DEF Types, Counts
  <1>3. Len(report) >= 2 => report[2] \in Nat
    BY SMT DEF Types
  <1>4. Len(report) >= 3 => report[3] \in Nat
    BY SMT DEF Types
  <1>5. Len(report) \in Nat
    BY SMT DEF Types
  <1>6. CASE Len(report) = 2
    BY <1>1, <1>2, <1>3, <1>6, SMT DEF Read
  <1>7. CASE Len(report) = 3
    BY <1>1, <1>2, <1>3, <1>4, <1>7, SMT DEF Read
  <1>8. CASE Len(report) \notin {2, 3}
    BY <1>1, <1>5, <1>8 DEF Read
  <1>. QED
    BY <1>6, <1>7, <1>8

\* What a report has read is one of the counters.
LEMMA Loading ==
    ASSUME IInv, HandleStats
    PROVE  IInv'
  <1>1. UNCHANGED <<config, state, attempt, answer, metrics, stats, deadLetters>>
    BY DEF HandleStats, LoadCounter, WriteReport, deliveryVars, counterVars
  <1>2. Sums'
    BY <1>1 DEF IInv, Sums, In, WillRetry, MayRetry, Result, CanRetry, Busy, WorkerTotal
  <1>3. WorkerTotal' = WorkerTotal /\ WorkerTotal \in Nat
    BY <1>1, SMT DEF IInv, Types, WorkerTotal
  <1>4. /\ stats.delivered \in Nat /\ stats.failed \in Nat
        /\ stats.retried \in Nat /\ stats.deadLetter \in Nat
    BY DEF IInv, Types, Counts
  <1>5. stats.failed <= stats.retried + stats.deadLetter + WorkerTotal
    <2>1. In("failed") \subseteq Busy
      BY DEF In, Busy, InHand
    <2>2. Cardinality(In("failed")) <= Cardinality(Busy)
      BY <2>1, FiniteStates, FS_Subset
    <2>. QED
      BY <1>3, <1>4, <2>2, FiniteStates, SMT DEF IInv, Sums
  <1>6. CASE LoadCounter
    <2>1. Len(report) \in 0 .. 3
      <3>1. Len(report) \in Nat
        BY SMT DEF IInv, Types
      <3>2. Len(StatsOrder) = 4
        BY DEF StatsOrder
      <3>3. Len(report) < Len(StatsOrder)
        BY <1>6 DEF LoadCounter
      <3>4. \A n \in Nat : n < 4 => n \in 0 .. 3
        BY SMT
      <3>. QED
        BY <3>1, <3>2, <3>3, <3>4, Zenon
    <2>2. PICK v : /\ report' = Append(report, v)
                   /\ v = stats[StatsOrder[Len(report) + 1]]
      BY <1>6 DEF LoadCounter
    <2>3. /\ Len(report) = 0 => v = stats.delivered
          /\ Len(report) = 1 => v = stats.failed
          /\ Len(report) = 2 => v = stats.retried
          /\ Len(report) = 3 => v = stats.deadLetter
      <3>1. /\ StatsOrder[1] = "delivered" /\ StatsOrder[2] = "failed"
            /\ StatsOrder[3] = "retried" /\ StatsOrder[4] = "deadLetter"
        BY DEF StatsOrder
      <3>2. 0 + 1 = 1 /\ 1 + 1 = 2 /\ 2 + 1 = 3 /\ 3 + 1 = 4
        BY SMT
      <3>. QED
        BY <2>2, <3>1, <3>2, Zenon
    <2>4. v \in Nat
      BY <1>4, <2>1, <2>3, SMT
    <2>5. /\ report' \in Seq(Nat) /\ Len(report') = Len(report) + 1
          /\ report'[Len(report) + 1] = v
          /\ \A i \in 1 .. Len(report) : report'[i] = report[i]
      BY <2>2, <2>4, SMT DEF IInv, Types
    <2>6. Types'
      BY <1>1, <2>5 DEF IInv, Types
    <2>7. Len(report) >= 2 => report[2] \in Nat
      BY SMT DEF IInv, Types
    <2>8. Len(report) >= 3 => report[3] \in Nat
      BY SMT DEF IInv, Types
    <2>9. Read'
      <3>1. CASE Len(report) = 0
        BY <2>5, <3>1, SMT DEF Read
      <3>2. CASE Len(report) = 1
        BY <1>1, <1>3, <1>4, <1>5, <2>3, <2>5, <3>2, SMT DEF Read
      <3>3. CASE Len(report) = 2
        BY <1>1, <1>3, <1>4, <2>3, <2>5, <2>7, <3>3, SMT DEF Read, IInv
      <3>4. CASE Len(report) = 3
        BY <1>1, <1>3, <1>4, <2>3, <2>5, <2>7, <2>8, <3>4, SMT DEF Read, IInv
      <3>. QED
        BY <2>1, <3>1, <3>2, <3>3, <3>4, SMT
    <2>. QED
      BY <1>2, <2>6, <2>9 DEF IInv
  <1>7. CASE WriteReport
    <2>1. report' = <<>>
      BY <1>7 DEF WriteReport
    <2>. QED
      BY <1>1, <1>2, <2>1, SMT DEF IInv, Types, Read
  <1>. QED
    BY <1>6, <1>7 DEF HandleStats

\* The deliveries that a step of another one leaves alone.
LEMMA OthersKept ==
    ASSUME NEW d \in Deliveries, config' = config,
           \A e \in Deliveries \ {d} :
               state'[e] = state[e] /\ answer'[e] = answer[e] /\ attempt'[e] = attempt[e]
    PROVE  \A e \in Deliveries \ {d} : e \in WillRetry' <=> e \in WillRetry
  BY DEF WillRetry, MayRetry, Result, CanRetry

\* The deliveries to be retried, when d joins them, leaves them or neither.
LEMMA RetryCount ==
    ASSUME NEW d \in Deliveries, \A e \in Deliveries \ {d} : e \in WillRetry' <=> e \in WillRetry
    PROVE  /\ (d \in WillRetry' <=> d \in WillRetry) => Cardinality(WillRetry') = Cardinality(WillRetry)
           /\ d \in WillRetry' /\ d \notin WillRetry
                 => Cardinality(WillRetry') = Cardinality(WillRetry) + 1
           /\ d \notin WillRetry' /\ d \in WillRetry
                 => Cardinality(WillRetry') = Cardinality(WillRetry) - 1
  <1>0. WillRetry \subseteq Deliveries /\ WillRetry' \subseteq Deliveries
    BY DEF WillRetry
  <1>1. (d \in WillRetry' <=> d \in WillRetry) => WillRetry' = WillRetry
    BY <1>0, SMT
  <1>2. d \in WillRetry' /\ d \notin WillRetry => WillRetry' = WillRetry \cup {d}
    BY <1>0
  <1>3. d \notin WillRetry' /\ d \in WillRetry => WillRetry' = WillRetry \ {d}
    BY <1>0
  <1>. QED
    BY <1>1, <1>2, <1>3, FiniteStates, FS_AddElement, FS_RemoveElement, SMT

One(b) == IF b THEN 1 ELSE 0

\* What one delivery adds to the counters on its way from one state to another,
\* and what that has to match.
Matches(d, from, to) ==
    /\ stats'.failed - stats.failed
          = (stats'.retried - stats.retried) + (stats'.deadLetter - stats.deadLetter)
            + One(to = "failed") - One(from = "failed")
    /\ (metrics'.delivered - metrics.delivered) + (metrics'.failed - metrics.failed)
          = (stats'.delivered - stats.delivered) + (stats'.failed - stats.failed)
            + One(to = "recorded") - One(from = "recorded")
    /\ metrics'.retried - metrics.retried
          = (stats'.retried - stats.retried) + One(d \in WillRetry') - One(d \in WillRetry)
    /\ stats'.deadLetter - stats.deadLetter
          = (metrics'.deadLetter - metrics.deadLetter)
            + One(to = "deadLettering") - One(from = "deadLettering")
    /\ metrics'.deadLetter - metrics.deadLetter
          = (deadLetters' - deadLetters) + One(to = "recording") - One(from = "recording")
    /\ One(to = "dead_lettered") <= deadLetters' - deadLetters
    /\ stats'.retried >= stats.retried
    /\ stats'.deadLetter >= stats.deadLetter

\* A delivery that changes state and adds what it should keeps the invariant.
LEMMA MoveKeepsInvariant ==
    ASSUME IInv, NEW d \in Deliveries, NEW from \in States, NEW to \in States,
           from # to, from # "dead_lettered", Goto(d, from, to), config' = config, report' = report,
           attempt' \in [Deliveries -> Nat],
           answer' \in [Deliveries -> Answers \cup {NoAnswer}],
           \A e \in Deliveries \ {d} : answer'[e] = answer[e] /\ attempt'[e] = attempt[e],
           to \in {"recorded", "failed"} => answer'[d] \in Answers,
           metrics' \in Counts, stats' \in Counts, deadLetters' \in Nat,
           to \in InHand /\ from \notin InHand => Cardinality(Busy) < config.workerCount,
           Matches(d, from, to)
    PROVE  IInv'
  <1>1. /\ state' \in [Deliveries -> States]
        /\ state[d] = from /\ state'[d] = to
        /\ \A e \in Deliveries : e # d => state'[e] = state[e]
        /\ Cardinality(In(from)') = Cardinality(In(from)) - 1
        /\ Cardinality(In(to)') = Cardinality(In(to)) + 1
        /\ \A s : s # from /\ s # to => Cardinality(In(s)') = Cardinality(In(s))
        /\ Cardinality(Busy') = Cardinality(Busy)
              + (IF to \in InHand THEN 1 ELSE 0) - (IF from \in InHand THEN 1 ELSE 0)
    BY GotoEffect DEF IInv
  <1>2. Types'
    <2>1. \A e \in Deliveries : state'[e] \in {"recorded", "failed"} => answer'[e] \in Answers
      BY <1>1 DEF IInv, Types
    <2>. QED
      BY <1>1, <2>1 DEF IInv, Types
  <1>3. Read'
    BY ReadKept DEF IInv, Matches
  <1>4. \A s : Cardinality(In(s)') = Cardinality(In(s)) + One(to = s) - One(from = s)
    <2>1. SUFFICES ASSUME NEW s PROVE Cardinality(In(s)') = Cardinality(In(s)) + One(to = s) - One(from = s)
      OBVIOUS
    <2>2. Cardinality(In(s)) \in Nat
      BY FiniteStates
    <2>3. CASE s = from
      BY <1>1, <2>2, <2>3, SMT DEF One
    <2>4. CASE s = to
      BY <1>1, <2>2, <2>4, SMT DEF One
    <2>5. CASE s # from /\ s # to
      BY <1>1, <2>2, <2>5, SMT DEF One
    <2>. QED
      BY <2>3, <2>4, <2>5
  <1>5. Cardinality(WillRetry') = Cardinality(WillRetry) + One(d \in WillRetry') - One(d \in WillRetry)
    <2>1. \A e \in Deliveries \ {d} : e \in WillRetry' <=> e \in WillRetry
      BY <1>1, OthersKept
    <2>2. Cardinality(WillRetry) \in Nat
      BY FiniteStates
    <2>. QED
      BY <2>1, <2>2, RetryCount, SMT DEF One
  <1>6. Cardinality(Busy') <= WorkerTotal'
    <2>1. WorkerTotal' = WorkerTotal /\ WorkerTotal \in Nat
      BY SMT DEF IInv, Types, WorkerTotal
    <2>2. Cardinality(Busy) \in Nat /\ Cardinality(Busy) <= WorkerTotal
      BY FiniteStates DEF IInv, Sums
    <2>3. CASE to \in InHand /\ from \notin InHand
      BY <1>1, <2>1, <2>2, <2>3, SMT DEF WorkerTotal, IInv, Types
    <2>4. CASE ~(to \in InHand /\ from \notin InHand)
      BY <1>1, <2>1, <2>2, <2>4, SMT
    <2>. QED
      BY <2>3, <2>4
  <1>7. Sums'
    <2>1. /\ Cardinality(In("failed")) \in Nat /\ Cardinality(In("recorded")) \in Nat
          /\ Cardinality(In("deadLettering")) \in Nat /\ Cardinality(In("dead_lettered")) \in Nat
          /\ Cardinality(In("recording")) \in Nat
          /\ Cardinality(WillRetry) \in Nat
      BY FiniteStates
    <2>2. /\ stats.delivered \in Nat /\ stats.failed \in Nat
          /\ stats.retried \in Nat /\ stats.deadLetter \in Nat
          /\ metrics.delivered \in Nat /\ metrics.failed \in Nat
          /\ metrics.retried \in Nat /\ metrics.deadLetter \in Nat /\ deadLetters \in Nat
      BY DEF IInv, Types, Counts
    <2>3. /\ stats'.delivered \in Nat /\ stats'.failed \in Nat
          /\ stats'.retried \in Nat /\ stats'.deadLetter \in Nat
          /\ metrics'.delivered \in Nat /\ metrics'.failed \in Nat
          /\ metrics'.retried \in Nat /\ metrics'.deadLetter \in Nat
      BY DEF Counts
    <2>4. \A b : One(b) \in {0, 1}
      BY DEF One
    <2>5. stats'.failed = stats'.retried + stats'.deadLetter + Cardinality(In("failed")')
      <3>1. stats.failed = stats.retried + stats.deadLetter + Cardinality(In("failed"))
        BY DEF IInv, Sums
      <3>2. stats'.failed - stats.failed
               = (stats'.retried - stats.retried) + (stats'.deadLetter - stats.deadLetter)
                 + One(to = "failed") - One(from = "failed")
        BY DEF Matches
      <3>3. Cardinality(In("failed")')
               = Cardinality(In("failed")) + One(to = "failed") - One(from = "failed")
        BY <1>4
      <3>4. One(to = "failed") \in {0, 1} /\ One(from = "failed") \in {0, 1}
        BY <2>4
      <3>. QED
        BY <2>1, <2>2, <2>3, <3>1, <3>2, <3>3, <3>4, SMT
    <2>6. metrics'.delivered + metrics'.failed
             = stats'.delivered + stats'.failed + Cardinality(In("recorded")')
      <3>1. metrics.delivered + metrics.failed
               = stats.delivered + stats.failed + Cardinality(In("recorded"))
        BY DEF IInv, Sums
      <3>2. (metrics'.delivered - metrics.delivered) + (metrics'.failed - metrics.failed)
               = (stats'.delivered - stats.delivered) + (stats'.failed - stats.failed)
                 + One(to = "recorded") - One(from = "recorded")
        BY DEF Matches
      <3>3. Cardinality(In("recorded")')
               = Cardinality(In("recorded")) + One(to = "recorded") - One(from = "recorded")
        BY <1>4
      <3>4. One(to = "recorded") \in {0, 1} /\ One(from = "recorded") \in {0, 1}
        BY <2>4
      <3>5. (metrics'.delivered + metrics'.failed) - (metrics.delivered + metrics.failed)
               = (stats'.delivered + stats'.failed) - (stats.delivered + stats.failed)
                 + Cardinality(In("recorded")') - Cardinality(In("recorded"))
        BY <2>1, <2>2, <2>3, <3>2, <3>3, <3>4, SMT
      <3>6. Cardinality(In("recorded")') \in Int
        BY <2>1, <3>3, <3>4, SMT
      <3>. QED
        BY <2>1, <2>2, <2>3, <3>1, <3>5, <3>6, SMT
    <2>7. metrics'.retried = stats'.retried + Cardinality(WillRetry')
      <3>1. metrics.retried = stats.retried + Cardinality(WillRetry)
        BY DEF IInv, Sums
      <3>2. metrics'.retried - metrics.retried
               = (stats'.retried - stats.retried) + One(d \in WillRetry') - One(d \in WillRetry)
        BY DEF Matches
      <3>3. One(d \in WillRetry') \in {0, 1} /\ One(d \in WillRetry) \in {0, 1}
        BY DEF One
      <3>. QED
        BY <1>5, <2>1, <2>2, <2>3, <3>1, <3>2, <3>3, SMT
    <2>8. stats'.deadLetter = metrics'.deadLetter + Cardinality(In("deadLettering")')
      <3>1. stats.deadLetter = metrics.deadLetter + Cardinality(In("deadLettering"))
        BY DEF IInv, Sums
      <3>2. stats'.deadLetter - stats.deadLetter
               = (metrics'.deadLetter - metrics.deadLetter)
                 + One(to = "deadLettering") - One(from = "deadLettering")
        BY DEF Matches
      <3>3. Cardinality(In("deadLettering")')
               = Cardinality(In("deadLettering")) + One(to = "deadLettering") - One(from = "deadLettering")
        BY <1>4
      <3>4. One(to = "deadLettering") \in {0, 1} /\ One(from = "deadLettering") \in {0, 1}
        BY <2>4
      <3>. QED
        BY <2>1, <2>2, <2>3, <3>1, <3>2, <3>3, <3>4, SMT
    <2>9. metrics'.deadLetter = deadLetters' + Cardinality(In("recording")')
      <3>1. metrics.deadLetter = deadLetters + Cardinality(In("recording"))
        BY DEF IInv, Sums
      <3>2. metrics'.deadLetter - metrics.deadLetter
               = (deadLetters' - deadLetters) + One(to = "recording") - One(from = "recording")
        BY DEF Matches
      <3>3. Cardinality(In("recording")')
               = Cardinality(In("recording")) + One(to = "recording") - One(from = "recording")
        BY <1>4
      <3>4. One(to = "recording") \in {0, 1} /\ One(from = "recording") \in {0, 1}
        BY <2>4
      <3>. QED
        BY <2>1, <2>2, <2>3, <3>1, <3>2, <3>3, <3>4, SMT
    <2>10. Cardinality(In("dead_lettered")') <= deadLetters'
      <3>1. One(from = "dead_lettered") = 0
        BY DEF One
      <3>2. Cardinality(In("dead_lettered")')
               = Cardinality(In("dead_lettered")) + One(to = "dead_lettered") - One(from = "dead_lettered")
        BY <1>4
      <3>. QED
        BY <2>1, <2>2, <2>4, <3>1, <3>2, SMT DEF Matches, IInv, Sums
    <2>. QED
      BY <1>6, <2>5, <2>6, <2>7, <2>8, <2>9, <2>10 DEF Sums
  <1>. QED
    BY <1>2, <1>3, <1>7 DEF IInv

-----------------------------------------------------------------------------
\* A counter that grows by one.
LEMMA Bump ==
    ASSUME NEW c \in Counts
    PROVE  /\ c.delivered \in Nat /\ c.failed \in Nat /\ c.retried \in Nat /\ c.deadLetter \in Nat
           /\ \A n : n = [c EXCEPT !.delivered = @ + 1] =>
                 /\ n \in Counts
                 /\ n.delivered = c.delivered + 1 /\ n.failed = c.failed
                 /\ n.retried = c.retried /\ n.deadLetter = c.deadLetter
           /\ \A n : n = [c EXCEPT !.failed = @ + 1] =>
                 /\ n \in Counts
                 /\ n.delivered = c.delivered /\ n.failed = c.failed + 1
                 /\ n.retried = c.retried /\ n.deadLetter = c.deadLetter
           /\ \A n : n = [c EXCEPT !.retried = @ + 1] =>
                 /\ n \in Counts
                 /\ n.delivered = c.delivered /\ n.failed = c.failed
                 /\ n.retried = c.retried + 1 /\ n.deadLetter = c.deadLetter
           /\ \A n : n = [c EXCEPT !.deadLetter = @ + 1] =>
                 /\ n \in Counts
                 /\ n.delivered = c.delivered /\ n.failed = c.failed
                 /\ n.retried = c.retried /\ n.deadLetter = c.deadLetter + 1
  <1>1. c.delivered \in Nat /\ c.failed \in Nat /\ c.retried \in Nat /\ c.deadLetter \in Nat
    BY DEF Counts
  <1>2. \A n : n = [c EXCEPT !.delivered = @ + 1] =>
            /\ n \in Counts
            /\ n.delivered = c.delivered + 1 /\ n.failed = c.failed
            /\ n.retried = c.retried /\ n.deadLetter = c.deadLetter
    BY SMT DEF Counts
  <1>3. \A n : n = [c EXCEPT !.failed = @ + 1] =>
            /\ n \in Counts
            /\ n.delivered = c.delivered /\ n.failed = c.failed + 1
            /\ n.retried = c.retried /\ n.deadLetter = c.deadLetter
    BY SMT DEF Counts
  <1>4. \A n : n = [c EXCEPT !.retried = @ + 1] =>
            /\ n \in Counts
            /\ n.delivered = c.delivered /\ n.failed = c.failed
            /\ n.retried = c.retried + 1 /\ n.deadLetter = c.deadLetter
    BY SMT DEF Counts
  <1>5. \A n : n = [c EXCEPT !.deadLetter = @ + 1] =>
            /\ n \in Counts
            /\ n.delivered = c.delivered /\ n.failed = c.failed
            /\ n.retried = c.retried /\ n.deadLetter = c.deadLetter + 1
    BY SMT DEF Counts
  <1>. QED
    BY <1>1, <1>2, <1>3, <1>4, <1>5

\* In particular for the retries of the worker's outcome.
LEMMA BumpRetried ==
    ASSUME NEW c \in Counts, NEW n, n = [c EXCEPT !.retried = @ + 1]
    PROVE  /\ n \in Counts
           /\ n.delivered = c.delivered /\ n.failed = c.failed
           /\ n.retried = c.retried + 1 /\ n.deadLetter = c.deadLetter
BY Bump

\* performDeliveryAttempt records a retry in the metrics for the very results
\* that handleRetryableFailure is going to retry.
LEMMA AttemptStep ==
    ASSUME IInv, NEW d \in Deliveries, NEW a \in Answers, PerformDeliveryAttempt(d, a)
    PROVE  IInv'
  <1>0. metrics \in Counts /\ stats \in Counts /\ deadLetters \in Nat
    BY DEF IInv, Types
  <1>a. /\ stats.delivered \in Nat /\ stats.failed \in Nat
        /\ stats.retried \in Nat /\ stats.deadLetter \in Nat
        /\ metrics.delivered \in Nat /\ metrics.failed \in Nat
        /\ metrics.retried \in Nat /\ metrics.deadLetter \in Nat
    BY <1>0, Bump
  <1>1. /\ Goto(d, "attempting", "recorded") /\ state[d] = "attempting" /\ state'[d] = "recorded"
        /\ answer' = [answer EXCEPT ![d] = a]
        /\ UNCHANGED <<config, attempt, stats, deadLetters, report>>
    BY DEF PerformDeliveryAttempt, Goto, IInv, Types
  <1>2. metrics' = RecordedMetrics(Deliver(a), attempt[d])
    BY DEF PerformDeliveryAttempt
  <1>3. /\ answer' \in [Deliveries -> Answers \cup {NoAnswer}] /\ answer'[d] = a
        /\ \A e \in Deliveries \ {d} : answer'[e] = answer[e]
    BY <1>1 DEF IInv, Types
  <1>4. d \notin WillRetry
    BY <1>1 DEF WillRetry
  <1>5. d \in WillRetry' <=> Deliver(a).shouldRetry /\ CanRetry(attempt[d])
    BY <1>1, <1>3 DEF WillRetry, MayRetry, Result, CanRetry
  <1>6. /\ metrics' \in Counts
        /\ metrics'.delivered - metrics.delivered + (metrics'.failed - metrics.failed) = 1
        /\ metrics'.deadLetter = metrics.deadLetter
        /\ metrics'.retried - metrics.retried = One(d \in WillRetry')
    <2>1. CASE IsSuccess(Deliver(a).statusCode)
      <3>1. d \notin WillRetry'
        BY <1>5, <2>1, SuccessIsFinal
      <3>2. metrics' = [metrics EXCEPT !.delivered = @ + 1]
        BY <1>2, <2>1 DEF RecordedMetrics
      <3>3. /\ metrics' \in Counts
            /\ metrics'.delivered = metrics.delivered + 1 /\ metrics'.failed = metrics.failed
            /\ metrics'.retried = metrics.retried /\ metrics'.deadLetter = metrics.deadLetter
        BY <1>0, <3>2, Bump, SMT
      <3>. QED
        BY <1>a, <3>1, <3>3, SMT DEF One
    <2>2. CASE ~IsSuccess(Deliver(a).statusCode) /\ d \in WillRetry'
      <3>1. PICK m : m = [metrics EXCEPT !.failed = @ + 1] /\ metrics' = [m EXCEPT !.retried = @ + 1]
        BY <1>2, <1>5, <2>2 DEF RecordedMetrics
      <3>2. /\ m \in Counts /\ m.delivered = metrics.delivered /\ m.failed = metrics.failed + 1
            /\ m.retried = metrics.retried /\ m.deadLetter = metrics.deadLetter
        BY <1>0, <3>1, Bump, SMT
      <3>3. /\ metrics' \in Counts
            /\ metrics'.delivered = m.delivered /\ metrics'.failed = m.failed
            /\ metrics'.retried = m.retried + 1 /\ metrics'.deadLetter = m.deadLetter
        BY <3>1, <3>2, BumpRetried
      <3>. QED
        BY <1>a, <2>2, <3>2, <3>3, SMT DEF One
    <2>3. CASE ~IsSuccess(Deliver(a).statusCode) /\ d \notin WillRetry'
      <3>1. metrics' = [metrics EXCEPT !.failed = @ + 1]
        BY <1>2, <1>5, <2>3 DEF RecordedMetrics
      <3>2. /\ metrics' \in Counts
            /\ metrics'.delivered = metrics.delivered /\ metrics'.failed = metrics.failed + 1
            /\ metrics'.retried = metrics.retried /\ metrics'.deadLetter = metrics.deadLetter
        BY <1>0, <3>1, Bump, SMT
      <3>. QED
        BY <1>a, <2>3, <3>2, SMT DEF One
    <2>. QED
      BY <2>1, <2>2, <2>3
  <1>7. /\ stats.delivered \in Nat /\ stats.failed \in Nat /\ stats.retried \in Nat
        /\ stats.deadLetter \in Nat /\ metrics.deadLetter \in Nat /\ deadLetters \in Nat
        /\ metrics'.retried - metrics.retried \in Int
    BY <1>6, SMT DEF IInv, Types, Counts
  <1>8. Matches(d, "attempting", "recorded")
    BY <1>1, <1>4, <1>6, <1>7, SMT DEF Matches, One
  <1>. QED
    BY <1>1, <1>3, <1>6, <1>8, MoveKeepsInvariant DEF IInv, Types, States, InHand

\* handleSuccessfulDelivery.
LEMMA SuccessStep ==
    ASSUME IInv, NEW d \in Deliveries, HandleSuccessfulDelivery(d)
    PROVE  IInv'
  <1>0. metrics \in Counts /\ stats \in Counts /\ deadLetters \in Nat
    BY DEF IInv, Types
  <1>a. /\ stats.delivered \in Nat /\ stats.failed \in Nat
        /\ stats.retried \in Nat /\ stats.deadLetter \in Nat
        /\ metrics.delivered \in Nat /\ metrics.failed \in Nat
        /\ metrics.retried \in Nat /\ metrics.deadLetter \in Nat
    BY <1>0, Bump
  <1>1. PICK to \in {"delivered", "orphaned"} : Goto(d, "recorded", to)
    BY DEF HandleSuccessfulDelivery, Settle
  <1>2. /\ answer' = [answer EXCEPT ![d] = NoAnswer] /\ IsSuccess(Result(d).statusCode)
        /\ stats' = [stats EXCEPT !.delivered = @ + 1]
        /\ UNCHANGED <<config, attempt, metrics, deadLetters, report>>
    BY DEF HandleSuccessfulDelivery, Settle
  <1>3. state[d] = "recorded" /\ state'[d] = to
    BY <1>1 DEF Goto, IInv, Types
  <1>4. d \notin WillRetry /\ d \notin WillRetry'
    <2>1. answer[d] \in Answers
      BY <1>3 DEF IInv, Types
    <2>2. ~Result(d).shouldRetry
      BY <1>2, <2>1, SuccessIsFinal DEF Result
    <2>. QED
      BY <1>3, <2>2 DEF WillRetry, MayRetry
  <1>5. /\ answer' \in [Deliveries -> Answers \cup {NoAnswer}]
        /\ \A e \in Deliveries \ {d} : answer'[e] = answer[e]
    BY <1>2 DEF IInv, Types
  <1>6. stats' \in Counts
    BY <1>0, <1>2, Bump
  <1>b. /\ stats'.delivered = stats.delivered + 1 /\ stats'.failed = stats.failed
        /\ stats'.retried = stats.retried /\ stats'.deadLetter = stats.deadLetter
    BY <1>0, <1>2, Bump
  <1>c. metrics' = metrics /\ deadLetters' = deadLetters
    BY <1>2
  <1>7. Matches(d, "recorded", to)
    BY <1>0, <1>a, <1>b, <1>c, <1>4, SMT DEF Matches, One
  <1>. QED
    BY <1>1, <1>2, <1>5, <1>6, <1>7, MoveKeepsInvariant DEF IInv, Types, States, InHand

\* handleRetryableFailure counts the failure.
LEMMA FailureStep ==
    ASSUME IInv, NEW d \in Deliveries, CountFailure(d)
    PROVE  IInv'
  <1>0. metrics \in Counts /\ stats \in Counts /\ deadLetters \in Nat
    BY DEF IInv, Types
  <1>a. /\ stats.delivered \in Nat /\ stats.failed \in Nat
        /\ stats.retried \in Nat /\ stats.deadLetter \in Nat
        /\ metrics.delivered \in Nat /\ metrics.failed \in Nat
        /\ metrics.retried \in Nat /\ metrics.deadLetter \in Nat
    BY <1>0, Bump
  <1>1. /\ Goto(d, "recorded", "failed") /\ state[d] = "recorded" /\ state'[d] = "failed"
        /\ stats' = [stats EXCEPT !.failed = @ + 1]
        /\ UNCHANGED <<config, attempt, answer, metrics, deadLetters, report>>
    BY DEF CountFailure, Goto, IInv, Types
  <1>2. d \in WillRetry' <=> d \in WillRetry
    BY <1>1 DEF WillRetry, MayRetry, Result, CanRetry
  <1>3. stats' \in Counts /\ answer[d] \in Answers
    BY <1>0, <1>1, Bump DEF IInv, Types
  <1>4. One(d \in WillRetry') = One(d \in WillRetry) /\ One(d \in WillRetry) \in {0, 1}
    BY <1>2 DEF One
  <1>b. /\ stats'.delivered = stats.delivered /\ stats'.failed = stats.failed + 1
        /\ stats'.retried = stats.retried /\ stats'.deadLetter = stats.deadLetter
    BY <1>0, <1>1, Bump
  <1>c. metrics' = metrics /\ deadLetters' = deadLetters
    BY <1>1
  <1>5. Matches(d, "recorded", "failed")
    <2>1. /\ One("failed" = "failed") = 1 /\ One("recorded" = "failed") = 0
          /\ One("failed" = "recorded") = 0 /\ One("recorded" = "recorded") = 1
          /\ One("failed" = "deadLettering") = 0 /\ One("recorded" = "deadLettering") = 0
          /\ One("failed" = "dead_lettered") = 0
      BY DEF One
    <2>. QED
      BY <1>0, <1>a, <1>b, <1>c, <1>4, <2>1, SMT DEF Matches
  <1>. QED
    BY <1>1, <1>3, <1>5, MoveKeepsInvariant DEF IInv, Types, States, InHand

\* handleRetryableFailure makes a retry.
LEMMA RetryStep ==
    ASSUME IInv, NEW d \in Deliveries, HandleRetryableFailure(d)
    PROVE  IInv'
  <1>0. metrics \in Counts /\ stats \in Counts /\ deadLetters \in Nat
    BY DEF IInv, Types
  <1>a. /\ stats.delivered \in Nat /\ stats.failed \in Nat
        /\ stats.retried \in Nat /\ stats.deadLetter \in Nat
        /\ metrics.delivered \in Nat /\ metrics.failed \in Nat
        /\ metrics.retried \in Nat /\ metrics.deadLetter \in Nat
    BY <1>0, Bump
  <1>1. PICK to \in {"waiting", "orphaned"} : Goto(d, "failed", to)
    BY DEF HandleRetryableFailure, Settle
  <1>2. /\ answer' = [answer EXCEPT ![d] = NoAnswer]
        /\ Result(d).shouldRetry /\ CanRetry(attempt[d])
        /\ stats' = [stats EXCEPT !.retried = @ + 1]
        /\ attempt' = [attempt EXCEPT ![d] = IF state'[d] = "waiting" THEN @ + 1 ELSE @]
        /\ UNCHANGED <<config, metrics, deadLetters, report>>
    BY DEF HandleRetryableFailure, Settle
  <1>3. state[d] = "failed" /\ state'[d] = to
    BY <1>1 DEF Goto, IInv, Types
  <1>4. d \in WillRetry /\ d \notin WillRetry'
    BY <1>2, <1>3 DEF WillRetry, MayRetry
  <1>5. /\ answer' \in [Deliveries -> Answers \cup {NoAnswer}]
        /\ \A e \in Deliveries \ {d} : answer'[e] = answer[e]
    BY <1>2 DEF IInv, Types
  <1>6. /\ attempt' \in [Deliveries -> Nat]
        /\ \A e \in Deliveries \ {d} : attempt'[e] = attempt[e]
    BY <1>2, SMT DEF IInv, Types
  <1>7. stats' \in Counts
    BY <1>0, <1>2, Bump
  <1>b. /\ stats'.delivered = stats.delivered /\ stats'.failed = stats.failed
        /\ stats'.retried = stats.retried + 1 /\ stats'.deadLetter = stats.deadLetter
    <2>1. stats' = [stats EXCEPT !.retried = @ + 1]
      BY <1>2
    <2>. QED
      BY <1>0, <2>1, BumpRetried
  <1>c. metrics' = metrics /\ deadLetters' = deadLetters
    BY <1>2
  <1>8. Matches(d, "failed", to)
    BY <1>0, <1>a, <1>b, <1>c, <1>4, SMT DEF Matches, One
  <1>. QED
    BY <1>1, <1>2, <1>5, <1>6, <1>7, <1>8, MoveKeepsInvariant DEF IInv, Types, States, InHand

\* recordDeadLetter counts the dead letter.
LEMMA DeadLetterStep ==
    ASSUME IInv, NEW d \in Deliveries, CountDeadLetter(d)
    PROVE  IInv'
  <1>0. metrics \in Counts /\ stats \in Counts /\ deadLetters \in Nat
    BY DEF IInv, Types
  <1>a. /\ stats.delivered \in Nat /\ stats.failed \in Nat
        /\ stats.retried \in Nat /\ stats.deadLetter \in Nat
        /\ metrics.delivered \in Nat /\ metrics.failed \in Nat
        /\ metrics.retried \in Nat /\ metrics.deadLetter \in Nat
    BY <1>0, Bump
  <1>1. /\ Goto(d, "failed", "deadLettering") /\ state[d] = "failed" /\ state'[d] = "deadLettering"
        /\ ~(Result(d).shouldRetry /\ CanRetry(attempt[d]))
        /\ stats' = [stats EXCEPT !.deadLetter = @ + 1]
        /\ UNCHANGED <<config, attempt, answer, metrics, deadLetters, report>>
    BY DEF CountDeadLetter, Goto, IInv, Types
  <1>2. d \notin WillRetry' /\ d \notin WillRetry
    BY <1>1 DEF WillRetry, MayRetry
  <1>3. stats' \in Counts
    BY <1>0, <1>1, Bump
  <1>b. /\ stats'.delivered = stats.delivered /\ stats'.failed = stats.failed
        /\ stats'.retried = stats.retried /\ stats'.deadLetter = stats.deadLetter + 1
    BY <1>0, <1>1, Bump, SMT
  <1>c. metrics' = metrics /\ deadLetters' = deadLetters
    BY <1>1
  <1>4. Matches(d, "failed", "deadLettering")
    BY <1>0, <1>a, <1>b, <1>c, <1>2, SMT DEF Matches, One
  <1>. QED
    BY <1>1, <1>3, <1>4, MoveKeepsInvariant DEF IInv, Types, States, InHand

\* recordDeadLetter counts it in the metrics.
LEMMA MetricStep ==
    ASSUME IInv, NEW d \in Deliveries, IncDeadLetterCounter(d)
    PROVE  IInv'
  <1>0. metrics \in Counts /\ stats \in Counts /\ deadLetters \in Nat
    BY DEF IInv, Types
  <1>a. /\ stats.delivered \in Nat /\ stats.failed \in Nat
        /\ stats.retried \in Nat /\ stats.deadLetter \in Nat
        /\ metrics.delivered \in Nat /\ metrics.failed \in Nat
        /\ metrics.retried \in Nat /\ metrics.deadLetter \in Nat
    BY <1>0, Bump
  <1>1. /\ Goto(d, "deadLettering", "recording")
        /\ state[d] = "deadLettering" /\ state'[d] = "recording"
        /\ metrics' = [metrics EXCEPT !.deadLetter = @ + 1]
        /\ UNCHANGED <<config, attempt, answer, stats, deadLetters, report>>
    BY DEF IncDeadLetterCounter, Goto, IInv, Types
  <1>2. d \notin WillRetry' /\ d \notin WillRetry
    BY <1>1 DEF WillRetry
  <1>3. metrics' \in Counts
    BY <1>0, <1>1, Bump
  <1>4. /\ metrics'.delivered = metrics.delivered /\ metrics'.failed = metrics.failed
        /\ metrics'.retried = metrics.retried /\ metrics'.deadLetter = metrics.deadLetter + 1
    BY <1>0, <1>1, Bump, SMT
  <1>5. stats' = stats /\ deadLetters' = deadLetters
    BY <1>1
  <1>6. Matches(d, "deadLettering", "recording")
    BY <1>0, <1>a, <1>2, <1>4, <1>5, SMT DEF Matches, One
  <1>. QED
    BY <1>1, <1>3, <1>6, MoveKeepsInvariant DEF IInv, Types, States, InHand

\* recordDeadLetter appends it to the list and marks the row.
LEMMA RecordStep ==
    ASSUME IInv, NEW d \in Deliveries, RecordDeadLetter(d)
    PROVE  IInv'
  <1>0. metrics \in Counts /\ stats \in Counts /\ deadLetters \in Nat
    BY DEF IInv, Types
  <1>a. /\ stats.delivered \in Nat /\ stats.failed \in Nat
        /\ stats.retried \in Nat /\ stats.deadLetter \in Nat
        /\ metrics.delivered \in Nat /\ metrics.failed \in Nat
        /\ metrics.retried \in Nat /\ metrics.deadLetter \in Nat
    BY <1>0, Bump
  <1>1. PICK to \in {"dead_lettered", "orphaned"} : Goto(d, "recording", to)
    BY DEF RecordDeadLetter, Settle
  <1>2. /\ answer' = [answer EXCEPT ![d] = NoAnswer]
        /\ deadLetters' = deadLetters + 1
        /\ UNCHANGED <<config, attempt, metrics, stats, report>>
    BY DEF RecordDeadLetter, Settle
  <1>3. state[d] = "recording" /\ state'[d] = to
    BY <1>1 DEF Goto, IInv, Types
  <1>4. d \notin WillRetry /\ d \notin WillRetry'
    BY <1>3 DEF WillRetry
  <1>5. /\ answer' \in [Deliveries -> Answers \cup {NoAnswer}]
        /\ \A e \in Deliveries \ {d} : answer'[e] = answer[e]
    BY <1>2 DEF IInv, Types
  <1>6. deadLetters' \in Nat
    BY <1>0, <1>2, SMT
  <1>7. Matches(d, "recording", to)
    BY <1>0, <1>a, <1>2, <1>4, SMT DEF Matches, One
  <1>. QED
    BY <1>1, <1>2, <1>5, <1>6, <1>7, MoveKeepsInvariant DEF IInv, Types, States, InHand

\* A worker takes a delivery, or a delivery is due again: nothing is counted.
LEMMA QueueStep ==
    ASSUME IInv, NEW d \in Deliveries, TakeJob(d) \/ ClaimAgain(d)
    PROVE  IInv'
  <1>0. metrics \in Counts /\ stats \in Counts /\ deadLetters \in Nat
    BY DEF IInv, Types
  <1>a. /\ stats.delivered \in Nat /\ stats.failed \in Nat
        /\ stats.retried \in Nat /\ stats.deadLetter \in Nat
        /\ metrics.delivered \in Nat /\ metrics.failed \in Nat
        /\ metrics.retried \in Nat /\ metrics.deadLetter \in Nat
    BY <1>0, Bump
  <1>1. UNCHANGED <<config, attempt, answer, metrics, stats, deadLetters, report>>
    BY DEF TakeJob, ClaimAgain, counterVars
  <1>2. PICK from \in {"queued", "waiting"}, to \in {"attempting", "queued"} :
            /\ Goto(d, from, to) /\ from # to
            /\ to \in InHand => Cardinality(Busy) < config.workerCount
    BY DEF TakeJob, ClaimAgain, InHand
  <1>3. state[d] = from /\ state'[d] = to
    BY <1>2 DEF Goto, IInv, Types
  <1>4. d \notin WillRetry /\ d \notin WillRetry'
    BY <1>3 DEF WillRetry
  <1>5. Matches(d, from, to)
    BY <1>0, <1>a, <1>1, <1>4, SMT DEF Matches, One
  <1>. QED
    BY <1>1, <1>2, <1>5, MoveKeepsInvariant DEF IInv, Types, States, InHand

\* Every value of the configuration is the parsed value of its variable, or
\* the default, and a number.
LEMMA ConfigValue ==
    ASSUME NEW e \in Environments, NEW c \in LoadNotifierConfig(e),
           NEW name \in DOMAIN NotifierDefaults, NotifierDefaults[name].value \in Int
    PROVE  /\ c[name] = ReadEnvironment(e, name, NotifierDefaults[name]).value
           /\ c[name] \in Int
  <1>1. c[name] = ReadEnvironment(e, name, NotifierDefaults[name]).value
    BY DEF LoadNotifierConfig
  <1>2. name \in DOMAIN e => e[name].value \in Int
    BY DeliveryAssumption, SMT DEF RawValue
  <1>3. ReadEnvironment(e, name, NotifierDefaults[name]).value \in Int
    BY <1>2 DEF ReadEnvironment
  <1>. QED
    BY <1>1, <1>3

\* The defaults that the proofs use.
LEMMA DefaultValues ==
    /\ \A name \in {"workerCount", "maxRetryAttempts", "initialRetryDelay"} :
          name \in DOMAIN NotifierDefaults /\ NotifierDefaults[name].value \in Int
    /\ NotifierDefaults["maxRetryAttempts"].value = 3
  BY SMT DEF NotifierDefaults, Number, Duration

\* The counters at the start.
LEMMA InitIInv == Init => IInv
  <1>. SUFFICES ASSUME Init PROVE IInv
    OBVIOUS
  <1>2. config.workerCount \in Int
    BY ConfigValue, DefaultValues DEF Init
  <1>3. /\ \A s : s # "queued" => In(s) = {}
        /\ WillRetry = {} /\ Busy = {}
    BY DEF Init, In, WillRetry, Busy, InHand
  <1>4. Cardinality({}) = 0
    BY FS_EmptySet
  <1>5. /\ Cardinality(In("failed")) = 0 /\ Cardinality(In("recorded")) = 0
        /\ Cardinality(In("deadLettering")) = 0 /\ Cardinality(In("dead_lettered")) = 0
        /\ Cardinality(In("recording")) = 0
        /\ Cardinality(WillRetry) = 0 /\ Cardinality(Busy) = 0
    BY <1>3, <1>4
  <1>6. Types
    BY <1>2, SMT DEF Init, Types, Counts, NoCounts, States
  <1>7. Sums
    BY <1>2, <1>5, SMT DEF Init, Sums, NoCounts, WorkerTotal
  <1>8. Read
    BY SMT DEF Init, Read
  <1>. QED
    BY <1>6, <1>7, <1>8 DEF IInv

\* Every step keeps the invariant.
LEMMA NextIInv == IInv /\ [Next]_vars => IInv'
  <1>1. ASSUME IInv, NEW d \in Deliveries, Worker(d) \/ ClaimAgain(d) PROVE IInv'
    BY <1>1, AttemptStep, SuccessStep, FailureStep, RetryStep, DeadLetterStep, MetricStep,
       RecordStep, QueueStep DEF Worker
  <1>2. ASSUME IInv, UNCHANGED vars PROVE IInv'
    BY <1>2 DEF vars, deliveryVars, counterVars, IInv, Types, Sums, Read, In, WillRetry, MayRetry,
       Result, CanRetry, Busy, WorkerTotal
  <1>. QED
    BY <1>1, <1>2, Loading DEF Next

\* The invariant gives both properties.
LEMMA IInvGivesProperties == IInv => CountersAgree /\ ReportCoversFailures
  <1>1. SUFFICES ASSUME IInv PROVE CountersAgree /\ ReportCoversFailures
    OBVIOUS
  <1>2. Cardinality(WillRetry) <= Cardinality(In("recorded")) + Cardinality(In("failed"))
    <2>1. WillRetry \subseteq In("recorded") \cup In("failed")
      BY DEF WillRetry, In
    <2>2. /\ IsFiniteSet(In("recorded") \cup In("failed"))
          /\ Cardinality(In("recorded") \cup In("failed"))
                = Cardinality(In("recorded")) + Cardinality(In("failed"))
                  - Cardinality(In("recorded") \cap In("failed"))
      BY FiniteStates, FS_Union
    <2>3. In("recorded") \cap In("failed") = {}
      BY DEF In
    <2>4. Cardinality(WillRetry) <= Cardinality(In("recorded") \cup In("failed"))
      BY <2>1, <2>2, FS_Subset
    <2>5. Cardinality({}) = 0
      BY FS_EmptySet
    <2>6. Cardinality(In("recorded") \cap In("failed")) = 0
      BY <2>3, <2>5
    <2>7. Cardinality(In("recorded")) \in Nat /\ Cardinality(In("failed")) \in Nat
      BY FiniteStates
    <2>. QED
      BY <2>2, <2>4, <2>6, <2>7, SMT
  <1>3. CountersAgree
    <2>1. /\ stats.retried \in Nat /\ stats.deadLetter \in Nat
          /\ metrics.retried \in Nat /\ metrics.deadLetter \in Nat
      BY <1>1 DEF IInv, Types, Counts
    <2>2. metrics.retried - stats.retried
             \in 0 .. Cardinality(In("recorded")) + Cardinality(In("failed"))
      BY <1>1, <1>2, <2>1, FiniteStates, SMT DEF IInv, Sums
    <2>3. /\ stats.deadLetter - metrics.deadLetter = Cardinality(In("deadLettering"))
          /\ metrics.deadLetter - deadLetters = Cardinality(In("recording"))
      <3>1. deadLetters \in Nat
        BY <1>1 DEF IInv, Types
      <3>2. /\ Cardinality(In("deadLettering")) \in Nat
            /\ Cardinality(In("recording")) \in Nat
        BY FiniteStates
      <3>3. /\ stats.deadLetter = metrics.deadLetter + Cardinality(In("deadLettering"))
            /\ metrics.deadLetter = deadLetters + Cardinality(In("recording"))
        BY <1>1 DEF IInv, Sums
      <3>. QED
        BY <2>1, <3>1, <3>2, <3>3, SMT
    <2>. QED
      BY <1>1, <2>2, <2>3 DEF IInv, Sums, In, CountersAgree
  <1>4. ReportCoversFailures
    <2>1. Len(StatsOrder) = 4 /\ DOMAIN StatsOrder = 1 .. 4
      BY SMT DEF StatsOrder
    <2>2. /\ StatsOrder[1] = "delivered" /\ StatsOrder[2] = "failed"
          /\ StatsOrder[3] = "retried" /\ StatsOrder[4] = "deadLetter"
      BY DEF StatsOrder
    <2>3. /\ (CHOOSE i \in DOMAIN StatsOrder : StatsOrder[i] = "failed") = 2
          /\ (CHOOSE i \in DOMAIN StatsOrder : StatsOrder[i] = "retried") = 3
          /\ (CHOOSE i \in DOMAIN StatsOrder : StatsOrder[i] = "deadLetter") = 4
      BY <2>1, <2>2, SMT
    <2>. QED
      BY <1>1, <2>1, <2>3 DEF IInv, Read, ReportCoversFailures
  <1>. QED
    BY <1>3, <1>4

(***************************************************************************)
(* The metrics and the counters of GET /stats agree but for the deliveries *)
(* in hand, however many workers interleave (CountersAgree).               *)
(***************************************************************************)
THEOREM MetricsMatchStats == Spec => []CountersAgree
  BY InitIInv, NextIInv, IInvGivesProperties, PTL DEF Spec

(***************************************************************************)
(* A report of GET /stats misses no more failures than there are workers,  *)
(* although it reads its counters one by one (ReportCoversFailures).       *)
(***************************************************************************)
THEOREM ReportsAreComplete == Spec => []ReportCoversFailures
  BY InitIInv, NextIInv, IInvGivesProperties, PTL DEF Spec

-----------------------------------------------------------------------------
\* What leads to a dead letter, and that the configuration stays as loaded.
Earned ==
    /\ config.maxRetryAttempts = ConfiguredRetries
    /\ config.maxRetryAttempts \in Int
    /\ \A d \in Deliveries :
          state[d] = "deadLettering" => answer[d] \in Answers /\ ~MayRetry(d)

\* The number of retries is the configured one.
LEMMA RetriesAsConfigured ==
    ASSUME Init
    PROVE  config.maxRetryAttempts = ConfiguredRetries /\ config.maxRetryAttempts \in Int
  <1>1. environment \in Environments /\ config \in LoadNotifierConfig(environment)
    BY DEF Init
  <1>2. /\ config["maxRetryAttempts"]
              = ReadEnvironment(environment, "maxRetryAttempts", NotifierDefaults["maxRetryAttempts"]).value
        /\ config["maxRetryAttempts"] \in Int
    BY <1>1, ConfigValue, DefaultValues
  <1>. QED
    BY <1>2, DefaultValues DEF ReadEnvironment, ConfiguredRetries

\* A delivery is counted as a dead letter only if it may not be retried.
LEMMA EarnedStep == IInv /\ Earned /\ [Next]_vars => Earned'
  <1>. SUFFICES ASSUME IInv, Earned, [Next]_vars PROVE Earned'
    OBVIOUS
  <1>1. UNCHANGED <<environment, config>>
    BY DEF Next, Worker, HandleStats, TakeJob, PerformDeliveryAttempt, HandleSuccessfulDelivery,
       CountFailure, HandleRetryableFailure, CountDeadLetter, IncDeadLetterCounter,
       RecordDeadLetter, ClaimAgain, LoadCounter, WriteReport, vars
  <1>2. config'.maxRetryAttempts = ConfiguredRetries' /\ config'.maxRetryAttempts \in Int
    BY <1>1 DEF Earned, ConfiguredRetries
  <1>3. ASSUME NEW d \in Deliveries, NEW e \in Deliveries,
               Worker(d) \/ ClaimAgain(d), state'[e] = "deadLettering"
        PROVE  answer'[e] \in Answers /\ ~MayRetry(e)'
    <2>1. CASE CountDeadLetter(d)
      <3>1. /\ state' = [state EXCEPT ![d] = "deadLettering"] /\ state[d] = "failed"
            /\ ~MayRetry(d) /\ UNCHANGED <<config, attempt, answer>>
        BY <2>1 DEF CountDeadLetter, Goto, MayRetry
      <3>2. e = d \/ state[e] = "deadLettering"
        BY <1>3, <3>1 DEF IInv, Types
      <3>. QED
        BY <3>1, <3>2 DEF IInv, Types, Earned, MayRetry, Result, CanRetry
    <2>2. CASE ~CountDeadLetter(d)
      <3>1. /\ e # d /\ state[e] = "deadLettering"
            /\ answer'[e] = answer[e] /\ attempt'[e] = attempt[e]
        BY <1>3, <2>2, SMT DEF Worker, TakeJob, PerformDeliveryAttempt, HandleSuccessfulDelivery,
           CountFailure, HandleRetryableFailure, IncDeadLetterCounter, RecordDeadLetter,
           ClaimAgain, Settle, Goto, IInv, Types
      <3>. QED
        BY <1>1, <3>1 DEF Earned, MayRetry, Result, CanRetry
    <2>. QED
      BY <2>1, <2>2
  <1>4. ASSUME HandleStats \/ UNCHANGED vars, NEW e \in Deliveries, state'[e] = "deadLettering"
        PROVE  answer'[e] \in Answers /\ ~MayRetry(e)'
    <2>1. UNCHANGED <<config, state, attempt, answer>>
      BY <1>4 DEF HandleStats, LoadCounter, WriteReport, deliveryVars, vars
    <2>. QED
      BY <1>4, <2>1 DEF Earned, MayRetry, Result, CanRetry
  <1>. QED
    BY <1>2, <1>3, <1>4 DEF Next, Earned

\* A transient failure may be retried (Deliver).
LEMMA TransientIsRetryable ==
    ASSUME NEW a \in Answers, IsTransient(a)
    PROVE  Deliver(a).shouldRetry
  <1>1. CASE a = Unsent
    BY <1>1 DEF Unsent, IsTransient
  <1>2. CASE a \in [kind : {"status"}, code : StatusCodes]
    <2>1. a.kind = "status" /\ a.code \in StatusCodes
      BY <1>2
    <2>2. a.code \in 100 .. 999
      BY <2>1, DeliveryAssumption, SMT
    <2>3. a.code \div 100 = 5
      BY <2>1 DEF IsTransient
    <2>4. a.code \in 500 .. 599
      BY <2>2, <2>3, SMT
    <2>5. ~IsSuccess(a.code) /\ IsRetryableStatusCode(a.code)
      BY <2>4, SMT DEF IsSuccess, IsRetryableStatusCode
    <2>6. "status" # "unsent" /\ "status" # "error"
      OBVIOUS
    <2>7. Deliver(a).shouldRetry = (~IsSuccess(a.code) /\ IsRetryableStatusCode(a.code))
      BY <2>1, <2>6 DEF Deliver
    <2>. QED
      BY <2>5, <2>7
  <1>3. CASE a \in [kind : {"error"}, cause : Causes]
    BY <1>3 DEF IsTransient, Deliver, IsRetryableTransportError, DoError
  <1>. QED
    BY <1>1, <1>2, <1>3 DEF Answers

(***************************************************************************)
(* A timeout, a 5xx or a temporary network error dead-letters a delivery   *)
(* only after all the configured retries (TransientFailuresAreRetried).    *)
(***************************************************************************)
THEOREM RetriesAreExhausted == Spec => []TransientFailuresAreRetried
  <1>1. Init => Earned
    BY RetriesAsConfigured DEF Init, Earned
  <1>2. IInv /\ Earned => TransientFailuresAreRetried
    <2>. SUFFICES ASSUME IInv, Earned, NEW d \in Deliveries,
                         state[d] = "deadLettering", IsTransient(answer[d])
                  PROVE  attempt[d] >= ConfiguredRetries
      BY DEF TransientFailuresAreRetried
    <2>1. ~CanRetry(attempt[d])
      BY TransientIsRetryable DEF Earned, MayRetry, Result
    <2>2. attempt[d] \in Nat
      BY DEF IInv, Types
    <2>. QED
      BY <2>1, <2>2, SMT DEF Earned, CanRetry
  <1>. QED
    BY <1>1, <1>2, InitIInv, NextIInv, EarnedStep, PTL DEF Spec

(***************************************************************************)
(* The text of a transport error never leads to a retry: its Timeout and   *)
(* Temporary methods do (TextNeverDecides).                                *)
(***************************************************************************)
THEOREM MethodsDecide == Spec => TextNeverDecides
  <1>1. ASSUME IInv, [Next]_vars, NEW d \in Deliveries,
               attempt'[d] > attempt[d], answer[d].kind = "error"
        PROVE  DoError(answer[d].cause).timeout \/ DoError(answer[d].cause).temporary
    <2>1. attempt[d] \in Nat /\ attempt'[d] # attempt[d]
      BY <1>1, SMT DEF IInv, Types
    <2>2. PICK e \in Deliveries : HandleRetryableFailure(e)
      BY <1>1, <2>1 DEF Next, Worker, HandleStats, TakeJob, PerformDeliveryAttempt,
         HandleSuccessfulDelivery, CountFailure, CountDeadLetter, IncDeadLetterCounter,
         RecordDeadLetter, ClaimAgain, LoadCounter, WriteReport, deliveryVars, vars
    <2>3. e = d
      BY <2>1, <2>2, SMT DEF HandleRetryableFailure, IInv, Types
    <2>4. Deliver(answer[d]).shouldRetry
      BY <2>2, <2>3 DEF HandleRetryableFailure, Result
    <2>. QED
      BY <1>1, <2>4 DEF Deliver, IsRetryableTransportError, DoError
  <1>2. IInv /\ [Next]_vars =>
          [\A d \in Deliveries :
              attempt'[d] > attempt[d] /\ answer[d].kind = "error" =>
                  DoError(answer[d].cause).timeout \/ DoError(answer[d].cause).temporary]_vars
    BY <1>1
  <1>. QED
    BY <1>2, InitIInv, NextIInv, PTL DEF Spec, TextNeverDecides

-----------------------------------------------------------------------------
(***************************************************************************)
(* Induction over the natural numbers, for what a definition by recursion  *)
(* computes: the delay of NextDelay, doubled for every attempt.            *)
(* The rules of the library take an operator, which the provers cannot     *)
(* instantiate, so the rule is stated for a set of numbers.                *)
(***************************************************************************)

\* A set of natural numbers has a least element.
LEMMA LeastNumber ==
    ASSUME NEW S \in SUBSET Nat, S # {}
    PROVE  \E n \in S : \A m \in S : n <= m
  <1> DEFINE R == OpToRel(<, Nat)
  <1>1. IsWellFoundedOn(R, Nat)
    BY NatLessThanWellFounded
  <1>2. \A x, y \in Nat : <<y, x>> \in R <=> y < x
    BY SMT DEF OpToRel
  <1>. HIDE DEF R
  <1>3. PICK x \in S : \A y \in S : ~(<<y, x>> \in R)
    BY <1>1, WFMin
  <1>4. \A y \in S : ~(y < x) /\ y \in Nat /\ x \in Nat
    BY <1>2, <1>3
  <1>5. \A y \in S : x <= y
    BY <1>4, SMT
  <1>. QED
    BY <1>5

\* Induction: what holds of 0, and of n + 1 whenever of n, holds of every number.
LEMMA SetInduction ==
    ASSUME NEW S \in SUBSET Nat, 0 \in S, \A n \in S : n + 1 \in S
    PROVE  S = Nat
  <1> SUFFICES ASSUME Nat \ S # {} PROVE FALSE
    OBVIOUS
  <1>1. PICK n \in Nat \ S : \A m \in Nat \ S : n <= m
    BY LeastNumber
  <1>2. n - 1 \in Nat /\ ~(n <= n - 1) /\ (n - 1) + 1 = n
    BY SMT
  <1>3. n - 1 \in S
    BY <1>1, <1>2
  <1>. QED
    BY <1>2, <1>3

-----------------------------------------------------------------------------
(***************************************************************************)
(* Powers of two.  The prover computes only constant powers; the library   *)
(* counts the subsets of a finite set by one.                              *)
(***************************************************************************)

\* With one more element a set has twice as many subsets.
LEMMA SubsetsDouble ==
    ASSUME NEW S, IsFiniteSet(S), NEW x, x \notin S
    PROVE  /\ IsFiniteSet(SUBSET S) /\ IsFiniteSet(SUBSET (S \cup {x}))
           /\ Cardinality(SUBSET (S \cup {x})) = Cardinality(SUBSET S) + Cardinality(SUBSET S)
  <1> DEFINE A == SUBSET S
             B == {T \cup {x} : T \in A}
             f == [T \in A |-> T \cup {x}]
  <1>1. IsFiniteSet(A)
    BY FS_SUBSET
  <1>2. f \in Bijection(A, B)
    <2>1. f \in [A -> B]
      OBVIOUS
    <2>2. \A T, U \in A : f[T] = f[U] => T = U
      <3> SUFFICES ASSUME NEW T \in A, NEW U \in A, T \cup {x} = U \cup {x}
                   PROVE  T = U
        OBVIOUS
      <3>1. x \notin T /\ x \notin U
        OBVIOUS
      <3>. QED
        BY <3>1
    <2>3. \A b \in B : \E T \in A : f[T] = b
      OBVIOUS
    <2>4. DOMAIN f = A
      OBVIOUS
    <2>. HIDE DEF A, B, f
    <2>. QED
      BY <2>1, <2>2, <2>3, <2>4 DEF Bijection, Injection, IsInjective, Surjection
  <1>3. SUBSET (S \cup {x}) = A \cup B
    <2>1. ASSUME NEW T \in SUBSET (S \cup {x}) PROVE T \in A \cup B
      <3>1. CASE x \in T
        <4>1. T \ {x} \in A /\ T = (T \ {x}) \cup {x}
          BY <3>1
        <4>. QED
          BY <4>1
      <3>2. CASE x \notin T
        BY <3>2
      <3>. QED
        BY <3>1, <3>2
    <2>2. A \cup B \subseteq SUBSET (S \cup {x})
      OBVIOUS
    <2>. QED
      BY <2>1, <2>2
  <1>4. A \cap B = {}
    OBVIOUS
  <1>. HIDE DEF A, B, f
  <1>5. IsFiniteSet(B) /\ Cardinality(B) = Cardinality(A)
    <2>1. Bijection(A, B) # {}
      BY <1>2
    <2>2. ExistsBijection(A, B)
      BY <2>1 DEF ExistsBijection
    <2>. QED
      BY <1>1, <2>2, FS_Bijection
  <1>6. IsFiniteSet(A \cup B) /\ Cardinality(A) \in Nat
        /\ Cardinality(A \cup B) = Cardinality(A) + Cardinality(B) - Cardinality(A \cap B)
    BY <1>1, <1>5, FS_Union, FS_CardinalityType
  <1>7. Cardinality(A \cap B) = 0
    BY <1>4, FS_EmptySet
  <1>8. Cardinality(A \cup B) = Cardinality(A) + Cardinality(A)
    BY <1>5, <1>6, <1>7, SMT
  <1>. QED
    BY <1>1, <1>3, <1>6, <1>8 DEF A

\* A power of two is a positive number, and the next one is its double.
LEMMA PowerOfTwo ==
    ASSUME NEW n \in Nat
    PROVE  2 ^ n \in Nat \ {0} /\ 2 ^ (n + 1) = 2 * 2 ^ n
  <1>1. IsFiniteSet(1 .. n) /\ Cardinality(1 .. n) = n
    <2>1. 1 \in Int /\ n \in Int /\ (1 > n => n = 0) /\ n - 1 + 1 = n
      BY SMT
    <2>. QED
      BY <2>1, FS_Interval
  <1>2. n + 1 \notin 1 .. n
    BY SMT
  <1>3. IsFiniteSet((1 .. n) \cup {n + 1}) /\ Cardinality((1 .. n) \cup {n + 1}) = n + 1
    BY <1>1, <1>2, FS_AddElement
  <1>4. Cardinality(SUBSET (1 .. n)) = 2 ^ n /\ IsFiniteSet(SUBSET (1 .. n))
    BY <1>1, FS_SUBSET
  <1>5. Cardinality(SUBSET ((1 .. n) \cup {n + 1})) = 2 ^ (n + 1)
    BY <1>3, FS_SUBSET
  <1>6. 2 ^ (n + 1) = 2 ^ n + 2 ^ n
    BY <1>1, <1>2, <1>4, <1>5, SubsetsDouble
  <1>7. 2 ^ n \in Nat /\ 2 ^ n # 0
    BY <1>4, FS_CardinalityType, FS_EmptySet
  <1>8. \A a \in Nat : a + a = 2 * a
    BY SMT
  <1>. QED
    BY <1>6, <1>7, <1>8

-----------------------------------------------------------------------------
\* Half of the values of a time.Duration are negative.
LEMMA DurationRange ==
    /\ 2 ^ (DurationBits - 1) \in Nat \ {0}
    /\ 2 ^ DurationBits = 2 * 2 ^ (DurationBits - 1)
  <1>1. DurationBits - 1 \in Nat /\ (DurationBits - 1) + 1 = DurationBits
    BY DeliveryAssumption, SMT
  <1>. QED
    BY <1>1, PowerOfTwo

\* The arithmetic of time.Duration is exact where the result fits.
LEMMA WrapIsExact ==
    ASSUME NEW d \in Int
    PROVE  Wrap(d) \in Int /\ (IsDuration(d) => Wrap(d) = d)
  <1>1. \A h \in Nat \ {0} :
           /\ ((d + h) % (2 * h)) - h \in Int
           /\ -h <= d /\ d < h => ((d + h) % (2 * h)) - h = d
    BY SMT
  <1>. QED
    BY <1>1, DurationRange DEF Wrap, IsDuration

\* If a delay fits a time.Duration, so do the delays it is doubled from.
LEMMA EarlierDelaysFit ==
    ASSUME NEW c \in Int, NEW n \in Nat, IsDuration(c * 2 ^ n)
    PROVE  \A m \in 0 .. n : IsDuration(c * 2 ^ m)
  <1> DEFINE T == {i \in Nat : i \in 0 .. n => IsDuration(c * 2 ^ (n - i))}
  <1>1. 0 \in T
    <2>1. n - 0 = n
      BY SMT
    <2>. QED
      BY <2>1
  <1>2. ASSUME NEW i \in T, i + 1 \in 0 .. n PROVE IsDuration(c * 2 ^ (n - (i + 1)))
    <2>1. i \in 0 .. n /\ n - (i + 1) \in Nat /\ (n - (i + 1)) + 1 = n - i
      BY <1>2, SMT
    <2>2. IsDuration(c * 2 ^ (n - i))
      BY <2>1
    <2>3. 2 ^ (n - i) = 2 * 2 ^ (n - (i + 1)) /\ 2 ^ (n - (i + 1)) \in Nat
      BY <2>1, PowerOfTwo
    <2>4. \A h \in Nat, p \in Nat : -h <= c * (2 * p) /\ c * (2 * p) < h => -h <= c * p /\ c * p < h
      BY SMT
    <2>. QED
      BY <2>2, <2>3, <2>4, DurationRange DEF IsDuration
  <1>3. T = Nat
    <2>1. \A i \in T : i + 1 \in Nat
      BY SMT
    <2>. QED
      BY <1>1, <1>2, <2>1, SetInduction
  <1>4. ASSUME NEW m \in 0 .. n PROVE IsDuration(c * 2 ^ m)
    <2>1. n - m \in Nat /\ n - m \in 0 .. n /\ n - (n - m) = m
      BY SMT
    <2>. QED
      BY <1>3, <2>1
  <1>. QED
    BY <1>4

(***************************************************************************)
(* The loop of NextDelay starts with the configured delay and doubles it n *)
(* times in the arithmetic of time.Duration.                               *)
(***************************************************************************)
LEMMA NextDelayLoop ==
    ASSUME NEW n \in Nat, config.initialRetryDelay \in Int
    PROVE  \E f : /\ f[0] = config.initialRetryDelay
                  /\ \A k \in 1 .. n : f[k] = Wrap(f[k - 1] * 2)
                  /\ NextDelay(n) = f[n]
  <1> DEFINE c == config.initialRetryDelay
             R(h) == [k \in 0 .. n |-> IF k = 0 THEN c ELSE Wrap(h[k - 1] * 2)]
  <1>1. \A x \in Int : x * 2 \in Int
    BY SMT
  <1>2. \A x \in Int : Wrap(x * 2) \in Int
    BY <1>1, WrapIsExact
  <1> DEFINE T == {m \in Nat : \E f \in [0 .. m -> Int] :
                      f[0] = c /\ \A k \in 1 .. m : f[k] = Wrap(f[k - 1] * 2)}
  <1>3. T = Nat
    <2>1. 0 \in T
      <3> DEFINE f == [k \in 0 .. 0 |-> c]
      <3>1. f \in [0 .. 0 -> Int] /\ f[0] = c /\ 1 .. 0 = {}
        BY SMT
      <3>. QED
        BY <3>1
    <2>2. ASSUME NEW m \in T PROVE m + 1 \in T
      <3>1. PICK f \in [0 .. m -> Int] : f[0] = c /\ \A k \in 1 .. m : f[k] = Wrap(f[k - 1] * 2)
        OBVIOUS
      <3> DEFINE g == [k \in 0 .. m + 1 |-> IF k = m + 1 THEN Wrap(f[m] * 2) ELSE f[k]]
      <3>2. m + 1 \in Nat /\ m \in 0 .. m /\ 0 \in 0 .. m + 1 /\ 0 # m + 1 /\ (m + 1) - 1 = m
            /\ (\A k \in 0 .. m + 1 : k # m + 1 => k \in 0 .. m)
        BY SMT
      <3>3. g \in [0 .. m + 1 -> Int] /\ g[0] = c
        BY <1>2, <3>1, <3>2
      <3>4. ASSUME NEW k \in 1 .. m + 1 PROVE g[k] = Wrap(g[k - 1] * 2)
        <4>1. k \in 0 .. m + 1 /\ k - 1 \in 0 .. m + 1 /\ k - 1 # m + 1 /\ (k # m + 1 => k \in 1 .. m)
          BY SMT
        <4>2. CASE k = m + 1
          BY <3>2, <4>1, <4>2
        <4>3. CASE k # m + 1
          BY <3>1, <4>1, <4>3
        <4>. QED
          BY <4>2, <4>3
      <3>. QED
        BY <3>2, <3>3, <3>4
    <2>. QED
      BY <2>1, <2>2, SetInduction
  <1>4. PICK g \in [0 .. n -> Int] : g[0] = c /\ \A k \in 1 .. n : g[k] = Wrap(g[k - 1] * 2)
    BY <1>3
  <1>5. /\ \A k \in 0 .. n : k # 0 => k \in 1 .. n
        /\ \A k \in 1 .. n : k \in Nat /\ k # 0 /\ k \in 0 .. n /\ k - 1 \in 0 .. n
        /\ 0 \in 0 .. n
    BY SMT
  <1>6. g = R(g)
    <2>1. \A k \in 0 .. n : g[k] = IF k = 0 THEN c ELSE Wrap(g[k - 1] * 2)
      BY <1>4, <1>5
    <2>. QED
      BY <2>1
  <1>7. PICK h : h = R(h) /\ NextDelay(n) = h[n]
    BY <1>6 DEF NextDelay
  <1>8. \A k \in 0 .. n : h[k] = IF k = 0 THEN c ELSE Wrap(h[k - 1] * 2)
    BY <1>7
  <1>. QED
    BY <1>5, <1>7, <1>8

\* The result is a time.Duration.
LEMMA DelayType ==
    ASSUME NEW n \in Nat, config.initialRetryDelay \in Int
    PROVE  NextDelay(n) \in Int
  <1>1. PICK f : /\ f[0] = config.initialRetryDelay
                 /\ \A k \in 1 .. n : f[k] = Wrap(f[k - 1] * 2)
                 /\ NextDelay(n) = f[n]
    BY NextDelayLoop
  <1> DEFINE T == {m \in Nat : m \in 0 .. n => f[m] \in Int}
  <1>2. 0 \in T
    BY <1>1
  <1>3. ASSUME NEW m \in T, m + 1 \in 0 .. n PROVE f[m + 1] \in Int
    <2>1. m \in 0 .. n /\ m + 1 \in 1 .. n /\ (m + 1) - 1 = m
      BY <1>3, SMT
    <2>2. f[m] * 2 \in Int
      BY <2>1, SMT
    <2>. QED
      BY <1>1, <2>1, <2>2, WrapIsExact
  <1>4. T = Nat
    <2>1. \A m \in T : m + 1 \in Nat
      BY SMT
    <2>. QED
      BY <1>2, <1>3, <2>1, SetInduction
  <1>5. n \in 0 .. n
    BY SMT
  <1>. QED
    BY <1>1, <1>4, <1>5

\* The result is the configured delay times 2 ^ n where that fits.
LEMMA NextDelayDoubles ==
    ASSUME NEW n \in Nat, config.initialRetryDelay \in Int,
           IsDuration(config.initialRetryDelay * 2 ^ n)
    PROVE  NextDelay(n) = config.initialRetryDelay * 2 ^ n
  <1> DEFINE c == config.initialRetryDelay
  <1>1. PICK f : /\ f[0] = c
                 /\ \A k \in 1 .. n : f[k] = Wrap(f[k - 1] * 2)
                 /\ NextDelay(n) = f[n]
    BY NextDelayLoop
  <1> DEFINE T == {m \in Nat : m \in 0 .. n => f[m] = c * 2 ^ m}
  <1>2. 0 \in T
    <2>1. c * 2 ^ 0 = c
      BY SMT
    <2>. QED
      BY <1>1, <2>1
  <1>3. ASSUME NEW m \in T, m + 1 \in 0 .. n PROVE f[m + 1] = c * 2 ^ (m + 1)
    <2>1. m \in 0 .. n /\ m + 1 \in 1 .. n /\ (m + 1) - 1 = m
      BY <1>3, SMT
    <2>2. f[m + 1] = Wrap((c * 2 ^ m) * 2)
      BY <1>1, <2>1
    <2>3. 2 ^ (m + 1) = 2 * 2 ^ m /\ 2 ^ m \in Nat
      BY PowerOfTwo
    <2>4. \A p \in Nat : (c * p) * 2 = c * (2 * p) /\ c * (2 * p) \in Int
      BY SMT
    <2>5. (c * 2 ^ m) * 2 = c * 2 ^ (m + 1) /\ c * 2 ^ (m + 1) \in Int
      BY <2>3, <2>4
    <2>6. IsDuration(c * 2 ^ (m + 1))
      BY <1>3, EarlierDelaysFit
    <2>. QED
      BY <2>2, <2>5, <2>6, WrapIsExact
  <1>4. T = Nat
    <2>1. \A m \in T : m + 1 \in Nat
      BY SMT
    <2>. QED
      BY <1>2, <1>3, <2>1, SetInduction
  <1>5. n \in 0 .. n
    BY SMT
  <1>. QED
    BY <1>1, <1>4, <1>5

\* The backoff of a waiting delivery is the one of the attempt before.
Backoff ==
    /\ config.initialRetryDelay \in Int
    /\ delay \in [Deliveries -> Int]
    /\ \A d \in Deliveries :
          state[d] = "waiting" => attempt[d] - 1 \in Nat /\ delay[d] = NextDelay(attempt[d] - 1)

\* A delivery starts to wait only when its retry is due.
LEMMA BackoffStep == IInv /\ Backoff /\ [Next]_vars => Backoff'
  <1>. SUFFICES ASSUME IInv, Backoff, [Next]_vars PROVE Backoff'
    OBVIOUS
  <1>1. UNCHANGED config
    BY DEF Next, Worker, HandleStats, TakeJob, PerformDeliveryAttempt, HandleSuccessfulDelivery,
       CountFailure, HandleRetryableFailure, CountDeadLetter, IncDeadLetterCounter,
       RecordDeadLetter, ClaimAgain, LoadCounter, WriteReport, vars
  <1>2. \A n : NextDelay(n)' = NextDelay(n)
    BY <1>1 DEF NextDelay
  <1>3. \A n \in Nat : NextDelay(n) \in Int
    BY DelayType DEF Backoff
  <1>4. ASSUME NEW d \in Deliveries, HandleRetryableFailure(d) PROVE Backoff'
    <2>1. /\ delay' = [delay EXCEPT ![d] = NextDelay(attempt[d])]
          /\ attempt' = [attempt EXCEPT ![d] = IF state'[d] = "waiting" THEN @ + 1 ELSE @]
          /\ \/ state' = [state EXCEPT ![d] = "waiting"]
             \/ state' = [state EXCEPT ![d] = "orphaned"]
      BY <1>4 DEF HandleRetryableFailure, Settle, Goto
    <2>2. attempt[d] \in Nat /\ (attempt[d] + 1) - 1 = attempt[d]
      BY SMT DEF IInv, Types
    <2>3. delay' \in [Deliveries -> Int]
      BY <1>3, <2>1, <2>2 DEF Backoff
    <2>4. ASSUME NEW e \in Deliveries, state'[e] = "waiting"
          PROVE  attempt'[e] - 1 \in Nat /\ delay'[e] = NextDelay(attempt'[e] - 1)
      <3>1. CASE e = d
        <4>1. attempt'[d] = attempt[d] + 1 /\ delay'[d] = NextDelay(attempt[d])
          BY <2>1, <2>4, <3>1 DEF IInv, Types, Backoff
        <4>. QED
          BY <2>2, <3>1, <4>1
      <3>2. CASE e # d
        <4>1. state[e] = "waiting" /\ attempt'[e] = attempt[e] /\ delay'[e] = delay[e]
          BY <2>1, <2>4, <3>2 DEF IInv, Types, Backoff
        <4>. QED
          BY <4>1 DEF Backoff
      <3>. QED
        BY <3>1, <3>2
    <2>. QED
      BY <1>1, <1>2, <2>3, <2>4 DEF Backoff
  <1>5. ASSUME UNCHANGED <<attempt, delay>>,
               \A e \in Deliveries : state'[e] = "waiting" => state[e] = "waiting"
        PROVE  Backoff'
    BY <1>1, <1>2, <1>5 DEF Backoff
  <1>6. ASSUME NEW d \in Deliveries, Worker(d) \/ ClaimAgain(d), ~HandleRetryableFailure(d)
        PROVE  /\ UNCHANGED <<attempt, delay>>
               /\ \A e \in Deliveries : state'[e] = "waiting" => state[e] = "waiting"
    BY <1>6, SMT DEF Worker, TakeJob, PerformDeliveryAttempt, HandleSuccessfulDelivery,
       CountFailure, CountDeadLetter, IncDeadLetterCounter, RecordDeadLetter, ClaimAgain,
       Settle, Goto, IInv, Types
  <1>7. ASSUME HandleStats \/ UNCHANGED vars
        PROVE  UNCHANGED <<state, attempt, delay>>
    BY <1>7 DEF HandleStats, LoadCounter, WriteReport, deliveryVars, vars
  <1>. QED
    BY <1>4, <1>5, <1>6, <1>7 DEF Next

(***************************************************************************)
(* The retry after attempt k waits the configured delay times 2^k, for any *)
(* delay and any number of attempts, as long as that fits a time.Duration  *)
(* of any width (BackoffDoubles).                                          *)
(***************************************************************************)
THEOREM BackoffIsExponential == Spec => []BackoffDoubles
  <1>1. Init => Backoff
    <2>. SUFFICES ASSUME Init PROVE Backoff
      OBVIOUS
    <2>1. config["initialRetryDelay"] \in Int
      BY ConfigValue, DefaultValues DEF Init
    <2>2. delay \in [Deliveries -> Int]
      BY SMT DEF Init
    <2>. QED
      BY <2>1, <2>2 DEF Init, Backoff
  <1>2. IInv /\ Backoff => BackoffDoubles
    BY NextDelayDoubles DEF Backoff, BackoffDoubles
  <1>. QED
    BY <1>1, <1>2, InitIInv, NextIInv, BackoffStep, PTL DEF Spec
=============================================================================

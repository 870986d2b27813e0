--------------------------- MODULE ReceiverProofs ---------------------------
(***************************************************************************)
(* Proofs about the statistics of MockReceiver, for any number of          *)
(* webhooks, resets and customers and any scenarios.  Resets may overlap   *)
(* each other and the webhooks: a counter is related to the webhooks only  *)
(* when no reset that has begun has still to clear it.                     *)
(***************************************************************************)
EXTENDS MockReceiver, FiniteSetTheorems, TLAPS

(***************************************************************************)
(* Most leaves are first-order reasoning for Zenon; a leaf that needs      *)
(* arithmetic, functions or records cites SMT.                             *)
(***************************************************************************)
USE Zenon

Records ==
    [received : Nat, success : Nat, failed : Nat, decodeFailures : Nat, typed : Nat, mismatches : Nat]

ResetSteps == Counters \cup {"customers", "done"}

StatsSteps == {"received", "success", "failed", "customers", "done"}

Types ==
    /\ webhook \in [Webhooks -> WebhookStates]
    /\ counter \in [Counters -> Nat]
    /\ DOMAIN customerStats \in SUBSET Customers
    /\ \A c \in DOMAIN customerStats : customerStats[c] \in Records
    /\ reset \in [Resets -> ResetSteps]
    /\ stats \in StatsSteps
    /\ DOMAIN report = {"received", "success", "failed", "customers"}
    /\ report["received"] \in Nat /\ report["success"] \in Nat /\ report["failed"] \in Nat
    /\ fresh \in SUBSET Webhooks
    /\ overlapped \in SUBSET Webhooks
    /\ owed \in SUBSET Webhooks

\* What the history variables say of the handlers.
Histories ==
    /\ \A r \in fresh \cup overlapped : webhook[r] # "unsent"
    /\ InFlight \in SUBSET (fresh \cup overlapped)
    /\ Resetting => fresh = {}
    /\ owed \in SUBSET fresh
    /\ \A r \in owed : webhook[r] = "answered"

(***************************************************************************)
(* The number of the requests in A that got to one of the steps in S, and  *)
(* a total that counts them.                                               *)
(***************************************************************************)
N(A, S) == Cardinality({x \in A : webhook[x] \in S})

Counted(total, requests, S) ==
    /\ N(fresh \cap requests, S) <= total
    /\ total <= N((fresh \cup overlapped) \cap requests, S)

\* A reset that has begun has still one of these steps to do next.
Before(steps) == \E q \in Resets : reset[q] \in steps

Timed == {"timed", "counted", "answered"}

Outcome == {"counted", "answered"}

Counting ==
    /\ Counted(counter["received"], Webhooks, WebhookStates)
    /\ ~Before({"success"}) => counter["success"] <= N((fresh \cup overlapped) \cap Webhooks, Outcome)
    /\ ~Before({"success", "failed"}) =>
          Counted(counter["success"] + counter["failed"], Webhooks, Outcome)
    /\ ~Before({"success", "failed", "latency"}) => Counted(counter["latency"], Webhooks, Timed)

\* The records of the customers.
Recorded == ~Resetting => \A c \in Customers : Counted(StatisticsOf(c).received, For(c), {"answered"})

AddsUp(record) ==
    /\ record.received = record.success + record.failed
    /\ record.received = record.decodeFailures + record.typed
    /\ record.mismatches <= record.typed

RecordsAddUp == \A c \in DOMAIN customerStats : AddsUp(customerStats[c])

\* What the report has read, against what it is still going to read.
Covered ==
    /\ stats # "received" => Cardinality(owed) <= report["received"]
    /\ stats = "failed" => Cardinality(owed) <= report["success"] + counter["failed"]
    /\ stats \in {"customers", "done"} => Cardinality(owed) <= report["success"] + report["failed"]
    /\ stats = "done" =>
          \A c \in Customers : owed \cap For(c) # {} =>
              /\ c \in DOMAIN report["customers"]
              /\ Cardinality(owed \cap For(c)) <= report["customers"][c].received

IInv == Types /\ Histories /\ Counting /\ Recorded /\ RecordsAddUp /\ Covered

-----------------------------------------------------------------------------
\* A record that does not exist yet counts as empty (recordCustomerStatistic).
LEMMA RecordTypes ==
    ASSUME Types, NEW c
    PROVE  /\ StatisticsOf(c) \in Records /\ StatisticsOf(c).received \in Nat
           /\ EmptyStatistics \in Records /\ AddsUp(EmptyStatistics) /\ EmptyStatistics.received = 0
  <1>1. EmptyStatistics \in Records /\ AddsUp(EmptyStatistics) /\ EmptyStatistics.received = 0
    BY SMT DEF EmptyStatistics, Records, AddsUp
  <1>2. StatisticsOf(c) \in Records
    BY <1>1 DEF StatisticsOf, Types
  <1>3. \A record \in Records : record.received \in Nat
    BY DEF Records
  <1>. QED
    BY <1>1, <1>2, <1>3

\* Counting the same requests after a step.
NAfter(A, S) == Cardinality({x \in A : webhook'[x] \in S})

CountedAfter(total, requests, S) ==
    /\ NAfter(fresh \cap requests, S) <= total
    /\ total <= NAfter((fresh \cup overlapped) \cap requests, S)

\* The sets that are counted are finite.
LEMMA FiniteCounts ==
    ASSUME NEW A \in SUBSET Webhooks, NEW S
    PROVE  /\ IsFiniteSet(A)
           /\ IsFiniteSet({x \in A : webhook[x] \in S})
           /\ IsFiniteSet({x \in A : webhook'[x] \in S})
           /\ N(A, S) \in Nat /\ NAfter(A, S) \in Nat
  <1>1. IsFiniteSet(A)
    BY ReceiverAssumption, FS_Subset
  <1>2. IsFiniteSet({x \in A : webhook[x] \in S}) /\ IsFiniteSet({x \in A : webhook'[x] \in S})
    BY <1>1, FS_Subset
  <1>. QED
    BY <1>1, <1>2, FS_CardinalityType DEF N, NAfter

\* One handler's step does nothing to a count whose steps it does not enter.
LEMMA CountStays ==
    ASSUME Types, NEW r \in Webhooks, NEW to, Goto(r, to), NEW A \in SUBSET Webhooks, NEW S,
           \/ r \notin A
           \/ webhook[r] \in S /\ to \in S
           \/ webhook[r] \notin S /\ to \notin S
    PROVE  NAfter(A, S) = N(A, S)
  <1>1. webhook'[r] = to /\ \A x \in Webhooks : x # r => webhook'[x] = webhook[x]
    BY DEF Goto, Types
  <1>2. \A x \in A : webhook'[x] \in S <=> webhook[x] \in S
    BY <1>1
  <1>. QED
    BY <1>2 DEF N, NAfter

\* It adds one to a count whose steps it enters.
LEMMA CountGrows ==
    ASSUME Types, NEW r \in Webhooks, NEW to, Goto(r, to), NEW A \in SUBSET Webhooks, NEW S,
           r \in A, webhook[r] \notin S, to \in S
    PROVE  NAfter(A, S) = N(A, S) + 1
  <1> DEFINE X == {x \in A : webhook[x] \in S}
             Y == {x \in A : webhook'[x] \in S}
  <1>1. webhook'[r] = to /\ \A x \in Webhooks : x # r => webhook'[x] = webhook[x]
    BY DEF Goto, Types
  <1>2. Y = X \cup {r} /\ r \notin X
    BY <1>1
  <1>3. IsFiniteSet(X)
    BY FiniteCounts
  <1>4. Cardinality(Y) = Cardinality(X) + 1
    <2>. HIDE DEF X, Y
    <2>. QED
      BY <1>2, <1>3, FS_AddElement
  <1>. QED
    BY <1>4 DEF N, NAfter

\* So a total that counts requests still does, if no request is new to it.
LEMMA TotalKept ==
    ASSUME Types, NEW r \in Webhooks, NEW to, Goto(r, to), NEW requests \in SUBSET Webhooks, NEW S,
           NEW total \in Nat, Counted(total, requests, S),
           \/ r \notin requests
           \/ webhook[r] \in S /\ to \in S
           \/ webhook[r] \notin S /\ to \notin S
    PROVE  CountedAfter(total, requests, S)
  <1> DEFINE A == fresh \cap requests
             B == (fresh \cup overlapped) \cap requests
  <1>1. A \in SUBSET Webhooks /\ B \in SUBSET Webhooks
    OBVIOUS
  <1>2. r \notin requests => r \notin A /\ r \notin B
    OBVIOUS
  <1>3. N(A, S) <= total /\ total <= N(B, S)
    BY DEF Counted
  <1>. HIDE DEF A, B
  <1>4. NAfter(A, S) = N(A, S) /\ NAfter(B, S) = N(B, S)
    <2>1. CASE r \notin requests
      BY <1>1, <1>2, <2>1, CountStays
    <2>2. CASE webhook[r] \in S /\ to \in S
      BY <1>1, <2>2, CountStays, SMT
    <2>3. CASE webhook[r] \notin S /\ to \notin S
      BY <1>1, <2>3, CountStays, SMTT(30)
    <2>. QED
      BY <2>1, <2>2, <2>3
  <1>. QED
    BY <1>3, <1>4 DEF CountedAfter, A, B

\* It still does if it grows with them.
LEMMA TotalGrows ==
    ASSUME Types, NEW r \in Webhooks, NEW to, Goto(r, to), NEW requests \in SUBSET Webhooks, NEW S,
           NEW total \in Nat, Counted(total, requests, S),
           webhook[r] \notin S, to \in S, r \in requests, r \in fresh \cup overlapped
    PROVE  CountedAfter(total + 1, requests, S)
  <1> DEFINE A == fresh \cap requests
             B == (fresh \cup overlapped) \cap requests
  <1>1. A \in SUBSET Webhooks /\ B \in SUBSET Webhooks /\ r \in B
    OBVIOUS
  <1>2. N(A, S) <= total /\ total <= N(B, S)
    BY DEF Counted
  <1>. HIDE DEF A, B
  <1>3. NAfter(B, S) = N(B, S) + 1
    BY <1>1, CountGrows
  <1>4. NAfter(A, S) = N(A, S) \/ NAfter(A, S) = N(A, S) + 1
    <2>1. CASE r \in A
      BY <1>1, <2>1, CountGrows
    <2>2. CASE r \notin A
      BY <1>1, <2>2, CountStays
    <2>. QED
      BY <2>1, <2>2
  <1>5. N(A, S) \in Nat /\ N(B, S) \in Nat
    BY <1>1, FiniteCounts
  <1>6. NAfter(A, S) <= total + 1 /\ total + 1 <= NAfter(B, S)
    BY <1>2, <1>3, <1>4, <1>5, SMT
  <1>. QED
    BY <1>6 DEF CountedAfter, A, B

-----------------------------------------------------------------------------
(***************************************************************************)
(* The steps of a webhook handler after its first one.                     *)
(***************************************************************************)
Underway == {"delaying", "drawing", "resolved", "timed", "counted"}

\* The step of handler r from one stage to a later one.
Advance(r, to) ==
    /\ Goto(r, to)
    /\ webhook[r] \in Underway
    /\ to \in (Underway \cup {"answered", "broken"})
    /\ UNCHANGED <<reset, stats, report, fresh, overlapped, owed>>

\* A handler that is under way is known to the histories, and stays known.
LEMMA AdvanceKeepsHistories ==
    ASSUME IInv, NEW r \in Webhooks, NEW to, Advance(r, to)
    PROVE  /\ Histories'
           /\ webhook' \in [Webhooks -> WebhookStates]
           /\ r \in fresh \cup overlapped
           /\ webhook[r] \in WebhookStates /\ to \in WebhookStates
  <1>1. /\ webhook[r] \in WebhookStates /\ to \in WebhookStates
        /\ webhook[r] # "answered" /\ to # "unsent"
    BY DEF Advance, Underway, WebhookStates
  <1>2. webhook' = [webhook EXCEPT ![r] = to] /\ webhook \in [Webhooks -> WebhookStates]
    BY DEF Advance, Goto, IInv, Types
  <1>3. webhook'[r] = to /\ \A x \in Webhooks : x # r => webhook'[x] = webhook[x]
    BY <1>2
  <1>4. webhook' \in [Webhooks -> WebhookStates]
    BY <1>1, <1>2
  <1>5. r \in fresh \cup overlapped
    BY DEF IInv, Histories, Advance, InFlight, Underway
  <1>6. fresh \in SUBSET Webhooks /\ overlapped \in SUBSET Webhooks /\ owed \in SUBSET fresh
    BY DEF IInv, Types, Histories
  <1>7. \A x \in fresh \cup overlapped : webhook'[x] # "unsent"
    BY <1>1, <1>3, <1>6 DEF IInv, Histories
  <1>8. InFlight' \in SUBSET (fresh \cup overlapped)
    BY <1>3, <1>5 DEF IInv, Histories, InFlight
  <1>9. \A x \in owed : webhook'[x] = "answered"
    BY <1>1, <1>3, <1>6 DEF IInv, Histories
  <1>10. UNCHANGED <<reset, fresh, overlapped, owed>> /\ (Resetting => fresh = {})
    BY DEF Advance, IInv, Histories
  <1>11. Resetting' = Resetting
    BY <1>10 DEF Resetting
  <1>. QED
    BY <1>1, <1>4, <1>5, <1>6, <1>7, <1>8, <1>9, <1>10, <1>11 DEF Histories

\* The totals stay true if latency and outcome grow when their stage is reached.
LEMMA AdvanceKeepsCounting ==
    ASSUME IInv, NEW r \in Webhooks, NEW to, Advance(r, to),
           counter'["received"] = counter["received"],
           \/ webhook[r] \in Timed /\ to \in Timed /\ counter'["latency"] = counter["latency"]
           \/ webhook[r] \notin Timed /\ to \notin Timed /\ counter'["latency"] = counter["latency"]
           \/ webhook[r] \notin Timed /\ to \in Timed /\ counter'["latency"] = counter["latency"] + 1,
           \/ /\ webhook[r] \in Outcome /\ to \in Outcome
              /\ counter'["success"] = counter["success"] /\ counter'["failed"] = counter["failed"]
           \/ /\ webhook[r] \notin Outcome /\ to \notin Outcome
              /\ counter'["success"] = counter["success"] /\ counter'["failed"] = counter["failed"]
           \/ /\ webhook[r] \notin Outcome /\ to \in Outcome
              /\ \/ counter'["success"] = counter["success"] + 1 /\ counter'["failed"] = counter["failed"]
                 \/ counter'["success"] = counter["success"] /\ counter'["failed"] = counter["failed"] + 1
    PROVE  Counting'
  <1> DEFINE B == (fresh \cup overlapped) \cap Webhooks
             sum == counter["success"] + counter["failed"]
             sumAfter == counter'["success"] + counter'["failed"]
  <1>1. /\ r \in fresh \cup overlapped
        /\ webhook[r] \in WebhookStates /\ to \in WebhookStates
    BY AdvanceKeepsHistories
  <1>2. /\ Types /\ Goto(r, to) /\ UNCHANGED <<reset, fresh, overlapped>>
        /\ Webhooks \in SUBSET Webhooks
    BY DEF IInv, Advance
  <1>3. counter["received"] \in Nat /\ counter["latency"] \in Nat
        /\ counter["success"] \in Nat /\ counter["failed"] \in Nat
    BY DEF IInv, Types, Counters
  <1>4. \A t, Q, S : CountedAfter(t, Q, S) <=>
           /\ Cardinality({x \in fresh' \cap Q : webhook'[x] \in S}) <= t
           /\ t <= Cardinality({x \in (fresh' \cup overlapped') \cap Q : webhook'[x] \in S})
    BY <1>2 DEF CountedAfter, NAfter
  <1>5. \A steps : Before(steps)' <=> Before(steps)
    BY <1>2 DEF Before
  <1>6. Counted(counter["received"], Webhooks, WebhookStates)'
    <2>1. Counted(counter["received"], Webhooks, WebhookStates)
      BY DEF IInv, Counting
    <2>2. CountedAfter(counter["received"], Webhooks, WebhookStates)
      BY <1>1, <1>2, <1>3, <2>1, TotalKept
    <2>. QED
      BY <1>4, <2>2 DEF Counted, N
  <1>7. ASSUME ~Before({"success", "failed", "latency"})
        PROVE  Counted(counter["latency"], Webhooks, Timed)'
    <2>1. Counted(counter["latency"], Webhooks, Timed)
      BY <1>7 DEF IInv, Counting
    <2>2. CASE webhook[r] \in Timed /\ to \in Timed /\ counter'["latency"] = counter["latency"]
      <3>1. CountedAfter(counter["latency"], Webhooks, Timed)
        BY <1>2, <1>3, <2>1, <2>2, TotalKept
      <3>. QED
        BY <1>4, <2>2, <3>1 DEF Counted, N
    <2>3. CASE webhook[r] \notin Timed /\ to \notin Timed /\ counter'["latency"] = counter["latency"]
      <3>1. CountedAfter(counter["latency"], Webhooks, Timed)
        BY <1>2, <1>3, <2>1, <2>3, TotalKept
      <3>. QED
        BY <1>4, <2>3, <3>1 DEF Counted, N
    <2>4. CASE webhook[r] \notin Timed /\ to \in Timed /\ counter'["latency"] = counter["latency"] + 1
      <3>1. CountedAfter(counter["latency"] + 1, Webhooks, Timed)
        BY <1>1, <1>2, <1>3, <2>1, <2>4, TotalGrows
      <3>. QED
        BY <1>4, <2>4, <3>1 DEF Counted, N
    <2>. QED
      BY <2>2, <2>3, <2>4
  <1>8. \/ webhook[r] \in Outcome /\ to \in Outcome /\ sumAfter = sum
        \/ webhook[r] \notin Outcome /\ to \notin Outcome /\ sumAfter = sum
        \/ webhook[r] \notin Outcome /\ to \in Outcome /\ sumAfter = sum + 1
    BY <1>3, SMT
  <1>9. ASSUME ~Before({"success", "failed"})
        PROVE  Counted(counter["success"] + counter["failed"], Webhooks, Outcome)'
    <2>1. Counted(sum, Webhooks, Outcome)
      BY <1>9 DEF IInv, Counting
    <2>2. sum \in Nat
      BY <1>3, SMT
    <2>. HIDE DEF sum
    <2>3. CountedAfter(sumAfter, Webhooks, Outcome)
      <3>1. CASE webhook[r] \in Outcome /\ to \in Outcome /\ sumAfter = sum
        BY <1>2, <2>1, <2>2, <3>1, TotalKept
      <3>2. CASE webhook[r] \notin Outcome /\ to \notin Outcome /\ sumAfter = sum
        BY <1>2, <2>1, <2>2, <3>2, TotalKept
      <3>3. CASE webhook[r] \notin Outcome /\ to \in Outcome /\ sumAfter = sum + 1
        BY <1>1, <1>2, <2>1, <2>2, <3>3, TotalGrows
      <3>. QED
        BY <1>8, <3>1, <3>2, <3>3
    <2>. QED
      BY <1>4, <2>3 DEF Counted, N
  <1>10. ASSUME ~Before({"success"})
         PROVE  counter'["success"] <= NAfter(B, Outcome)
    <2>1. counter["success"] <= N(B, Outcome) /\ N(B, Outcome) \in Nat
      BY <1>10, FiniteCounts DEF IInv, Counting
    <2>2. B \in SUBSET Webhooks /\ r \in B
      BY <1>1
    <2>. HIDE DEF B
    <2>3. CASE webhook[r] \in Outcome /\ to \in Outcome /\ counter'["success"] = counter["success"]
      <3>1. NAfter(B, Outcome) = N(B, Outcome)
        BY <1>2, <2>2, <2>3, CountStays, SMT
      <3>. QED
        BY <2>1, <2>3, <3>1
    <2>4. CASE webhook[r] \notin Outcome /\ to \notin Outcome /\ counter'["success"] = counter["success"]
      <3>1. NAfter(B, Outcome) = N(B, Outcome)
        BY <1>2, <2>2, <2>4, CountStays, SMT
      <3>. QED
        BY <2>1, <2>4, <3>1
    <2>5. CASE /\ webhook[r] \notin Outcome /\ to \in Outcome
               /\ \/ counter'["success"] = counter["success"] + 1
                  \/ counter'["success"] = counter["success"]
      <3>1. webhook[r] \notin Outcome /\ to \in Outcome
        BY <2>5
      <3>2. NAfter(B, Outcome) = N(B, Outcome) + 1
        BY <1>2, <2>2, <3>1, CountGrows, SMT
      <3>. QED
        BY <1>3, <2>1, <2>5, <3>2, SMT
    <2>. QED
      BY <2>3, <2>4, <2>5
  <1>11. NAfter(B, Outcome) = N((fresh \cup overlapped) \cap Webhooks, Outcome)'
    BY <1>2 DEF N, NAfter
  <1>. QED
    BY <1>5, <1>6, <1>7, <1>9, <1>10, <1>11 DEF Counting

\* The records stay true if no webhook is answered.
LEMMA AdvanceKeepsRecorded ==
    ASSUME IInv, NEW r \in Webhooks, NEW to, Advance(r, to), to # "answered", UNCHANGED customerStats
    PROVE  Recorded' /\ RecordsAddUp'
  <1>1. Types /\ Goto(r, to) /\ UNCHANGED <<reset, fresh, overlapped>>
    BY DEF IInv, Advance
  <1>2. webhook[r] \notin {"answered"} /\ to \notin {"answered"}
    BY DEF Advance, Underway
  <1>3. ASSUME ~Resetting, NEW c \in Customers
        PROVE  Counted(StatisticsOf(c).received, For(c), {"answered"})'
    <2>1. Counted(StatisticsOf(c).received, For(c), {"answered"})
      BY <1>3 DEF IInv, Recorded
    <2>2. For(c) \in SUBSET Webhooks /\ StatisticsOf(c).received \in Nat
      BY RecordTypes DEF For, IInv
    <2>3. CountedAfter(StatisticsOf(c).received, For(c), {"answered"})
      BY <1>1, <1>2, <2>1, <2>2, TotalKept
    <2>4. StatisticsOf(c)' = StatisticsOf(c)
      BY DEF StatisticsOf
    <2>. QED
      BY <1>1, <2>3, <2>4 DEF Counted, N, CountedAfter, NAfter, For
  <1>4. Resetting' = Resetting
    BY <1>1 DEF Resetting
  <1>. QED
    BY <1>3, <1>4 DEF Recorded, RecordsAddUp, IInv

\* What a report has read covers what it owes while the counters grow.
LEMMA GrowthKeepsCovered ==
    ASSUME IInv, UNCHANGED <<stats, report, owed>>,
           counter'["failed"] \in {counter["failed"], counter["failed"] + 1}
    PROVE  Covered'
  <1>1. IsFiniteSet(owed)
    BY ReceiverAssumption, FS_Subset DEF IInv, Types
  <1>2. /\ Cardinality(owed) \in Nat /\ report["success"] \in Nat /\ counter["failed"] \in Nat
    BY <1>1, FS_CardinalityType DEF IInv, Types, Counters
  <1>3. \A n, s, a \in Nat : \A b : n <= s + a /\ b \in {a, a + 1} => n <= s + b
    BY SMT
  <1>4. stats = "failed" => Cardinality(owed) <= report["success"] + counter'["failed"]
    BY <1>2, <1>3 DEF IInv, Covered
  <1>. QED
    BY <1>4 DEF IInv, Covered

\* resolveStatusCode and its panic change no statistics.
LEMMA SilentStep ==
    ASSUME IInv, NEW r \in Webhooks, Resolve(r) \/ BeginDraw(r) \/ EndDraw(r) \/ PanicInDraw(r)
    PROVE  IInv'
  <1>1. PICK to \in {"drawing", "resolved", "broken"} : Goto(r, to)
    BY DEF Resolve, BeginDraw, EndDraw, PanicInDraw
  <1>2. /\ webhook[r] \in {"delaying", "drawing"}
        /\ UNCHANGED <<counter, customerStats, reset, stats, report, fresh, overlapped, owed>>
    BY DEF Resolve, BeginDraw, EndDraw, PanicInDraw, statsVars, historyVars, requestVars
  <1>3. Advance(r, to)
    BY <1>1, <1>2 DEF Advance, Underway
  <1>4. /\ webhook[r] \notin Timed /\ to \notin Timed
        /\ webhook[r] \notin Outcome /\ to \notin Outcome /\ to # "answered"
    BY <1>2 DEF Timed, Outcome
  <1>5. Histories' /\ webhook' \in [Webhooks -> WebhookStates]
    BY <1>3, AdvanceKeepsHistories
  <1>6. Counting'
    BY <1>2, <1>3, <1>4, AdvanceKeepsCounting
  <1>7. Recorded' /\ RecordsAddUp'
    BY <1>2, <1>3, <1>4, AdvanceKeepsRecorded
  <1>8. Covered'
    BY <1>2, GrowthKeepsCovered
  <1>9. Types'
    BY <1>2, <1>5 DEF IInv, Types
  <1>. QED
    BY <1>5, <1>6, <1>7, <1>8, <1>9 DEF IInv

\* The latency is added once.
LEMMA LatencyStep == ASSUME IInv, NEW r \in Webhooks, AddLatency(r) PROVE IInv'
  <1>1. /\ Goto(r, "timed") /\ webhook[r] = "resolved"
        /\ counter' = [counter EXCEPT !["latency"] = @ + 1]
        /\ UNCHANGED <<customerStats, reset, stats, report, fresh, overlapped, owed>>
    BY DEF AddLatency, statsVars, historyVars
  <1>2. Advance(r, "timed")
    BY <1>1 DEF Advance, Underway
  <1>3. /\ webhook[r] \notin Timed /\ "timed" \in Timed
        /\ webhook[r] \notin Outcome /\ "timed" \notin Outcome
    BY <1>1 DEF Timed, Outcome
  <1>4. /\ counter' \in [Counters -> Nat] /\ counter'["latency"] = counter["latency"] + 1
        /\ \A k \in Counters : k # "latency" => counter'[k] = counter[k]
    BY <1>1, SMT DEF IInv, Types, Counters
  <1>5. Histories' /\ webhook' \in [Webhooks -> WebhookStates]
    BY <1>2, AdvanceKeepsHistories
  <1>6. Counting'
    BY <1>2, <1>3, <1>4, AdvanceKeepsCounting DEF Counters
  <1>7. Recorded' /\ RecordsAddUp'
    BY <1>1, <1>2, AdvanceKeepsRecorded
  <1>8. Covered'
    BY <1>1, <1>4, GrowthKeepsCovered DEF Counters
  <1>9. Types'
    BY <1>1, <1>4, <1>5 DEF IInv, Types
  <1>. QED
    BY <1>5, <1>6, <1>7, <1>8, <1>9 DEF IInv

\* The outcome is counted once, as a success or as a failure.
LEMMA OutcomeStep == ASSUME IInv, NEW r \in Webhooks, CountOutcome(r) PROVE IInv'
  <1>1. /\ Goto(r, "counted") /\ webhook[r] = "timed"
        /\ \/ counter' = [counter EXCEPT !["success"] = @ + 1]
           \/ counter' = [counter EXCEPT !["failed"] = @ + 1]
        /\ UNCHANGED <<customerStats, reset, stats, report, fresh, overlapped, owed>>
    BY DEF CountOutcome, statsVars, historyVars
  <1>2. Advance(r, "counted")
    BY <1>1 DEF Advance, Underway
  <1>3. /\ webhook[r] \in Timed /\ "counted" \in Timed
        /\ webhook[r] \notin Outcome /\ "counted" \in Outcome
    BY <1>1 DEF Timed, Outcome
  <1>4. /\ counter' \in [Counters -> Nat]
        /\ counter'["received"] = counter["received"] /\ counter'["latency"] = counter["latency"]
        /\ \/ counter'["success"] = counter["success"] + 1 /\ counter'["failed"] = counter["failed"]
           \/ counter'["success"] = counter["success"] /\ counter'["failed"] = counter["failed"] + 1
    BY <1>1, SMT DEF IInv, Types, Counters
  <1>5. Histories' /\ webhook' \in [Webhooks -> WebhookStates]
    BY <1>2, AdvanceKeepsHistories
  <1>6. Counting'
    BY <1>2, <1>3, <1>4, AdvanceKeepsCounting
  <1>7. Recorded' /\ RecordsAddUp'
    BY <1>1, <1>2, AdvanceKeepsRecorded
  <1>8. Covered'
    BY <1>1, <1>4, GrowthKeepsCovered
  <1>9. Types'
    BY <1>1, <1>4, <1>5 DEF IInv, Types
  <1>. QED
    BY <1>5, <1>6, <1>7, <1>8, <1>9 DEF IInv

\* A record to which one request is added adds up.
LEMMA RecordGrows ==
    ASSUME NEW record \in Records, AddsUp(record), NEW outcome \in {"success", "failed"},
           NEW part \in {"decodeFailures", "typed"}, NEW more \in {{}, {"mismatches"}},
           more # {} => part = "typed"
    PROVE  LET grown == AddTo(record, {"received", outcome} \cup {part} \cup more)
           IN  grown \in Records /\ AddsUp(grown) /\ grown.received = record.received + 1
  <1> DEFINE fields == {"received", outcome} \cup {part} \cup more
             grown == AddTo(record, fields)
             one(k) == IF k \in fields THEN 1 ELSE 0
  <1>1. DOMAIN record = {"received", "success", "failed", "decodeFailures", "typed", "mismatches"}
    BY DEF Records
  <1>2. /\ record.received \in Nat /\ record.success \in Nat /\ record.failed \in Nat
        /\ record.decodeFailures \in Nat /\ record.typed \in Nat /\ record.mismatches \in Nat
    BY DEF Records
  <1>3. grown = [received |-> record.received + 1,
                 success |-> record.success + one("success"),
                 failed |-> record.failed + one("failed"),
                 decodeFailures |-> record.decodeFailures + one("decodeFailures"),
                 typed |-> record.typed + one("typed"),
                 mismatches |-> record.mismatches + one("mismatches")]
    BY <1>1, SMT DEF AddTo
  <1>4. /\ one("success") \in {0, 1} /\ one("failed") = 1 - one("success")
        /\ one("decodeFailures") \in {0, 1} /\ one("typed") = 1 - one("decodeFailures")
        /\ one("mismatches") \in {0, 1} /\ one("mismatches") <= one("typed")
    BY SMT
  <1>. HIDE DEF one, grown
  <1>5. grown \in Records
    BY <1>2, <1>3, <1>4, SMT DEF Records
  <1>6. AddsUp(grown) /\ grown.received = record.received + 1
    BY <1>2, <1>3, <1>4, SMT DEF AddsUp
  <1>. QED
    BY <1>5, <1>6 DEF grown

\* What recordCustomerStatistic does to the records.
LEMMA RecordEffect ==
    ASSUME IInv, NEW r \in Webhooks, NEW event \in Payloads, RecordCustomerStatistic(r, event)
    PROVE  /\ CustomerOf[r] \in Customers
           /\ DOMAIN customerStats' \in SUBSET Customers
           /\ \A c \in DOMAIN customerStats' : customerStats'[c] \in Records /\ AddsUp(customerStats'[c])
           /\ StatisticsOf(CustomerOf[r])'.received = StatisticsOf(CustomerOf[r]).received + 1
           /\ \A c \in Customers : c # CustomerOf[r] => StatisticsOf(c)' = StatisticsOf(c)
  <1> DEFINE c == CustomerOf[r]
             outcome == IF IsSuccess(statusCode[r]) THEN "success" ELSE "failed"
             part == IF event = Malformed THEN "decodeFailures" ELSE "typed"
             more == IF event \in {Malformed, c} THEN {} ELSE {"mismatches"}
             grown == AddTo(StatisticsOf(c), {"received", outcome} \cup {part} \cup more)
  <1>1. c \in Customers
    BY ReceiverAssumption
  <1>2. StatisticsOf(c) \in Records /\ AddsUp(StatisticsOf(c))
    BY RecordTypes DEF IInv, RecordsAddUp, StatisticsOf
  <1>3. /\ outcome \in {"success", "failed"} /\ part \in {"decodeFailures", "typed"}
        /\ more \in {{}, {"mismatches"}} /\ (more # {} => part = "typed")
    OBVIOUS
  <1>4. customerStats' = [d \in DOMAIN customerStats \cup {c} |-> IF d = c THEN grown ELSE customerStats[d]]
    <2>1. {part} = IF event = Malformed THEN {"decodeFailures"} ELSE {"typed"}
      OBVIOUS
    <2>. QED
      BY <2>1 DEF RecordCustomerStatistic
  <1>5. grown \in Records /\ AddsUp(grown) /\ grown.received = StatisticsOf(c).received + 1
    <2>. HIDE DEF outcome, part, more
    <2>. QED
      BY <1>2, <1>3, RecordGrows
  <1>. HIDE DEF grown
  <1>6. /\ DOMAIN customerStats' = DOMAIN customerStats \cup {c}
        /\ customerStats'[c] = grown
        /\ \A d \in DOMAIN customerStats : d # c => customerStats'[d] = customerStats[d]
    BY <1>4
  <1>7. \A d \in DOMAIN customerStats : customerStats[d] \in Records /\ AddsUp(customerStats[d])
    BY DEF IInv, Types, RecordsAddUp
  <1>8. DOMAIN customerStats \in SUBSET Customers
    BY DEF IInv, Types
  <1>9. StatisticsOf(c)' = grown
    BY <1>6 DEF StatisticsOf
  <1>10. ASSUME NEW d \in Customers, d # c PROVE StatisticsOf(d)' = StatisticsOf(d)
    <2>1. d \in DOMAIN customerStats' <=> d \in DOMAIN customerStats
      BY <1>6, <1>10
    <2>. QED
      BY <1>6, <1>10, <2>1 DEF StatisticsOf
  <1>. QED
    BY <1>1, <1>5, <1>6, <1>7, <1>8, <1>9, <1>10

\* The webhook is recorded for its customer, once, and answered.
LEMMA RecordStep ==
    ASSUME IInv, NEW r \in Webhooks, NEW event \in Payloads, RecordCustomerStatistic(r, event)
    PROVE  IInv'
  <1>1. /\ Goto(r, "answered") /\ webhook[r] = "counted"
        /\ UNCHANGED <<counter, reset, stats, report, fresh, overlapped, owed>>
    BY DEF RecordCustomerStatistic, statsVars, historyVars
  <1>2. Advance(r, "answered")
    BY <1>1 DEF Advance, Underway
  <1>3. /\ webhook[r] \in Timed /\ "answered" \in Timed
        /\ webhook[r] \in Outcome /\ "answered" \in Outcome
        /\ webhook[r] \notin {"answered"} /\ "answered" \in {"answered"}
    BY <1>1 DEF Timed, Outcome
  <1>4. /\ CustomerOf[r] \in Customers
        /\ DOMAIN customerStats' \in SUBSET Customers
        /\ \A c \in DOMAIN customerStats' : customerStats'[c] \in Records /\ AddsUp(customerStats'[c])
        /\ StatisticsOf(CustomerOf[r])'.received = StatisticsOf(CustomerOf[r]).received + 1
        /\ \A c \in Customers : c # CustomerOf[r] => StatisticsOf(c)' = StatisticsOf(c)
    BY RecordEffect
  <1>5. Histories' /\ webhook' \in [Webhooks -> WebhookStates] /\ r \in fresh \cup overlapped
    BY <1>2, AdvanceKeepsHistories
  <1>6. Counting'
    BY <1>1, <1>2, <1>3, AdvanceKeepsCounting
  <1>7. ASSUME ~Resetting, NEW c \in Customers
        PROVE  Counted(StatisticsOf(c).received, For(c), {"answered"})'
    <2>1. Counted(StatisticsOf(c).received, For(c), {"answered"}) /\ Types
      BY <1>7 DEF IInv, Recorded
    <2>2. For(c) \in SUBSET Webhooks /\ StatisticsOf(c).received \in Nat
      BY <2>1, RecordTypes DEF For
    <2>3. CountedAfter(StatisticsOf(c)'.received, For(c), {"answered"})
      <3>1. CASE c = CustomerOf[r]
        <4>1. r \in For(c)
          BY <3>1 DEF For
        <4>2. CountedAfter(StatisticsOf(c).received + 1, For(c), {"answered"})
          BY <1>1, <1>3, <1>5, <2>1, <2>2, <4>1, TotalGrows
        <4>. QED
          BY <1>4, <3>1, <4>2
      <3>2. CASE c # CustomerOf[r]
        <4>1. r \notin For(c)
          BY <3>2 DEF For
        <4>2. CountedAfter(StatisticsOf(c).received, For(c), {"answered"})
          BY <1>1, <2>1, <2>2, <4>1, TotalKept
        <4>. QED
          BY <1>4, <3>2, <4>2
      <3>. QED
        BY <3>1, <3>2
    <2>. QED
      BY <1>1, <2>3 DEF Counted, N, CountedAfter, NAfter, For
  <1>8. Resetting' = Resetting
    BY <1>1 DEF Resetting
  <1>9. Recorded' /\ RecordsAddUp'
    BY <1>4, <1>7, <1>8 DEF Recorded, RecordsAddUp
  <1>10. Covered'
    BY <1>1, GrowthKeepsCovered
  <1>11. Types'
    BY <1>1, <1>4, <1>5 DEF IInv, Types
  <1>. QED
    BY <1>5, <1>6, <1>9, <1>10, <1>11 DEF IInv

\* A count of a larger set of requests, none of which was counted before.
LEMMA NewRequest ==
    ASSUME Types, NEW r \in Webhooks, Goto(r, "delaying"), webhook[r] = "unsent",
           NEW A \in SUBSET Webhooks, r \notin A, NEW S, "delaying" \notin S
    PROVE  NAfter(A \cup {r}, S) = N(A, S) /\ NAfter(A, S) = N(A, S)
  <1>1. webhook'[r] = "delaying" /\ \A x \in Webhooks : x # r => webhook'[x] = webhook[x]
    BY DEF Goto, Types, WebhookStates
  <1>2. {x \in A \cup {r} : webhook'[x] \in S} = {x \in A : webhook[x] \in S}
    BY <1>1
  <1>3. {x \in A : webhook'[x] \in S} = {x \in A : webhook[x] \in S}
    BY <1>1
  <1>. QED
    BY <1>2, <1>3 DEF N, NAfter

\* A total of a later stage is not touched by a new request, which is fresh or
\* overlaps a reset.
LEMMA NewRequestKeepsTotal ==
    ASSUME Types, Histories, NEW r \in Webhooks, Goto(r, "delaying"), webhook[r] = "unsent",
           \/ fresh' = fresh \cup {r} /\ overlapped' = overlapped
           \/ fresh' = fresh /\ overlapped' = overlapped \cup {r},
           NEW requests \in SUBSET Webhooks, NEW S, "delaying" \notin S
    PROVE  /\ NAfter(fresh' \cap requests, S) = N(fresh \cap requests, S)
           /\ NAfter((fresh' \cup overlapped') \cap requests, S) = N((fresh \cup overlapped) \cap requests, S)
  <1> DEFINE A == fresh \cap requests
             B == (fresh \cup overlapped) \cap requests
  <1>1. r \notin A /\ r \notin B /\ A \in SUBSET Webhooks /\ B \in SUBSET Webhooks
    BY DEF Histories
  <1>2. fresh' \cap requests \in {A, A \cup {r}}
    OBVIOUS
  <1>3. (fresh' \cup overlapped') \cap requests \in {B, B \cup {r}}
    OBVIOUS
  <1>. HIDE DEF A, B
  <1>4. NAfter(A, S) = N(A, S) /\ NAfter(A \cup {r}, S) = N(A, S)
    BY <1>1, NewRequest
  <1>5. NAfter(B, S) = N(B, S) /\ NAfter(B \cup {r}, S) = N(B, S)
    BY <1>1, NewRequest
  <1>. QED
    BY <1>2, <1>3, <1>4, <1>5 DEF A, B

\* A new request is counted as received, once.
LEMMA ReceivedGrows ==
    ASSUME IInv, NEW r \in Webhooks, Goto(r, "delaying"), webhook[r] = "unsent",
           \/ fresh' = fresh \cup {r} /\ overlapped' = overlapped
           \/ fresh' = fresh /\ overlapped' = overlapped \cup {r},
           counter'["received"] = counter["received"] + 1
    PROVE  Counted(counter["received"], Webhooks, WebhookStates)'
  <1> DEFINE A == fresh \cap Webhooks
             B == (fresh \cup overlapped) \cap Webhooks
             A2 == fresh' \cap Webhooks
             B2 == (fresh' \cup overlapped') \cap Webhooks
  <1>1. webhook \in [Webhooks -> WebhookStates] /\ webhook' \in [Webhooks -> WebhookStates]
    BY DEF IInv, Types, Goto, WebhookStates
  <1>2. /\ {x \in A : webhook[x] \in WebhookStates} = A
        /\ {x \in B : webhook[x] \in WebhookStates} = B
        /\ {x \in A2 : webhook'[x] \in WebhookStates} = A2
        /\ {x \in B2 : webhook'[x] \in WebhookStates} = B2
    BY <1>1
  <1>3. Cardinality(A) <= counter["received"] /\ counter["received"] <= Cardinality(B)
    BY <1>2 DEF IInv, Counting, Counted, N
  <1>4. r \notin A /\ r \notin B /\ A \in SUBSET Webhooks /\ B \in SUBSET Webhooks
    BY DEF IInv, Histories
  <1>5. (A2 = A \/ A2 = A \cup {r}) /\ B2 = B \cup {r}
    OBVIOUS
  <1>. HIDE DEF A, B, A2, B2
  <1>6. IsFiniteSet(A) /\ IsFiniteSet(B)
    BY <1>4, ReceiverAssumption, FS_Subset
  <1>7. Cardinality(A) \in Nat /\ Cardinality(B) \in Nat /\ counter["received"] \in Nat
    BY <1>6, FS_CardinalityType DEF IInv, Types, Counters
  <1>8. Cardinality(A \cup {r}) = Cardinality(A) + 1 /\ Cardinality(B \cup {r}) = Cardinality(B) + 1
    BY <1>4, <1>6, FS_AddElement
  <1>9. /\ Cardinality(A2) = Cardinality(A) \/ Cardinality(A2) = Cardinality(A) + 1
        /\ Cardinality(B2) = Cardinality(B) + 1
    BY <1>5, <1>8
  <1>10. Cardinality(A2) <= counter["received"] + 1 /\ counter["received"] + 1 <= Cardinality(B2)
    BY <1>3, <1>7, <1>9, SMT
  <1>. QED
    BY <1>2, <1>10 DEF Counted, N, A2, B2

\* A new request is counted as received, and has got to no other step.
LEMMA ReceiveStep == ASSUME IInv, NEW r \in Webhooks, ReceiveWebhook(r) PROVE IInv'
  <1>1. /\ Goto(r, "delaying") /\ webhook[r] = "unsent"
        /\ counter' = [counter EXCEPT !["received"] = @ + 1]
        /\ \/ fresh' = fresh \cup {r} /\ overlapped' = overlapped /\ ~Resetting
           \/ fresh' = fresh /\ overlapped' = overlapped \cup {r}
        /\ UNCHANGED <<customerStats, reset, stats, report, owed>>
    BY DEF ReceiveWebhook, statsVars
  <1>2. Types /\ Histories
    BY DEF IInv
  <1>3. /\ counter' \in [Counters -> Nat] /\ counter'["received"] = counter["received"] + 1
        /\ counter'["success"] = counter["success"] /\ counter'["failed"] = counter["failed"]
        /\ counter'["latency"] = counter["latency"]
    BY <1>1, <1>2, SMT DEF Types, Counters
  <1>4. \A steps : Before(steps)' <=> Before(steps)
    BY <1>1 DEF Before
  <1>5. Resetting' = Resetting
    BY <1>1 DEF Resetting
  <1>6. ASSUME NEW requests \in SUBSET Webhooks, NEW S, "delaying" \notin S
        PROVE  /\ N(fresh \cap requests, S)' = N(fresh \cap requests, S)
               /\ N((fresh \cup overlapped) \cap requests, S)' = N((fresh \cup overlapped) \cap requests, S)
    <2>1. /\ NAfter(fresh' \cap requests, S) = N(fresh \cap requests, S)
          /\ NAfter((fresh' \cup overlapped') \cap requests, S) = N((fresh \cup overlapped) \cap requests, S)
      BY <1>1, <1>2, <1>6, NewRequestKeepsTotal
    <2>. QED
      BY <2>1 DEF N, NAfter
  <1>7. "delaying" \notin Timed /\ "delaying" \notin Outcome /\ "delaying" \notin {"answered"}
    BY DEF Timed, Outcome
  <1>8. Counting'
    <2>1. Counted(counter["received"], Webhooks, WebhookStates)'
      BY <1>1, <1>3, ReceivedGrows
    <2>2. Webhooks \in SUBSET Webhooks
      OBVIOUS
    <2>3. ~Before({"success"}) => counter'["success"] <= N((fresh \cup overlapped) \cap Webhooks, Outcome)'
      BY <1>3, <1>6, <1>7, <2>2 DEF IInv, Counting
    <2>4. ~Before({"success", "failed"}) =>
             Counted(counter["success"] + counter["failed"], Webhooks, Outcome)'
      BY <1>3, <1>6, <1>7, <2>2 DEF IInv, Counting, Counted
    <2>5. ~Before({"success", "failed", "latency"}) => Counted(counter["latency"], Webhooks, Timed)'
      BY <1>3, <1>6, <1>7, <2>2 DEF IInv, Counting, Counted
    <2>. QED
      BY <1>4, <2>1, <2>3, <2>4, <2>5 DEF Counting
  <1>9. ASSUME ~Resetting, NEW c \in Customers
        PROVE  Counted(StatisticsOf(c).received, For(c), {"answered"})'
    <2>1. For(c) \in SUBSET Webhooks /\ For(c)' = For(c) /\ StatisticsOf(c)' = StatisticsOf(c)
      BY <1>1 DEF For, StatisticsOf
    <2>2. Counted(StatisticsOf(c).received, For(c), {"answered"})
      BY <1>9 DEF IInv, Recorded
    <2>. QED
      BY <1>6, <1>7, <2>1, <2>2 DEF Counted
  <1>10. Recorded' /\ RecordsAddUp'
    BY <1>1, <1>5, <1>9 DEF IInv, Recorded, RecordsAddUp
  <1>11. webhook'[r] = "delaying" /\ \A x \in Webhooks : x # r => webhook'[x] = webhook[x]
    BY <1>1, <1>2 DEF Goto, Types
  <1>12. webhook' \in [Webhooks -> WebhookStates]
    BY <1>1, <1>2 DEF Goto, Types, WebhookStates
  <1>13. Histories'
    <2>1. \A x \in fresh' \cup overlapped' : webhook'[x] # "unsent"
      BY <1>1, <1>2, <1>11 DEF Types, Histories
    <2>2. InFlight' \in SUBSET (fresh' \cup overlapped')
      <3>1. InFlight' \in SUBSET (InFlight \cup {r})
        BY <1>11 DEF InFlight
      <3>. QED
        BY <1>1, <1>2, <3>1 DEF Histories
    <2>3. Resetting => fresh' = {}
      BY <1>1, <1>2 DEF Histories
    <2>4. owed \in SUBSET fresh' /\ \A x \in owed : webhook'[x] = "answered"
      <3>1. r \notin owed
        BY <1>1, <1>2 DEF Histories
      <3>. QED
        BY <1>1, <1>2, <1>11, <3>1 DEF Histories, Types
    <2>. QED
      BY <1>1, <1>5, <2>1, <2>2, <2>3, <2>4 DEF Histories
  <1>14. Covered'
    BY <1>1, <1>3, GrowthKeepsCovered
  <1>15. Types'
    BY <1>1, <1>2, <1>3, <1>12 DEF Types
  <1>. QED
    BY <1>8, <1>10, <1>13, <1>14, <1>15 DEF IInv

-----------------------------------------------------------------------------
(***************************************************************************)
(* The steps of handleResetStats.                                          *)
(***************************************************************************)

\* Nothing fresh is counted by a total that was just cleared.
LEMMA ClearedTotal ==
    ASSUME Types, fresh' = {}, NEW A \in SUBSET Webhooks, NEW S, overlapped' \in SUBSET Webhooks,
           webhook' = webhook
    PROVE  /\ N(fresh \cap A, S)' = 0
           /\ N((fresh \cup overlapped) \cap A, S)' \in Nat
           /\ Counted(0, A, S)'
  <1>1. {x \in fresh' \cap A : webhook'[x] \in S} = {}
    OBVIOUS
  <1>2. N(fresh \cap A, S)' = 0
    BY <1>1, FS_EmptySet DEF N
  <1>3. NAfter((fresh' \cup overlapped') \cap A, S) \in Nat
    BY FiniteCounts
  <1>4. N((fresh \cup overlapped) \cap A, S)' \in Nat
    BY <1>3 DEF N, NAfter
  <1>5. \A n \in Nat : 0 <= n /\ 0 <= 0
    BY SMT
  <1>. QED
    BY <1>2, <1>4, <1>5 DEF Counted

\* What is owed is nothing once a reset has begun.
LEMMA NothingOwed ==
    ASSUME Types', owed' = {}, UNCHANGED <<stats, report>>
    PROVE  Covered'
  <1>1. Cardinality(owed') = 0
    BY FS_EmptySet
  <1>2. /\ report'["received"] \in Nat /\ report'["success"] \in Nat /\ report'["failed"] \in Nat
        /\ counter'["failed"] \in Nat
    BY DEF Types, Counters
  <1>3. \A a, b \in Nat : 0 <= a /\ 0 <= a + b
    BY SMT
  <1>4. \A c : owed' \cap For(c)' = {}
    OBVIOUS
  <1>. QED
    BY <1>1, <1>2, <1>3, <1>4 DEF Covered

\* The first store: the requests in flight now overlap a reset.
LEMMA BeginReset ==
    ASSUME IInv, NEW q \in Resets, reset[q] = "received", StoreZero(q)
    PROVE  IInv'
  <1>1. /\ counter' = [counter EXCEPT !["received"] = 0]
        /\ reset' = [reset EXCEPT ![q] = "success"]
        /\ overlapped' = overlapped \cup InFlight
        /\ fresh' = {} /\ owed' = {}
        /\ UNCHANGED <<webhook, customerStats, stats, report>>
    BY DEF StoreZero, AfterClearing
  <1>2. Types /\ Histories
    BY DEF IInv
  <1>3. reset'[q] = "success" /\ reset' \in [Resets -> ResetSteps]
    BY <1>1, <1>2 DEF Types, ResetSteps, Counters
  <1>4. counter' \in [Counters -> Nat] /\ counter'["received"] = 0
    BY <1>1, <1>2, SMT DEF Types, Counters
  <1>5. overlapped' \in SUBSET Webhooks
    BY <1>1, <1>2 DEF Types, InFlight
  <1>6. Types'
    BY <1>1, <1>2, <1>3, <1>4, <1>5 DEF Types
  <1>7. Resetting' /\ Before({"success"})' /\ Before({"success", "failed"})'
        /\ Before({"success", "failed", "latency"})'
    BY <1>3 DEF Resetting, Before
  <1>8. Counted(0, Webhooks, WebhookStates)'
    BY <1>1, <1>2, <1>5, ClearedTotal
  <1>9. Counting'
    BY <1>4, <1>7, <1>8 DEF Counting, Counted
  <1>10. Histories'
    <2>1. InFlight' = InFlight /\ \A x \in InFlight : webhook[x] # "unsent"
      BY <1>1 DEF InFlight
    <2>. QED
      BY <1>1, <1>2, <2>1 DEF Histories
  <1>11. Recorded' /\ RecordsAddUp'
    BY <1>1, <1>7 DEF IInv, Recorded, RecordsAddUp
  <1>12. Covered'
    BY <1>1, <1>6, NothingOwed
  <1>. QED
    BY <1>6, <1>9, <1>10, <1>11, <1>12 DEF IInv

\* A later step of a reset.
Later(q, to) ==
    /\ reset[q] \in {"success", "failed", "latency", "customers"}
    /\ reset' = [reset EXCEPT ![q] = to]
    /\ to \in {"failed", "latency", "customers", "done"}
    /\ UNCHANGED <<webhook, stats, report, fresh, overlapped, owed>>

\* Then nothing is fresh, and nothing is owed (handleResetStats).
LEMMA LaterKeepsHistories ==
    ASSUME IInv, NEW q \in Resets, NEW to, Later(q, to)
    PROVE  /\ Resetting /\ fresh = {} /\ owed = {} /\ fresh' = {} /\ owed' = {}
           /\ Histories'
           /\ reset' \in [Resets -> ResetSteps] /\ reset'[q] = to
           /\ \A p \in Resets : p # q => reset'[p] = reset[p]
  <1>1. Types /\ Histories
    BY DEF IInv
  <1>2. Resetting
    BY DEF Later, Resetting
  <1>3. fresh = {} /\ owed = {} /\ fresh' = {} /\ owed' = {}
    BY <1>1, <1>2 DEF Histories, Later
  <1>4. /\ reset' \in [Resets -> ResetSteps] /\ reset'[q] = to
        /\ \A p \in Resets : p # q => reset'[p] = reset[p]
    BY <1>1 DEF Later, Types, ResetSteps, Counters
  <1>5. InFlight' = InFlight /\ UNCHANGED <<webhook, overlapped>>
    BY DEF InFlight, Later
  <1>. QED
    BY <1>1, <1>2, <1>3, <1>4, <1>5 DEF Histories

\* A total that no other reset is going to clear is true after this store.
LEMMA StoreStep ==
    ASSUME IInv, NEW q \in Resets, reset[q] # "received", StoreZero(q)
    PROVE  IInv'
  <1> DEFINE k == reset[q]
  <1>1. /\ Types /\ k \in {"success", "failed", "latency"}
        /\ counter' = [counter EXCEPT ![k] = 0]
        /\ UNCHANGED <<webhook, customerStats, stats, report, fresh, overlapped, owed>>
    BY DEF IInv, StoreZero, Counters, historyVars
  <1>2. PICK to \in {"failed", "latency", "customers"} :
           /\ reset' = [reset EXCEPT ![q] = to]
           /\ k = "success" <=> to = "failed"
           /\ k = "failed" <=> to = "latency"
           /\ k = "latency" <=> to = "customers"
    <2>1. reset' = [reset EXCEPT ![q] = AfterClearing(k)]
      BY DEF StoreZero
    <2>2. CASE k = "success"
      BY <2>1, <2>2 DEF AfterClearing
    <2>3. CASE k = "failed"
      BY <2>1, <2>3 DEF AfterClearing
    <2>4. CASE k = "latency"
      BY <2>1, <2>4 DEF AfterClearing
    <2>. QED
      BY <1>1, <2>2, <2>3, <2>4
  <1>3. Later(q, to)
    BY <1>1, <1>2 DEF Later
  <1>4. /\ fresh' = {} /\ owed' = {}
        /\ Histories'
        /\ reset' \in [Resets -> ResetSteps] /\ reset'[q] = to
        /\ \A p \in Resets : p # q => reset'[p] = reset[p]
    BY <1>3, LaterKeepsHistories
  <1>5. /\ counter' \in [Counters -> Nat] /\ counter'[k] = 0
        /\ \A m \in Counters : m # k => counter'[m] = counter[m]
    BY <1>1, SMT DEF Types, Counters
  <1>6. Types'
    BY <1>1, <1>4, <1>5 DEF Types
  <1>7. \A S, t : Counted(t, Webhooks, S)' <=> 
           /\ N(fresh \cap Webhooks, S) <= t
           /\ t <= N((fresh \cup overlapped) \cap Webhooks, S)
    BY <1>1 DEF Counted, N
  <1>8. ASSUME NEW S PROVE Counted(0, Webhooks, S)'
    <2>1. Webhooks \in SUBSET Webhooks /\ overlapped' \in SUBSET Webhooks
      BY <1>1 DEF Types
    <2>. QED
      BY <1>1, <1>4, <2>1, ClearedTotal
  <1>9. ASSUME NEW steps, k \notin steps, ~Before(steps)' PROVE ~Before(steps)
    BY <1>4, <1>9 DEF Before
  <1>10. ASSUME NEW steps, to \in steps PROVE Before(steps)'
    BY <1>4, <1>10 DEF Before
  <1>11. Counted(counter["received"], Webhooks, WebhookStates)'
    <2>1. counter'["received"] = counter["received"]
      BY <1>1, <1>5 DEF Counters
    <2>. QED
      BY <1>7, <2>1 DEF IInv, Counting, Counted
  <1>12. ASSUME ~Before({"success"})'
         PROVE  counter'["success"] <= N((fresh \cup overlapped) \cap Webhooks, Outcome)
    <2>1. CASE k = "success"
      BY <1>5, <1>7, <1>8, <2>1
    <2>2. CASE k # "success"
      <3>1. ~Before({"success"}) /\ counter'["success"] = counter["success"]
        BY <1>5, <1>9, <1>12, <2>2 DEF Counters
      <3>. QED
        BY <3>1 DEF IInv, Counting
    <2>. QED
      BY <2>1, <2>2
  <1>13. ASSUME ~Before({"success", "failed"})'
         PROVE  Counted(counter["success"] + counter["failed"], Webhooks, Outcome)'
    <2>1. k # "success"
      BY <1>2, <1>10, <1>13
    <2>2. CASE k = "failed"
      <3>1. ~Before({"success"})'
        BY <1>13 DEF Before
      <3>2. counter'["success"] <= N((fresh \cup overlapped) \cap Webhooks, Outcome)
        BY <1>12, <3>1
      <3>3. counter'["success"] \in Nat /\ counter'["failed"] = 0
        BY <1>5, <2>2 DEF Counters
      <3>4. N(fresh \cap Webhooks, Outcome) <= 0
        BY <1>7, <1>8
      <3>5. N(fresh \cap Webhooks, Outcome) \in Nat
        BY <1>1, FiniteCounts DEF Types
      <3>6. /\ N(fresh \cap Webhooks, Outcome) <= counter'["success"] + counter'["failed"]
            /\ counter'["success"] + counter'["failed"] = counter'["success"]
        BY <3>3, <3>4, <3>5, SMT
      <3>. QED
        BY <1>7, <3>2, <3>6
    <2>3. CASE k = "latency"
      <3>1. ~Before({"success", "failed"})
        BY <1>9, <1>13, <2>3
      <3>2. counter'["success"] = counter["success"] /\ counter'["failed"] = counter["failed"]
        BY <1>5, <2>3 DEF Counters
      <3>. QED
        BY <1>7, <3>1, <3>2 DEF IInv, Counting, Counted
    <2>. QED
      BY <1>1, <2>1, <2>2, <2>3
  <1>14. ASSUME ~Before({"success", "failed", "latency"})'
         PROVE  Counted(counter["latency"], Webhooks, Timed)'
    <2>1. k = "latency"
      BY <1>1, <1>2, <1>10, <1>14
    <2>2. counter'["latency"] = 0
      BY <1>5, <2>1
    <2>. QED
      BY <1>7, <1>8, <2>2
  <1>15. N((fresh \cup overlapped) \cap Webhooks, Outcome)' = N((fresh \cup overlapped) \cap Webhooks, Outcome)
    BY <1>1 DEF N
  <1>16. Counting'
    BY <1>11, <1>12, <1>13, <1>14, <1>15 DEF Counting
  <1>17. Resetting'
    BY <1>4 DEF Resetting
  <1>18. Recorded' /\ RecordsAddUp'
    BY <1>1, <1>17 DEF IInv, Recorded, RecordsAddUp
  <1>19. Covered'
    BY <1>1, <1>4, <1>6, NothingOwed
  <1>. QED
    BY <1>4, <1>6, <1>16, <1>18, <1>19 DEF IInv

\* The map is replaced: the records are true if no other reset is under way.
LEMMA ClearStep == ASSUME IInv, NEW q \in Resets, ClearCustomers(q) PROVE IInv'
  <1>1. /\ Types /\ reset[q] = "customers" /\ Later(q, "done")
        /\ customerStats' = [c \in {} |-> EmptyStatistics]
        /\ UNCHANGED <<webhook, counter, stats, report, fresh, overlapped, owed>>
    BY DEF IInv, ClearCustomers, Later, historyVars, statsVars
  <1>2. /\ fresh' = {} /\ owed' = {}
        /\ Histories'
        /\ reset' \in [Resets -> ResetSteps] /\ reset'[q] = "done"
        /\ \A p \in Resets : p # q => reset'[p] = reset[p]
    BY <1>1, LaterKeepsHistories
  <1>3. DOMAIN customerStats' = {}
    BY <1>1
  <1>4. Types'
    BY <1>1, <1>2, <1>3 DEF Types
  <1>5. ASSUME NEW steps, reset[q] \notin steps, ~Before(steps)' PROVE ~Before(steps)
    BY <1>2, <1>5 DEF Before
  <1>6. Counting'
    <2>1. \A S, t : Counted(t, Webhooks, S)' <=> 
             /\ N(fresh \cap Webhooks, S) <= t
             /\ t <= N((fresh \cup overlapped) \cap Webhooks, S)
      BY <1>1 DEF Counted, N
    <2>2. N((fresh \cup overlapped) \cap Webhooks, Outcome)' = N((fresh \cup overlapped) \cap Webhooks, Outcome)
      BY <1>1 DEF N
    <2>3. ASSUME NEW steps \in {{"success"}, {"success", "failed"}, {"success", "failed", "latency"}},
                 ~Before(steps)'
          PROVE  ~Before(steps)
      <3>1. reset[q] \notin steps
        BY <1>1
      <3>. QED
        BY <1>5, <2>3, <3>1
    <2>. QED
      BY <1>1, <2>1, <2>2, <2>3 DEF IInv, Counting, Counted
  <1>7. ASSUME NEW c \in Customers PROVE Counted(StatisticsOf(c).received, For(c), {"answered"})'
    <2>1. StatisticsOf(c)'.received = 0
      BY <1>1, <1>3, RecordTypes DEF StatisticsOf
    <2>2. For(c) \in SUBSET Webhooks /\ For(c)' = For(c) /\ overlapped' \in SUBSET Webhooks
      BY <1>1 DEF For, Types
    <2>3. Counted(0, For(c), {"answered"})'
      BY <1>1, <1>2, <2>2, ClearedTotal
    <2>. QED
      BY <2>1, <2>3 DEF Counted
  <1>8. Recorded' /\ RecordsAddUp'
    BY <1>3, <1>7 DEF Recorded, RecordsAddUp
  <1>9. Covered'
    BY <1>1, <1>2, <1>4, NothingOwed
  <1>. QED
    BY <1>2, <1>4, <1>6, <1>8, <1>9 DEF IInv

-----------------------------------------------------------------------------
(***************************************************************************)
(* The handler of GET /stats, which changes nothing of what it reads.      *)
(***************************************************************************)
Shared == <<webhook, counter, customerStats, reset, fresh, overlapped>>

\* A step that leaves the statistics alone leaves them true.
LEMMA SharedKept ==
    ASSUME IInv, UNCHANGED Shared
    PROVE  Counting' /\ Recorded' /\ RecordsAddUp'
  <1>1. /\ UNCHANGED <<webhook, counter, customerStats, reset, fresh, overlapped>>
    BY DEF Shared
  <1>2. Counting'
    BY <1>1 DEF IInv, Counting, Counted, N, Before
  <1>3. Recorded'
    BY <1>1 DEF IInv, Recorded, Resetting, Counted, N, StatisticsOf, For
  <1>4. RecordsAddUp'
    BY <1>1 DEF IInv, RecordsAddUp
  <1>. QED
    BY <1>2, <1>3, <1>4

\* Fresh webhooks that were answered are in every total that counts them.
LEMMA AnsweredAreCounted ==
    ASSUME Types, NEW A \in SUBSET fresh, \A r \in A : webhook[r] = "answered",
           NEW Q \in SUBSET Webhooks, A \in SUBSET Q, NEW S, "answered" \in S,
           NEW total \in Nat, Counted(total, Q, S)
    PROVE  Cardinality(A) <= total
  <1> DEFINE Z == {x \in fresh \cap Q : webhook[x] \in S}
  <1>1. A \in SUBSET Z
    OBVIOUS
  <1>2. IsFiniteSet(Z) /\ N(fresh \cap Q, S) \in Nat /\ N(fresh \cap Q, S) = Cardinality(Z)
    <2>1. fresh \cap Q \in SUBSET Webhooks
      OBVIOUS
    <2>. QED
      BY <2>1, FiniteCounts DEF N
  <1>3. Cardinality(Z) <= total
    BY <1>2 DEF Counted
  <1>. HIDE DEF Z
  <1>4. IsFiniteSet(A) /\ Cardinality(A) <= Cardinality(Z)
    BY <1>1, <1>2, FS_Subset
  <1>5. Cardinality(A) \in Nat /\ Cardinality(Z) \in Nat
    BY <1>2, <1>4, FS_CardinalityType
  <1>. QED
    BY <1>3, <1>4, <1>5, SMT

(***************************************************************************)
(* Reading a counter: the outcomes of what is owed were counted before the *)
(* report began, in one of the two counters, and neither shrinks unless a  *)
(* reset begins, after which nothing is owed.                              *)
(***************************************************************************)
LEMMA ReadStep == ASSUME IInv, ReadCounter PROVE IInv'
  <1>1. /\ Types /\ Histories /\ Covered /\ stats \in {"received", "success", "failed"}
        /\ report' = [report EXCEPT ![stats] = counter[stats]]
        /\ stats' = AfterReading(stats)
        /\ owed' = IF stats = "received" THEN {r \in fresh : webhook[r] = "answered"} ELSE owed
        /\ UNCHANGED <<webhook, counter, customerStats, reset, fresh, overlapped>>
    <2>1. stats \in {"received", "success", "failed"}
      BY DEF IInv, ReadCounter, Types, StatsSteps, Counters
    <2>. QED
      BY <2>1 DEF IInv, ReadCounter, historyVars
  <1>2. /\ counter["received"] \in Nat /\ counter["success"] \in Nat /\ counter["failed"] \in Nat
    BY <1>1 DEF Types, Counters
  <1>3. /\ DOMAIN report' = DOMAIN report /\ report'[stats] = counter[stats]
        /\ \A k \in DOMAIN report : k # stats => report'[k] = report[k]
    BY <1>1 DEF Types
  <1>4. /\ stats = "received" => stats' = "success"
        /\ stats = "success" => stats' = "failed"
        /\ stats = "failed" => stats' = "customers"
    BY <1>1 DEF AfterReading
  <1>5. /\ owed' \in SUBSET fresh /\ owed' \in SUBSET Webhooks
        /\ \A r \in owed' : webhook[r] = "answered"
    BY <1>1 DEF Types, Histories
  <1>6. Types'
    <2>1. /\ DOMAIN report' = {"received", "success", "failed", "customers"}
          /\ report'["received"] \in Nat /\ report'["success"] \in Nat /\ report'["failed"] \in Nat
      BY <1>1, <1>2, <1>3 DEF Types
    <2>2. stats' \in StatsSteps
      BY <1>1, <1>4 DEF StatsSteps
    <2>. QED
      BY <1>1, <1>5, <2>1, <2>2 DEF Types
  <1>7. Histories'
    BY <1>1, <1>5 DEF Histories, InFlight, Resetting
  <1>8. Cardinality(owed') <= counter["received"]
    <2>1. Counted(counter["received"], Webhooks, WebhookStates)
      BY DEF IInv, Counting
    <2>. QED
      BY <1>1, <1>2, <1>5, <2>1, AnsweredAreCounted DEF WebhookStates
  <1>9. Cardinality(owed') \in Nat
    <2>1. IsFiniteSet(owed')
      BY <1>5, ReceiverAssumption, FS_Subset
    <2>. QED
      BY <2>1, FS_CardinalityType
  <1>10. Cardinality(owed') <= counter["success"] + counter["failed"]
    <2>1. CASE Resetting
      <3>1. owed' = {} /\ Cardinality({}) = 0
        BY <1>1, <1>5, <2>1, FS_EmptySet DEF Histories
      <3>. QED
        BY <1>2, <3>1, SMT
    <2>2. CASE ~Resetting
      <3>1. ~Before({"success", "failed"})
        BY <2>2 DEF Before, Resetting
      <3>2. Counted(counter["success"] + counter["failed"], Webhooks, Outcome)
        BY <3>1 DEF IInv, Counting
      <3>3. counter["success"] + counter["failed"] \in Nat
        BY <1>2, SMT
      <3>. QED
        BY <1>1, <1>5, <3>2, <3>3, AnsweredAreCounted DEF Outcome
    <2>. QED
      BY <2>1, <2>2
  <1>11. CASE stats = "received"
    <2>1. stats' = "success" /\ report'["received"] = counter["received"]
      BY <1>3, <1>4, <1>11
    <2>2. Covered'
      BY <1>8, <2>1 DEF Covered
    <2>. QED
      BY <1>1, <1>6, <1>7, <2>2, SharedKept DEF IInv, Shared
  <1>12. CASE stats = "success"
    <2>1. /\ stats' = "failed" /\ report'["success"] = counter["success"] /\ owed' = owed
          /\ report'["received"] = report["received"] /\ counter' = counter
      BY <1>1, <1>3, <1>4, <1>12 DEF Types
    <2>2. Covered'
      BY <1>1, <1>10, <1>12, <2>1 DEF Covered
    <2>. QED
      BY <1>1, <1>6, <1>7, <2>2, SharedKept DEF IInv, Shared
  <1>13. CASE stats = "failed"
    <2>1. /\ stats' = "customers" /\ report'["failed"] = counter["failed"] /\ owed' = owed
          /\ report'["received"] = report["received"] /\ report'["success"] = report["success"]
      BY <1>1, <1>3, <1>4, <1>13 DEF Types
    <2>2. Covered'
      BY <1>1, <1>13, <2>1 DEF Covered
    <2>. QED
      BY <1>1, <1>6, <1>7, <2>2, SharedKept DEF IInv, Shared
  <1>. QED
    BY <1>1, <1>11, <1>12, <1>13

\* The copy of the map has a record of every customer to whom something is
\* owed: a record that counts a webhook exists.
LEMMA SnapshotStep == ASSUME IInv, SnapshotCustomerStatistics PROVE IInv'
  <1>1. /\ Types /\ Histories /\ Covered /\ stats = "customers" /\ stats' = "done"
        /\ report' = [report EXCEPT !["customers"] = customerStats]
        /\ UNCHANGED <<webhook, counter, customerStats, reset, owed, fresh, overlapped>>
    BY DEF IInv, SnapshotCustomerStatistics, historyVars
  <1>2. /\ DOMAIN report' = DOMAIN report /\ report'["customers"] = customerStats
        /\ report'["received"] = report["received"]
        /\ report'["success"] = report["success"] /\ report'["failed"] = report["failed"]
    BY <1>1 DEF Types
  <1>3. Types'
    BY <1>1, <1>2 DEF Types, StatsSteps
  <1>4. Histories'
    BY <1>1 DEF Histories, InFlight, Resetting
  <1>5. ASSUME NEW c \in Customers, owed \cap For(c) # {}
        PROVE  /\ c \in DOMAIN customerStats
               /\ Cardinality(owed \cap For(c)) <= customerStats[c].received
    <2> DEFINE A == owed \cap For(c)
    <2>1. /\ A \in SUBSET fresh /\ A \in SUBSET For(c) /\ For(c) \in SUBSET Webhooks
          /\ \A r \in A : webhook[r] = "answered"
      BY <1>1 DEF Histories, For
    <2>2. ~Resetting
      BY <1>1, <1>5 DEF Histories
    <2>3. Counted(StatisticsOf(c).received, For(c), {"answered"})
      BY <2>2 DEF IInv, Recorded
    <2>4. IsFiniteSet(A) /\ A # {}
      BY <1>1, <1>5, ReceiverAssumption, FS_Subset DEF Types
    <2>5. StatisticsOf(c).received \in Nat
      BY <1>1, RecordTypes
    <2>. HIDE DEF A
    <2>6. Cardinality(A) <= StatisticsOf(c).received
      BY <1>1, <2>1, <2>3, <2>5, AnsweredAreCounted
    <2>7. Cardinality(A) \in Nat /\ Cardinality(A) # 0
      BY <2>4, FS_CardinalityType, FS_EmptySet
    <2>8. StatisticsOf(c).received # 0
      BY <2>5, <2>6, <2>7, SMT
    <2>9. c \in DOMAIN customerStats
      BY <1>1, <2>8, RecordTypes DEF StatisticsOf
    <2>. QED
      BY <2>6, <2>9 DEF StatisticsOf, A
  <1>6. Covered'
    <2>1. \A c \in Customers : owed' \cap For(c) # {} =>
              /\ c \in DOMAIN report'["customers"]
              /\ Cardinality(owed' \cap For(c)) <= report'["customers"][c].received
      BY <1>1, <1>2, <1>5
    <2>. QED
      BY <1>1, <1>2, <2>1 DEF Covered, For
  <1>. QED
    BY <1>1, <1>3, <1>4, <1>6, SharedKept DEF IInv, Shared

\* A step that leaves all of this alone: POST /config, or no step at all.
LEMMA OtherStep == ASSUME IInv, UNCHANGED Shared, UNCHANGED statsVars PROVE IInv'
  <1>1. UNCHANGED <<webhook, counter, customerStats, reset, fresh, overlapped, stats, report, owed>>
    BY DEF Shared, statsVars
  <1>2. Types'
    BY <1>1 DEF IInv, Types
  <1>3. Histories'
    BY <1>1 DEF IInv, Histories, InFlight, Resetting
  <1>4. Covered'
    BY <1>1 DEF IInv, Covered, For
  <1>. QED
    BY <1>2, <1>3, <1>4, SharedKept DEF IInv

-----------------------------------------------------------------------------
\* The statistics are true when the receiver starts.
LEMMA InitIInv == ASSUME Init PROVE IInv
  <1>1. Types
    BY SMT DEF Init, Types, WebhookStates, Counters, ResetSteps, StatsSteps, Records
  <1>2. ~Resetting /\ InFlight = {}
    BY DEF Init, Resetting, InFlight
  <1>3. Histories
    BY <1>2 DEF Init, Histories
  <1>4. ASSUME NEW A \in SUBSET Webhooks, NEW S PROVE Counted(0, A, S) /\ N((fresh \cup overlapped) \cap A, S) = 0
    <2>1. {x \in fresh \cap A : webhook[x] \in S} = {} /\ {x \in (fresh \cup overlapped) \cap A : webhook[x] \in S} = {}
      BY DEF Init
    <2>2. N(fresh \cap A, S) = 0 /\ N((fresh \cup overlapped) \cap A, S) = 0
      BY <2>1, FS_EmptySet DEF N
    <2>. QED
      BY <2>2, SMT DEF Counted
  <1>5. Counting
    <2>1. /\ counter["received"] = 0 /\ counter["success"] = 0 /\ counter["failed"] = 0
          /\ counter["latency"] = 0 /\ counter["success"] + counter["failed"] = 0 /\ 0 <= 0
      BY SMT DEF Init, Counters
    <2>. QED
      BY <1>4, <2>1 DEF Counting
  <1>6. Recorded
    <2>1. \A c : StatisticsOf(c).received = 0
      BY <1>1, RecordTypes DEF Init, StatisticsOf
    <2>2. \A c : For(c) \in SUBSET Webhooks
      BY DEF For
    <2>. QED
      BY <1>4, <2>1, <2>2 DEF Recorded
  <1>7. RecordsAddUp
    BY DEF Init, RecordsAddUp
  <1>8. Covered
    BY DEF Init, Covered
  <1>. QED
    BY <1>1, <1>3, <1>5, <1>6, <1>7, <1>8 DEF IInv

\* Every step of every handler keeps them true.
LEMMA NextIInv == ASSUME IInv, [Next]_vars PROVE IInv'
  <1>1. ASSUME NEW c \in Customers, NEW m \in Modes \cup {""}, HandleScenarioConfig(c, m) PROVE IInv'
    BY <1>1, OtherStep DEF HandleScenarioConfig, Shared, historyVars
  <1>2. ASSUME NEW r \in Webhooks, HandleWebhook(r) PROVE IInv'
    BY <1>2, ReceiveStep, SilentStep, LatencyStep, OutcomeStep, RecordStep DEF HandleWebhook
  <1>3. ASSUME NEW q \in Resets, StoreZero(q) PROVE IInv'
    BY <1>3, BeginReset, StoreStep
  <1>4. ASSUME NEW q \in Resets, ClearCustomers(q) PROVE IInv'
    BY <1>4, ClearStep
  <1>5. CASE HandleStats
    BY <1>5, ReadStep, SnapshotStep DEF HandleStats
  <1>6. CASE UNCHANGED vars
    BY <1>6, OtherStep DEF vars, Shared, historyVars
  <1>. QED
    BY <1>1, <1>2, <1>3, <1>4, <1>5, <1>6 DEF Next, HandleResetStats

\* The requests that overlapped a reset are the only doubt about a total.
LEMMA CountedIsWithin ==
    ASSUME Types, NEW Q \in SUBSET Webhooks, NEW S, NEW total \in Nat, Counted(total, Q, S)
    PROVE  Within(total, Q, S)
  <1> DEFINE F == {x \in fresh \cap Q : webhook[x] \in S}
             O == overlapped \cap Q
             B == {x \in (fresh \cup overlapped) \cap Q : webhook[x] \in S}
  <1>1. Cardinality(F) <= total /\ total <= Cardinality(B)
    BY DEF Counted, N
  <1>2. IsFiniteSet(F) /\ IsFiniteSet(O) /\ B \in SUBSET (F \cup O)
    <2>1. fresh \cap Q \in SUBSET Webhooks /\ O \in SUBSET Webhooks
      OBVIOUS
    <2>. QED
      BY <2>1, FiniteCounts
  <1>3. Within(total, Q, S) <=> Cardinality(F) <= total /\ total <= Cardinality(F) + Cardinality(O)
    BY DEF Within
  <1>. HIDE DEF F, O, B
  <1>4. /\ IsFiniteSet(F \cup O) /\ IsFiniteSet(F \cap O)
        /\ Cardinality(F \cup O) = Cardinality(F) + Cardinality(O) - Cardinality(F \cap O)
    BY <1>2, FS_Union, FS_Intersection
  <1>5. IsFiniteSet(B) /\ Cardinality(B) <= Cardinality(F \cup O)
    BY <1>2, <1>4, FS_Subset
  <1>6. /\ Cardinality(F) \in Nat /\ Cardinality(O) \in Nat /\ Cardinality(F \cap O) \in Nat
        /\ Cardinality(B) \in Nat
    BY <1>2, <1>4, <1>5, FS_CardinalityType
  <1>7. \A f, o, i, b, u, t : f \in Nat /\ o \in Nat /\ i \in Nat /\ b \in Nat /\ t \in Nat
           /\ u = f + o - i /\ b <= u /\ t <= b => t <= f + o
    BY SMT
  <1>8. total <= Cardinality(F) + Cardinality(O)
    BY <1>1, <1>4, <1>5, <1>6, <1>7
  <1>. QED
    BY <1>1, <1>3, <1>8

\* What the invariant says between two resets.
LEMMA IInvCounts == ASSUME IInv PROVE CountedOnce
  <1>1. /\ Types
        /\ counter["received"] \in Nat /\ counter["latency"] \in Nat
        /\ counter["success"] + counter["failed"] \in Nat
    <2>1. /\ Types /\ counter["received"] \in Nat /\ counter["latency"] \in Nat
          /\ counter["success"] \in Nat /\ counter["failed"] \in Nat
      BY DEF IInv, Types, Counters
    <2>. QED
      BY <2>1, SMT
  <1>2. ASSUME ~Resetting
        PROVE  /\ Within(counter["received"], Webhooks, WebhookStates)
               /\ Within(counter["latency"], Webhooks, Timed)
               /\ Within(counter["success"] + counter["failed"], Webhooks, Outcome)
    <2>1. ~Before({"success", "failed"}) /\ ~Before({"success", "failed", "latency"})
      BY <1>2 DEF Before, Resetting
    <2>2. /\ Counted(counter["received"], Webhooks, WebhookStates)
          /\ Counted(counter["latency"], Webhooks, Timed)
          /\ Counted(counter["success"] + counter["failed"], Webhooks, Outcome)
      BY <2>1 DEF IInv, Counting
    <2>. QED
      BY <1>1, <2>2, CountedIsWithin
  <1>3. ASSUME ~Resetting, NEW c \in Customers
        PROVE  Within(StatisticsOf(c).received, For(c), {"answered"})
    <2>1. For(c) \in SUBSET Webhooks /\ StatisticsOf(c).received \in Nat
      BY <1>1, RecordTypes DEF For
    <2>2. Counted(StatisticsOf(c).received, For(c), {"answered"})
      BY <1>3 DEF IInv, Recorded
    <2>. QED
      BY <1>1, <2>1, <2>2, CountedIsWithin
  <1>4. \A c \in DOMAIN customerStats : AddsUp(customerStats[c])
    BY DEF IInv, RecordsAddUp
  <1>. QED
    BY <1>2, <1>3, <1>4 DEF CountedOnce, Timed, Outcome, AddsUp

-----------------------------------------------------------------------------
(***************************************************************************)
(* However the webhook handlers and any number of resets interleave, every *)
(* webhook is counted once: between resets the atomic totals of mockApp    *)
(* and each customer's record are what happened since the last reset, up   *)
(* to the webhooks that overlapped one.                                    *)
(***************************************************************************)
THEOREM WebhooksAreCountedOnce == Spec => []CountedOnce
  <1>1. Spec => []IInv
    BY InitIInv, NextIInv, PTL DEF Spec
  <1>2. IInv => CountedOnce
    BY IInvCounts
  <1>. QED
    BY <1>1, <1>2, PTL

(***************************************************************************)
(* GET /stats, whose numbers handleStats reads one by one while webhooks   *)
(* go on, covers every webhook answered before it began and not reset      *)
(* since: in its totals and in that customer's record.                     *)
(***************************************************************************)
THEOREM ReportsCoverAnswered == Spec => []ReportCoversAnswered
  <1>1. Spec => []IInv
    BY InitIInv, NextIInv, PTL DEF Spec
  <1>2. IInv => ReportCoversAnswered
    BY DEF IInv, Covered, ReportCoversAnswered
  <1>. QED
    BY <1>1, <1>2, PTL
=============================================================================

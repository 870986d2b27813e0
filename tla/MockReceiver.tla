---------------------------- MODULE MockReceiver ----------------------------
(***************************************************************************)
(* The mock webhook receiver (internal/mockreceiver): concurrent handlers  *)
(* of POST /webhook/{customerId}, POST /config, POST /stats/reset and GET  *)
(* /stats.  The totals are separate atomic counters, the records per       *)
(* customer are a map under a mutex, and a reset clears them one after     *)
(* the other, so every access to one of them is a step of its own.         *)
(***************************************************************************)
EXTENDS Integers, FiniteSets

CONSTANTS
    Webhooks,    \* POST /webhook requests
    Resets,      \* POST /stats/reset requests
    Customers,   \* customer IDs
    CustomerOf,  \* customerId in the path of each webhook request
    Payloads,    \* what bodies hold: a CustomerID, or Malformed
    Malformed,   \* a body that is not an event
    Modes        \* scenario modes in use

ASSUME ReceiverAssumption ==
    /\ IsFiniteSet(Webhooks) /\ IsFiniteSet(Resets)
    /\ IsFiniteSet(Customers)
    /\ CustomerOf \in [Webhooks -> Customers]
    /\ Malformed \in Payloads \ Customers
    /\ "success" \in Modes

VARIABLES
    scenarios,     \* mode of each customer; "success" when there is no entry
    webhook,       \* how far each webhook handler is
    mode,          \* scenario.Mode each handler looked up
    statusCode,    \* what it is going to answer
    raced,         \* handlers whose draw overlapped another one
    counter,       \* receivedCount, successCount, failedCount, totalLatencyMs
    customerStats, \* map customer -> record; its DOMAIN is the map's keys
    reset,         \* what each reset clears next
    stats,         \* what the GET /stats handler reads next
    report,        \* what it has read
    fresh,         \* history: webhooks begun since the last reset, outside any
    overlapped,    \* history: webhooks that overlapped a reset
    owed           \* history: fresh webhooks answered before GET /stats began

requestVars == <<mode, statusCode, raced>>
statsVars == <<stats, report, owed>>
historyVars == <<fresh, overlapped>>
vars == <<scenarios, webhook, requestVars, counter, customerStats, reset, statsVars, historyVars>>

Counters == {"received", "success", "failed", "latency"}

WebhookStates ==
    {"unsent", "delaying", "drawing", "resolved", "timed", "counted", "answered", "broken"}

EmptyStatistics ==
    [received |-> 0, success |-> 0, failed |-> 0, decodeFailures |-> 0, typed |-> 0, mismatches |-> 0]

Init ==
    /\ scenarios = [c \in Customers |-> "success"]
    /\ webhook = [r \in Webhooks |-> "unsent"]
    /\ mode = [r \in Webhooks |-> "success"]
    /\ statusCode = [r \in Webhooks |-> 0]
    /\ raced = {}
    /\ counter = [k \in Counters |-> 0]
    /\ customerStats = [c \in {} |-> EmptyStatistics]
    /\ reset = [q \in Resets |-> "received"]
    /\ stats = "received"
    /\ report = [received |-> 0, success |-> 0, failed |-> 0, customers |-> [c \in {} |-> EmptyStatistics]]
    /\ fresh = {} /\ overlapped = {} /\ owed = {}

InFlight == {r \in Webhooks : webhook[r] \in {"delaying", "drawing", "resolved", "timed", "counted"}}

Resetting == \E q \in Resets : reset[q] \notin {"received", "done"}

Goto(r, step) == webhook' = [webhook EXCEPT ![r] = step]

-----------------------------------------------------------------------------
(***************************************************************************)
(* handleScenarioConfig: an empty mode means success.                      *)
(***************************************************************************)
HandleScenarioConfig(c, m) ==
    /\ scenarios' = [scenarios EXCEPT ![c] = IF m = "" THEN "success" ELSE m]
    /\ UNCHANGED <<webhook, requestVars, counter, customerStats, reset, statsVars, historyVars>>

(***************************************************************************)
(* handleWebhook.  The request is counted as received and the scenario is  *)
(* looked up, and only after the scenario's delay the rest follows.  (With *)
(* a blank customer it is refused before, and changes nothing.)            *)
(***************************************************************************)
ReceiveWebhook(r) ==
    /\ webhook[r] = "unsent"
    /\ Goto(r, "delaying")
    /\ mode' = [mode EXCEPT ![r] = scenarios[CustomerOf[r]]]
    /\ counter' = [counter EXCEPT !["received"] = @ + 1]
    /\ IF Resetting
          THEN overlapped' = overlapped \cup {r} /\ UNCHANGED fresh
          ELSE fresh' = fresh \cup {r} /\ UNCHANGED overlapped
    /\ UNCHANGED <<scenarios, statusCode, raced, customerStats, reset, statsVars>>

(***************************************************************************)
(* resolveStatusCode.  randomSource is shared and not locked: two draws at *)
(* the same time are a data race on the indexes of the generator, and an   *)
(* index out of range panics.  net/http then drops the connection.         *)
(***************************************************************************)
ModeStatus(m) ==
    CASE m = "timeout" -> 504
      [] m = "error500" -> 500
      [] m = "error400" -> 400
      [] m = "unauthorized" -> 401
      [] OTHER -> 200

Resolve(r) ==
    /\ webhook[r] = "delaying"
    /\ mode[r] # "random"
    /\ Goto(r, "resolved")
    /\ statusCode' = [statusCode EXCEPT ![r] = ModeStatus(mode[r])]
    /\ UNCHANGED <<scenarios, mode, raced, counter, customerStats, reset, statsVars, historyVars>>

BeginDraw(r) ==
    LET drawing == {q \in Webhooks : webhook[q] = "drawing"} IN
    /\ webhook[r] = "delaying"
    /\ mode[r] = "random"
    /\ Goto(r, "drawing")
    /\ raced' = IF drawing = {} THEN raced ELSE raced \cup drawing \cup {r}
    /\ UNCHANGED <<scenarios, mode, statusCode, counter, customerStats, reset, statsVars, historyVars>>

EndDraw(r) ==
    /\ webhook[r] = "drawing"
    /\ Goto(r, "resolved")
    /\ \E code \in {200, 500} : statusCode' = [statusCode EXCEPT ![r] = code]
    /\ raced' = raced \ {r}
    /\ UNCHANGED <<scenarios, mode, counter, customerStats, reset, statsVars, historyVars>>

PanicInDraw(r) ==
    /\ webhook[r] = "drawing"
    /\ r \in raced
    /\ Goto(r, "broken")
    /\ UNCHANGED <<scenarios, requestVars, counter, customerStats, reset, statsVars, historyVars>>

IsSuccess(code) == code \in 200 .. 299

\* Each request takes one unit of latency.
AddLatency(r) ==
    /\ webhook[r] = "resolved"
    /\ Goto(r, "timed")
    /\ counter' = [counter EXCEPT !["latency"] = @ + 1]
    /\ UNCHANGED <<scenarios, requestVars, customerStats, reset, statsVars, historyVars>>

FaultyCountOutcome(r) ==
    /\ webhook[r] = "timed"
    /\ Goto(r, "counted")
    /\ counter' = [counter EXCEPT !["success"] = IF IsSuccess(statusCode[r]) THEN @ + 1 ELSE @]
    /\ UNCHANGED <<scenarios, requestVars, customerStats, reset, statsVars, historyVars>>

CountOutcome(r) ==
    /\ webhook[r] = "timed"
    /\ Goto(r, "counted")
    /\ counter' = [counter EXCEPT ![IF IsSuccess(statusCode[r]) THEN "success" ELSE "failed"] = @ + 1]
    /\ UNCHANGED <<scenarios, requestVars, customerStats, reset, statsVars, historyVars>>

(***************************************************************************)
(* recordCustomerStatistic, under statisticsMutex; then the answer.  What  *)
(* the body decodes to matters only here.  The handler's locals die.       *)
(***************************************************************************)
StatisticsOf(c) ==
    IF c \in DOMAIN customerStats THEN customerStats[c] ELSE EmptyStatistics

AddTo(record, fields) ==
    [k \in DOMAIN record |-> record[k] + (IF k \in fields THEN 1 ELSE 0)]

RecordCustomerStatistic(r, event) ==
    LET c == CustomerOf[r]
        fields == {"received", IF IsSuccess(statusCode[r]) THEN "success" ELSE "failed"}
                    \cup (IF event = Malformed THEN {"decodeFailures"} ELSE {"typed"})
                    \cup (IF event \in {Malformed, c} THEN {} ELSE {"mismatches"})
    IN
    /\ webhook[r] = "counted"
    /\ Goto(r, "answered")
    /\ customerStats' = [d \in DOMAIN customerStats \cup {c} |->
                           IF d = c THEN AddTo(StatisticsOf(c), fields) ELSE customerStats[d]]
    /\ mode' = [mode EXCEPT ![r] = "success"]
    /\ statusCode' = [statusCode EXCEPT ![r] = 0]
    /\ UNCHANGED <<scenarios, raced, counter, reset, statsVars, historyVars>>

-----------------------------------------------------------------------------
(***************************************************************************)
(* handleResetStats: four stores and the replacement of the map.           *)
(***************************************************************************)
AfterClearing(k) ==
    CASE k = "received" -> "success"
      [] k = "success" -> "failed"
      [] k = "failed" -> "latency"
      [] k = "latency" -> "customers"

StoreZero(q) ==
    /\ reset[q] \in Counters
    /\ counter' = [counter EXCEPT ![reset[q]] = 0]
    /\ reset' = [reset EXCEPT ![q] = AfterClearing(@)]
    /\ IF reset[q] = "received"
          THEN /\ overlapped' = overlapped \cup InFlight
               /\ fresh' = {} /\ owed' = {}
          ELSE UNCHANGED <<historyVars, owed>>
    /\ UNCHANGED <<scenarios, webhook, requestVars, customerStats, stats, report>>

FaultyClearCustomers(q) ==
    /\ reset[q] = "customers"
    /\ reset' = [reset EXCEPT ![q] = "done"]
    /\ UNCHANGED <<scenarios, webhook, requestVars, counter, customerStats, statsVars, historyVars>>

ClearCustomers(q) ==
    /\ reset[q] = "customers"
    /\ customerStats' = [c \in {} |-> EmptyStatistics]
    /\ reset' = [reset EXCEPT ![q] = "done"]
    /\ UNCHANGED <<scenarios, webhook, requestVars, counter, statsVars, historyVars>>

(***************************************************************************)
(* handleStats reads the counters one by one and then copies the map,      *)
(* under its read lock.  (The average latency it derives is left out.)     *)
(***************************************************************************)
AfterReading(k) ==
    CASE k = "received" -> "success"
      [] k = "success" -> "failed"
      [] k = "failed" -> "customers"

ReadCounter ==
    /\ stats \in Counters
    /\ report' = [report EXCEPT ![stats] = counter[stats]]
    /\ stats' = AfterReading(stats)
    /\ owed' = IF stats = "received" THEN {r \in fresh : webhook[r] = "answered"} ELSE owed
    /\ UNCHANGED <<scenarios, webhook, requestVars, counter, customerStats, reset, historyVars>>

SnapshotCustomerStatistics ==
    /\ stats = "customers"
    /\ report' = [report EXCEPT !["customers"] = customerStats]
    /\ stats' = "done"
    /\ UNCHANGED <<scenarios, webhook, requestVars, counter, customerStats, reset, owed, historyVars>>

-----------------------------------------------------------------------------
HandleWebhook(r) ==
    \/ ReceiveWebhook(r)
    \/ Resolve(r)
    \/ BeginDraw(r)
    \/ EndDraw(r)
    \/ PanicInDraw(r)
    \/ AddLatency(r)
    \/ CountOutcome(r)
    \/ \E event \in Payloads : RecordCustomerStatistic(r, event)

HandleResetStats(q) == StoreZero(q) \/ ClearCustomers(q)

HandleStats == ReadCounter \/ SnapshotCustomerStatistics

Next ==
    \/ \E c \in Customers : \E m \in Modes \cup {""} : HandleScenarioConfig(c, m)
    \/ \E r \in Webhooks : HandleWebhook(r)
    \/ \E q \in Resets : HandleResetStats(q)
    \/ HandleStats

Spec == Init /\ [][Next]_vars

-----------------------------------------------------------------------------
For(c) == {r \in Webhooks : CustomerOf[r] = c}

\* A total is the number of these requests that got to these steps since the
\* last reset, give or take those that overlapped a reset.
Within(total, requests, steps) ==
    LET exact == Cardinality({r \in fresh \cap requests : webhook[r] \in steps})
    IN  exact <= total /\ total <= exact + Cardinality(overlapped \cap requests)

(***************************************************************************)
(* Every webhook is counted once: between resets each total, and each      *)
(* customer's record, is the number of webhooks that got that far since    *)
(* the last reset, give or take those that overlapped a reset.  And the    *)
(* parts of a customer's record always add up.                             *)
(***************************************************************************)
CountedOnce ==
    /\ ~Resetting =>
          /\ Within(counter["received"], Webhooks, WebhookStates)
          /\ Within(counter["latency"], Webhooks, {"timed", "counted", "answered"})
          /\ Within(counter["success"] + counter["failed"], Webhooks, {"counted", "answered"})
          /\ \A c \in Customers : Within(StatisticsOf(c).received, For(c), {"answered"})
    /\ \A c \in DOMAIN customerStats :
          /\ customerStats[c].received = customerStats[c].success + customerStats[c].failed
          /\ customerStats[c].received = customerStats[c].decodeFailures + customerStats[c].typed
          /\ customerStats[c].mismatches <= customerStats[c].typed

(***************************************************************************)
(* A report covers what was answered before it was asked for, although its *)
(* numbers are read at different moments: every webhook answered before    *)
(* GET /stats began, and not reset since, is in each of its totals and in  *)
(* its customer's record.                                                  *)
(***************************************************************************)
ReportCoversAnswered ==
    stats = "done" =>
        /\ Cardinality(owed) <= report["received"]
        /\ Cardinality(owed) <= report["success"] + report["failed"]
        /\ \A c \in Customers : owed \cap For(c) # {} =>
              /\ c \in DOMAIN report["customers"]
              /\ Cardinality(owed \cap For(c)) <= report["customers"][c].received
=============================================================================

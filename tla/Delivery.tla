------------------------------ MODULE Delivery ------------------------------
(***************************************************************************)
(* The deliveries of one process through all their attempts: how           *)
(* HTTPClient.Deliver classifies what http.Client.Do returns               *)
(* (internal/delivery), how a worker turns that into a retry with backoff  *)
(* (internal/retry) or a dead letter, and what it counts on the way, in    *)
(* the Prometheus metrics and in the counters GET /stats reads.  Module    *)
(* Notifier abstracts Deliver to the set of its outcomes and takes the     *)
(* backoff as a constant; this module has both in detail, as configured by *)
(* the environment.                                                        *)
(***************************************************************************)
EXTENDS Config, Sequences, FiniteSets

CONSTANTS
    Deliveries,         \* rows this process delivers
    Environments,       \* environments it may be started in
    StatusCodes,        \* status codes endpoints answer with
    DurationBits        \* width of time.Duration: 64 in the code, less here

ASSUME DeliveryAssumption ==
    /\ IsFiniteSet(Deliveries)
    /\ \A e \in Environments : e \in [DOMAIN e -> RawValue]
    /\ StatusCodes \subseteq 100 .. 999
    /\ DurationBits \in Nat \ {0}

VARIABLES
    environment,    \* the environment variables that are set
    config,         \* what LoadNotifierConfig made of them
    state,          \* where each delivery is
    attempt,        \* its job.Attempt
    delay,          \* the backoff of its last retry
    answer,         \* what the endpoint or the network did last
    metrics,        \* Prometheus counters
    stats,          \* the atomic counters of Application
    deadLetters,    \* length of Application.deadLetters
    report          \* values GET /stats has read so far

deliveryVars == <<state, attempt, delay, answer>>
counterVars == <<metrics, stats, deadLetters>>
vars == <<environment, config, deliveryVars, counterVars, report>>

(***************************************************************************)
(* "queued":        scheduled, no worker has it.                           *)
(* "attempting":    a worker is in Deliver.                                *)
(* "recorded":      the worker has recorded the metrics of the result.     *)
(* "failed":        handleRetryableFailure has counted the failure.        *)
(* "deadLettering": recordDeadLetter has counted the dead letter.          *)
(* "recording":     it has counted it in the metrics, too.                 *)
(* "waiting":       pending until its backoff is over.                     *)
(* "delivered", "dead_lettered": final in the table.                       *)
(* "orphaned":      the UPDATE of the outcome failed; claimed for ever.    *)
(***************************************************************************)
InHand == {"attempting", "recorded", "failed", "deadLettering", "recording"}

Busy == {d \in Deliveries : state[d] \in InHand}

(***************************************************************************)
(* What can happen to a request.  It may never be sent, when no request    *)
(* can be built for the URL.  Every error of Do is a *url.Error, which     *)
(* implements net.Error by asking the error it wraps: a timeout is both, a *)
(* syscall error such as EMFILE is temporary, ECONNREFUSED and ECONNRESET  *)
(* are neither, and neither is a cancelled context or a bad certificate.   *)
(***************************************************************************)
Causes == {"timeout", "too many open files", "connection refused", "connection reset",
           "context canceled", "bad certificate"}

DoError(cause) ==
    [isNetError |-> TRUE,
     timeout |-> cause = "timeout",
     temporary |-> cause \in {"timeout", "too many open files"},
     text |-> cause]

NoAnswer == [kind |-> "none"]

Unsent == [kind |-> "unsent"]

Answers ==
    {Unsent} \cup [kind : {"status"}, code : StatusCodes] \cup [kind : {"error"}, cause : Causes]

-----------------------------------------------------------------------------
FaultyIsRetryableTransportError(error) ==
    \/ error.isNetError /\ (error.timeout \/ error.temporary)
    \/ error.text \in {"timeout", "connection reset", "connection refused"}

IsRetryableTransportError(error) ==
    IF error.isNetError THEN error.timeout \/ error.temporary
                        ELSE error.text \in {"timeout", "connection reset", "connection refused"}

FaultyIsRetryableStatusCode(code) == code = 429 \/ code \in 501 .. 599

IsRetryableStatusCode(code) == code = 429 \/ code \in 500 .. 599

IsSuccess(code) == code \in 200 .. 299

Deliver(a) ==
    CASE a.kind = "unsent" -> [statusCode |-> 0, shouldRetry |-> FALSE]
      [] a.kind = "error" ->
            [statusCode |-> 0, shouldRetry |-> IsRetryableTransportError(DoError(a.cause))]
      [] OTHER -> [statusCode |-> a.code,
                   shouldRetry |-> ~IsSuccess(a.code) /\ IsRetryableStatusCode(a.code)]

CanRetry(n) == n < config.maxRetryAttempts

\* Two's complement arithmetic of time.Duration.
Wrap(d) == ((d + 2 ^ (DurationBits - 1)) % 2 ^ DurationBits) - 2 ^ (DurationBits - 1)

FaultyNextDelay(n) ==
    LET doubled[k \in 0 .. n] == IF k <= 1 THEN config.initialRetryDelay ELSE Wrap(doubled[k - 1] * 2)
    IN  doubled[n]

NextDelay(n) ==
    LET doubled[k \in 0 .. n] == IF k = 0 THEN config.initialRetryDelay ELSE Wrap(doubled[k - 1] * 2)
    IN  doubled[n]

-----------------------------------------------------------------------------
NoCounts == [delivered |-> 0, failed |-> 0, retried |-> 0, deadLetter |-> 0]

Init ==
    /\ environment \in Environments
    /\ config \in LoadNotifierConfig(environment)
    /\ StartsUp(config)
    /\ state = [d \in Deliveries |-> "queued"]
    /\ attempt = [d \in Deliveries |-> 0]
    /\ delay = [d \in Deliveries |-> 0]
    /\ answer = [d \in Deliveries |-> NoAnswer]
    /\ metrics = NoCounts
    /\ stats = NoCounts
    /\ deadLetters = 0
    /\ report = <<>>

Goto(d, from, to) ==
    /\ state[d] = from
    /\ state' = [state EXCEPT ![d] = to]

TakeJob(d) ==
    /\ Goto(d, "queued", "attempting")
    /\ Cardinality(Busy) < config.workerCount
    /\ UNCHANGED <<environment, config, attempt, delay, answer, counterVars, report>>

(***************************************************************************)
(* performDeliveryAttempt: Deliver, then recordDeliveryMetrics, which      *)
(* applies the rule of handleRetryableFailure on its own.                  *)
(***************************************************************************)
FaultyRecordedMetrics(result, n) ==
    LET failed == [metrics EXCEPT !.failed = @ + 1] IN
    IF IsSuccess(result.statusCode) THEN [metrics EXCEPT !.delivered = @ + 1]
    ELSE IF result.shouldRetry THEN [failed EXCEPT !.retried = @ + 1]
    ELSE failed

RecordedMetrics(result, n) ==
    LET failed == [metrics EXCEPT !.failed = @ + 1] IN
    IF IsSuccess(result.statusCode) THEN [metrics EXCEPT !.delivered = @ + 1]
    ELSE IF result.shouldRetry /\ CanRetry(n) THEN [failed EXCEPT !.retried = @ + 1]
    ELSE failed

PerformDeliveryAttempt(d, a) ==
    /\ Goto(d, "attempting", "recorded")
    /\ answer' = [answer EXCEPT ![d] = a]
    /\ metrics' = RecordedMetrics(Deliver(a), attempt[d])
    /\ UNCHANGED <<environment, config, attempt, delay, stats, deadLetters, report>>

Result(d) == Deliver(answer[d])

\* The worker records the outcome in the table; a failed UPDATE is only logged.
Settle(d, from, outcome) ==
    /\ Goto(d, from, outcome) \/ Goto(d, from, "orphaned")
    /\ answer' = [answer EXCEPT ![d] = NoAnswer]

HandleSuccessfulDelivery(d) ==
    /\ Settle(d, "recorded", "delivered")
    /\ IsSuccess(Result(d).statusCode)
    /\ stats' = [stats EXCEPT !.delivered = @ + 1]
    /\ UNCHANGED <<environment, config, attempt, delay, metrics, deadLetters, report>>

(***************************************************************************)
(* handleRetryableFailure: count the failure, then, if it may be retried,  *)
(* count the retry and MarkRetryPending, where retry_count, the Attempt of *)
(* the next job, grows by one.                                             *)
(***************************************************************************)
CountFailure(d) ==
    /\ Goto(d, "recorded", "failed")
    /\ ~IsSuccess(Result(d).statusCode)
    /\ stats' = [stats EXCEPT !.failed = @ + 1]
    /\ UNCHANGED <<environment, config, attempt, delay, answer, metrics, deadLetters, report>>

HandleRetryableFailure(d) ==
    /\ Settle(d, "failed", "waiting")
    /\ Result(d).shouldRetry /\ CanRetry(attempt[d])
    /\ stats' = [stats EXCEPT !.retried = @ + 1]
    /\ delay' = [delay EXCEPT ![d] = NextDelay(attempt[d])]
    /\ attempt' = [attempt EXCEPT ![d] = IF state'[d] = "waiting" THEN @ + 1 ELSE @]
    /\ UNCHANGED <<environment, config, metrics, deadLetters, report>>

\* recordDeadLetter: the counter, the metric, then the list and MarkDeadLetter.
CountDeadLetter(d) ==
    /\ Goto(d, "failed", "deadLettering")
    /\ ~(Result(d).shouldRetry /\ CanRetry(attempt[d]))
    /\ stats' = [stats EXCEPT !.deadLetter = @ + 1]
    /\ UNCHANGED <<environment, config, attempt, delay, answer, metrics, deadLetters, report>>

IncDeadLetterCounter(d) ==
    /\ Goto(d, "deadLettering", "recording")
    /\ metrics' = [metrics EXCEPT !.deadLetter = @ + 1]
    /\ UNCHANGED <<environment, config, attempt, delay, answer, stats, deadLetters, report>>

RecordDeadLetter(d) ==
    /\ Settle(d, "recording", "dead_lettered")
    /\ deadLetters' = deadLetters + 1
    /\ UNCHANGED <<environment, config, attempt, delay, metrics, stats, report>>

\* The row is due again, claimed and scheduled.
ClaimAgain(d) ==
    /\ Goto(d, "waiting", "queued")
    /\ UNCHANGED <<environment, config, attempt, delay, answer, counterVars, report>>

-----------------------------------------------------------------------------
(***************************************************************************)
(* GET /stats loads the counters one after the other.                      *)
(***************************************************************************)
FaultyStatsOrder == <<"deadLetter", "retried", "failed", "delivered">>

StatsOrder == <<"delivered", "failed", "retried", "deadLetter">>

LoadCounter ==
    /\ Len(report) < Len(StatsOrder)
    /\ report' = Append(report, stats[StatsOrder[Len(report) + 1]])
    /\ UNCHANGED <<environment, config, deliveryVars, counterVars>>

WriteReport ==
    /\ Len(report) = Len(StatsOrder)
    /\ report' = <<>>
    /\ UNCHANGED <<environment, config, deliveryVars, counterVars>>

HandleStats == LoadCounter \/ WriteReport

Worker(d) ==
    \/ TakeJob(d)
    \/ \E a \in Answers : PerformDeliveryAttempt(d, a)
    \/ HandleSuccessfulDelivery(d)
    \/ CountFailure(d)
    \/ HandleRetryableFailure(d)
    \/ CountDeadLetter(d)
    \/ IncDeadLetterCounter(d)
    \/ RecordDeadLetter(d)

Next ==
    \/ \E d \in Deliveries : Worker(d) \/ ClaimAgain(d)
    \/ HandleStats

Spec == Init /\ [][Next]_vars

-----------------------------------------------------------------------------
(***************************************************************************)
(* "Retryable failures initially include timeout, HTTP 5xx, and temporary  *)
(* network errors" (docs/plan/implementation-checklist.md): one of these   *)
(* dead-letters a delivery only when all the retries have been made, as    *)
(* many as the environment says, or three when the variable is not set or  *)
(* blank.                                                                  *)
(***************************************************************************)
ConfiguredRetries ==
    IF "maxRetryAttempts" \in DOMAIN environment /\ environment.maxRetryAttempts # Blank
      THEN environment.maxRetryAttempts.value ELSE 3

IsTransient(a) ==
    \/ a.kind = "status" /\ a.code \div 100 = 5
    \/ a.kind = "error" /\ a.cause \in {"timeout", "too many open files"}

TransientFailuresAreRetried ==
    \A d \in Deliveries :
        state[d] = "deadLettering" /\ IsTransient(answer[d]) => attempt[d] >= ConfiguredRetries

\* d fits a time.Duration.
IsDuration(d) == -(2 ^ (DurationBits - 1)) <= d /\ d < 2 ^ (DurationBits - 1)

(***************************************************************************)
(* Exponential backoff: the retry after attempt k waits the configured     *)
(* delay times 2^k, as long as that fits a time.Duration (beyond, the loop *)
(* of NextDelay wraps, and the run includes such attempts).                *)
(***************************************************************************)
BackoffDoubles ==
    \A d \in Deliveries :
        /\ state[d] = "waiting"
        /\ IsDuration(config.initialRetryDelay * 2 ^ (attempt[d] - 1))
        => delay[d] = config.initialRetryDelay * 2 ^ (attempt[d] - 1)

(***************************************************************************)
(* The substring tests of isRetryableTransportError (line 96) never decide *)
(* about an error of Do, because *url.Error is a net.Error: a delivery is  *)
(* retried only after a timeout or a temporary error.  A refused or reset  *)
(* connection is final at the first attempt, although http_client_test.go  *)
(* has the bare text "connection refused" retried.                         *)
(***************************************************************************)
TextNeverDecides ==
    [][\A d \in Deliveries :
          attempt'[d] > attempt[d] /\ answer[d].kind = "error" =>
              DoError(answer[d].cause).timeout \/ DoError(answer[d].cause).temporary]_vars

(***************************************************************************)
(* recordDeliveryMetrics and the handlers decide separately what an        *)
(* attempt was, at different moments and in different goroutines, and come *)
(* to the same result: once no delivery is in hand, metrics and counters   *)
(* agree, every failure is a retry or a dead letter, and the list of dead  *)
(* letters is as long as the counter says.  In between they differ by at   *)
(* most the deliveries in hand.                                            *)
(***************************************************************************)
CountersAgree ==
    LET inState(s) == Cardinality({d \in Deliveries : state[d] = s}) IN
    /\ stats.failed = stats.retried + stats.deadLetter + inState("failed")
    /\ metrics.delivered + metrics.failed = stats.delivered + stats.failed + inState("recorded")
    /\ metrics.retried - stats.retried \in 0 .. inState("recorded") + inState("failed")
    /\ stats.deadLetter - metrics.deadLetter = inState("deadLettering")
    /\ metrics.deadLetter - deadLetters = inState("recording")
    /\ inState("dead_lettered") <= deadLetters

\* startWorkers counts up to the worker count: none, when that is negative.
WorkerTotal == IF config.workerCount > 0 THEN config.workerCount ELSE 0

(***************************************************************************)
(* A report of GET /stats never loses a failure, although its counters are *)
(* read at different moments: the failures that are neither retried nor    *)
(* dead letters are at most as many as there are workers.                  *)
(***************************************************************************)
ReportCoversFailures ==
    LET read == [counter \in {"failed", "retried", "deadLetter"} |->
                    report[CHOOSE i \in DOMAIN StatsOrder : StatsOrder[i] = counter]]
    IN  Len(report) = Len(StatsOrder) =>
            read.failed <= read.retried + read.deadLetter + WorkerTotal
=============================================================================

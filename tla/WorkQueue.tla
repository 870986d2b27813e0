------------------------------ MODULE WorkQueue ------------------------------
(***************************************************************************)
(* The table webhook_delivery_queue (internal/workqueue/postgres.go): one  *)
(* row per delivery, shared by all notifier processes.  Each operator is   *)
(* the effect of one SQL transaction; the processes that run them are in   *)
(* Notifier.  The claim transaction is split in two, because it holds row  *)
(* locks that a concurrent claim skips: SelectedRows computes what the     *)
(* candidate query locks, ClaimRows is the committed UPDATE.               *)
(***************************************************************************)
EXTENDS Integers, FiniteSets

CONSTANTS
    Rows,            \* row ids, a finite set of integers (BIGSERIAL)
    Owners,          \* claim owners, one per notifier process; a restarted one
                     \* takes a new name, but nothing reads claim_owner
    Nobody,          \* NULL in claim_owner
    ClaimBatchSize   \* LIMIT of the candidate query

ASSUME WorkQueueAssumption ==
    /\ Rows \subseteq Int /\ IsFiniteSet(Rows)
    /\ Nobody \notin Owners
    /\ ClaimBatchSize \in Nat

VARIABLES
    status,       \* "absent" before the INSERT
    retryCount,
    availableAt,
    claimOwner,
    lastError     \* failure class behind last_error, "none" for NULL

table == <<status, retryCount, availableAt, claimOwner, lastError>>

Statuses == {"absent", "pending", "claimed", "completed", "dead_lettered"}

Failures == {"retryable", "permanent", "interrupted"}

QueueInit ==
    /\ status = [i \in Rows |-> "absent"]
    /\ retryCount = [i \in Rows |-> 0]
    /\ availableAt = [i \in Rows |-> 0]
    /\ claimOwner = [i \in Rows |-> Nobody]
    /\ lastError = [i \in Rows |-> "none"]

Terminal(i) == status[i] \in {"completed", "dead_lettered"}

-----------------------------------------------------------------------------
(***************************************************************************)
(* EnqueueDeliveries: the rows of one event, one per webhook URL, in one   *)
(* transaction.  Ids grow, but transactions of different processes may     *)
(* commit in any order, so any absent row may appear next.                 *)
(***************************************************************************)
EnqueueDeliveries(S, time) ==
    /\ \A i \in S : status[i] = "absent"
    /\ status' = [i \in Rows |-> IF i \in S THEN "pending" ELSE status[i]]
    /\ availableAt' = [i \in Rows |-> IF i \in S THEN time ELSE availableAt[i]]
    /\ UNCHANGED <<retryCount, claimOwner, lastError>>

(***************************************************************************)
(* ClaimAvailableDeliveries: due pending rows, oldest available_at first,  *)
(* FOR UPDATE SKIP LOCKED, at most ClaimBatchSize of them.                 *)
(***************************************************************************)
IsDue(i, time) == status[i] = "pending" /\ availableAt[i] <= time

Before(i, k) ==
    \/ availableAt[i] < availableAt[k]
    \/ availableAt[i] = availableAt[k] /\ i < k

FaultySelectedRows(time, lockedRows) ==
    LET candidates == {i \in Rows : IsDue(i, time)} IN
    {i \in candidates : Cardinality({k \in candidates : Before(k, i)}) < ClaimBatchSize}

SelectedRows(time, lockedRows) ==
    LET candidates == {i \in Rows : IsDue(i, time) /\ i \notin lockedRows} IN
    {i \in candidates : Cardinality({k \in candidates : Before(k, i)}) < ClaimBatchSize}

ClaimRows(S, owner) ==
    /\ status' = [i \in Rows |-> IF i \in S THEN "claimed" ELSE status[i]]
    /\ claimOwner' = [i \in Rows |-> IF i \in S THEN owner ELSE claimOwner[i]]
    /\ UNCHANGED <<retryCount, availableAt, lastError>>

(***************************************************************************)
(* The three outcomes.  Each UPDATE names the row by id only: neither the  *)
(* status nor the owner is compared.                                       *)
(***************************************************************************)
MarkDelivered(i) ==
    /\ status' = [status EXCEPT ![i] = "completed"]
    /\ UNCHANGED <<retryCount, availableAt, claimOwner, lastError>>

FaultyMarkRetryPending(i, failure, time) ==
    /\ status' = [status EXCEPT ![i] = "pending"]
    /\ availableAt' = [availableAt EXCEPT ![i] = time]
    /\ claimOwner' = [claimOwner EXCEPT ![i] = Nobody]
    /\ lastError' = [lastError EXCEPT ![i] = failure]
    /\ UNCHANGED retryCount

MarkRetryPending(i, failure, time) ==
    /\ status' = [status EXCEPT ![i] = "pending"]
    /\ retryCount' = [retryCount EXCEPT ![i] = @ + 1]
    /\ availableAt' = [availableAt EXCEPT ![i] = time]
    /\ claimOwner' = [claimOwner EXCEPT ![i] = Nobody]
    /\ lastError' = [lastError EXCEPT ![i] = failure]

FaultyMarkDeadLetter(i, failure) ==
    /\ claimOwner' = [claimOwner EXCEPT ![i] = Nobody]
    /\ lastError' = [lastError EXCEPT ![i] = failure]
    /\ UNCHANGED <<status, retryCount, availableAt>>

MarkDeadLetter(i, failure) ==
    /\ status' = [status EXCEPT ![i] = "dead_lettered"]
    /\ claimOwner' = [claimOwner EXCEPT ![i] = Nobody]
    /\ lastError' = [lastError EXCEPT ![i] = failure]
    /\ UNCHANGED <<retryCount, availableAt>>

QueueTypeOK ==
    /\ status \in [Rows -> Statuses]
    /\ retryCount \in [Rows -> Nat]
    /\ availableAt \in [Rows -> Int]
    /\ claimOwner \in [Rows -> Owners \cup {Nobody}]
    /\ lastError \in [Rows -> Failures \cup {"none"}]
=============================================================================

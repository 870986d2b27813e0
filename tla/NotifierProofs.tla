--------------------------- MODULE NotifierProofs ---------------------------
(***************************************************************************)
(* Proofs about Notifier for any number of rows, processes and workers,    *)
(* any batch size, limit, backoff and number of faults: who holds a row,   *)
(* what a completed row went through, the life of a row and of a process,  *)
(* and back-pressure.  At the end, that the processes and the handlers of  *)
(* Pipeline are those of Notifier and of Ingest.                           *)
(***************************************************************************)
EXTENDS Pipeline, FiniteSetTheorems, TLAPS

(***************************************************************************)
(* Most leaves are first-order reasoning for Zenon; a leaf that needs      *)
(* arithmetic, functions or records cites SMT.                             *)
(***************************************************************************)
USE Zenon

(***************************************************************************)
(* How the steps change the memory of the processes, element by element.   *)
(***************************************************************************)
JobsType == jobs \in [Owners -> [Places -> SUBSET Job]]

\* Job j of process n is now at place q instead of p, or nowhere; the other jobs stay.
JobMoves(n, j, p, q) ==
    \A m \in Owners : \A r \in Places : \A k :
        k \in jobs'[m][r] <=> \/ k \in jobs[m][r] /\ ~(m = n /\ r = p /\ k = j)
                              \/ m = n /\ r = q /\ k = j

JobLeaves(n, j, p) ==
    \A m \in Owners : \A r \in Places : \A k :
        k \in jobs'[m][r] <=> k \in jobs[m][r] /\ ~(m = n /\ r = p /\ k = j)

(***************************************************************************)
(* A job that moves between two places of a process is at the new place    *)
(* only, and no other job moves (claimAndSchedule, Start, runWorker).      *)
(***************************************************************************)
LEMMA MoveEffect ==
    ASSUME JobsType,
           NEW n \in Owners, NEW j, NEW p \in Places, NEW q \in Places, p # q,
           Move(n, j, p, q)
    PROVE  /\ j \in jobs[n][p]
           /\ JobsType'
           /\ JobMoves(n, j, p, q)
<1>1. j \in jobs[n][p] /\ j \in Job
  BY DEF Move, JobsType
<1>2. jobs' = [jobs EXCEPT ![n] = [jobs[n] EXCEPT ![p] = jobs[n][p] \ {j},
                                                  ![q] = jobs[n][q] \cup {j}]]
  BY DEF Move, JobsType
<1>3. QED
  BY <1>1, <1>2, SMT DEF JobsType, JobMoves

(***************************************************************************)
(* A finished job leaves the memory of its process; nothing else changes.  *)
(***************************************************************************)
LEMMA FinishEffect ==
    ASSUME JobsType,
           NEW n \in Owners, NEW j, NEW p \in Places,
           Finish(n, j, p)
    PROVE  /\ j \in jobs[n][p]
           /\ JobsType'
           /\ JobLeaves(n, j, p)
BY DEF Finish, JobsType, JobLeaves

(***************************************************************************)
(* EndpointReceives moves the job from "requesting" to "answering".        *)
(***************************************************************************)
LEMMA ReceiptEffect ==
    ASSUME JobsType,
           NEW n \in Owners, NEW j, EndpointReceives(n, j)
    PROVE  /\ j \in jobs[n]["requesting"]
           /\ JobsType'
           /\ JobMoves(n, j, "requesting", "answering")
<1>1. "requesting" \in Places /\ "answering" \in Places /\ "requesting" # "answering"
  BY DEF Places
<1>2. Move(n, j, "requesting", "answering")
  BY DEF EndpointReceives
<1>3. QED
  BY <1>1, <1>2, MoveEffect

(***************************************************************************)
(* The end of a process empties its memory and keeps that of the others.   *)
(***************************************************************************)
LEMMA EndEffect ==
    ASSUME JobsType,
           NEW n \in Owners,
           EndProcess(n)
    PROVE  /\ JobsType'
           /\ \A m \in Owners : \A r \in Places : \A k :
                k \in jobs'[m][r] <=> k \in jobs[m][r] /\ m # n
BY DEF EndProcess, JobsType, NoJobs

(***************************************************************************)
(* The three handlers of a delivery result have this in common: the job    *)
(* leaves memory, and the row is left alone or gets one of the outcomes.   *)
(***************************************************************************)
Outcome(n, j, p) ==
    /\ Finish(n, j, p)
    /\ faults' \in Nat
    /\ UNCHANGED <<now, phase, locked, received>>
    /\ \/ UNCHANGED table
       \/ p = "answering" /\ MarkDelivered(j.row)
       \/ CanRetry(j.attempt) /\ MarkRetryPending(j.row, "retryable", now + NextDelay[j.attempt])
       \/ \E failure \in Failures : MarkDeadLetter(j.row, failure)

(***************************************************************************)
(* Each handler of runWorker has such an outcome.                          *)
(***************************************************************************)
LEMMA OutcomeEffect ==
    ASSUME faults \in Nat,
           NEW n, NEW j, NEW p \in {"requesting", "answering"},
           \/ HandleSuccessfulDelivery(n, j, p)
           \/ HandleRetryableFailure(n, j, p)
           \/ HandlePermanentFailure(n, j, p)
    PROVE  Outcome(n, j, p)
<1>1. CASE HandleSuccessfulDelivery(n, j, p)
  <2>1. p = "answering"
    BY <1>1 DEF HandleSuccessfulDelivery, Deliver
  <2>2. QED
    BY <1>1, <2>1, SMT DEF HandleSuccessfulDelivery, Record, Fault, Outcome
<1>2. CASE HandleRetryableFailure(n, j, p)
  BY <1>2, SMT DEF HandleRetryableFailure, Record, Fault, Outcome
<1>3. CASE HandlePermanentFailure(n, j, p)
  <2>1. PICK failure \in Deliver(n, p) \ {"success"} :
           Record(MarkDeadLetter(j.row, failure), phase[n] \in {"running", "stopping"})
    BY <1>3 DEF HandlePermanentFailure
  <2>2. failure \in Failures
    BY DEF Deliver, Failures
  <2>3. faults' \in Nat /\ (UNCHANGED table \/ MarkDeadLetter(j.row, failure))
    BY <2>1, SMT DEF Record, Fault
  <2>4. QED
    BY <1>3, <2>2, <2>3 DEF HandlePermanentFailure, Outcome
<1>4. QED
  BY <1>1, <1>2, <1>3

-----------------------------------------------------------------------------
(***************************************************************************)
(* The UPDATE of ClaimAvailableDeliveries keeps the types of the table.    *)
(***************************************************************************)
LEMMA ClaimRowsType ==
    ASSUME QueueTypeOK, NEW n \in Owners, NEW S, ClaimRows(S, n)
    PROVE  QueueTypeOK'
BY DEF QueueTypeOK, ClaimRows, Statuses

(***************************************************************************)
(* So does MarkRetryPending, which schedules the row for a later time.     *)
(***************************************************************************)
LEMMA RetryType ==
    ASSUME QueueTypeOK, NEW i \in Rows, NEW time \in Int,
           MarkRetryPending(i, "retryable", time)
    PROVE  QueueTypeOK'
BY SMT DEF QueueTypeOK, MarkRetryPending, Statuses, Failures

(***************************************************************************)
(* So does MarkDeadLetter, whatever failure it records.                    *)
(***************************************************************************)
LEMMA DeadLetterType ==
    ASSUME QueueTypeOK, NEW i \in Rows, NEW failure \in Failures,
           MarkDeadLetter(i, failure)
    PROVE  QueueTypeOK'
BY DEF QueueTypeOK, MarkDeadLetter, Statuses

(***************************************************************************)
(* One step of any process, of the clock or of an accepted event keeps     *)
(* the types.                                                              *)
(***************************************************************************)
LEMMA TypeStep ==
    ASSUME TypeOK, [Next]_vars
    PROVE  TypeOK'
<1> USE DEF TypeOK
<1>0. JobsType
  BY DEF JobsType
<1>1. CASE Accept
  BY <1>1, SMT DEF Accept, EnqueueDeliveries, QueueTypeOK, Statuses
<1>2. CASE Tick
  BY <1>2, SMT DEF Tick, table, QueueTypeOK
<1>3. ASSUME NEW n \in Owners, Poller(n)  PROVE TypeOK'
  <2>1. CASE BeginClaim(n)
    <3>1. SelectedRows(now, AllLocked) \subseteq Rows
      BY DEF SelectedRows
    <3>2. QED
      BY <2>1, <3>1 DEF BeginClaim, table, QueueTypeOK
  <2>2. CASE CommitClaim(n)
    <3>1. ClaimedJobs(n) \subseteq Job
      BY SMT DEF ClaimedJobs, Job, QueueTypeOK
    <3>2. JobsType'
      BY <1>0, <2>2, <3>1 DEF CommitClaim, JobsType
    <3>3. QueueTypeOK'
      BY <2>2, ClaimRowsType DEF CommitClaim
    <3>4. QED
      BY <2>2, <3>2, <3>3 DEF CommitClaim, JobsType
  <2>3. ASSUME NEW j \in jobs[n]["batch"], ScheduleJob(n, j)  PROVE TypeOK'
    <3>1. JobsType'
      BY <1>0, <2>3, MoveEffect DEF ScheduleJob, Places
    <3>2. QED
      BY <2>3, <3>1 DEF ScheduleJob, JobsType, table, QueueTypeOK
  <2>4. QED
    BY <1>3, <2>1, <2>2, <2>3 DEF Poller
<1>4. ASSUME NEW n \in Owners, Scheduler(n)  PROVE TypeOK'
  <2>1. PICK j \in jobs[n]["scheduled"] : Dispatch(n, j)
    BY <1>4 DEF Scheduler
  <2>2. JobsType'
    BY <1>0, <2>1, MoveEffect DEF Dispatch, Places
  <2>3. QED
    BY <2>1, <2>2 DEF Dispatch, JobsType, table, QueueTypeOK
<1>5. ASSUME NEW n \in Owners, Worker(n)  PROVE TypeOK'
  <2>1. ASSUME NEW j \in jobs[n]["dispatched"], TakeJob(n, j)  PROVE TypeOK'
    <3>1. JobsType'
      BY <1>0, <2>1, MoveEffect DEF TakeJob, Places
    <3>2. QED
      BY <2>1, <3>1 DEF TakeJob, JobsType, table, QueueTypeOK
  <2>2. ASSUME NEW p \in {"requesting", "answering"}, NEW j \in jobs[n][p],
               \/ HandleSuccessfulDelivery(n, j, p)
               \/ HandleRetryableFailure(n, j, p)
               \/ HandlePermanentFailure(n, j, p)
        PROVE TypeOK'
    <3>1. p \in Places /\ j \in Job
      BY SMT DEF Places
    <3>2. Outcome(n, j, p)
      BY <2>2, OutcomeEffect
    <3>3. JobsType'
      BY <1>0, <3>1, <3>2, FinishEffect DEF Outcome
    <3>4. QueueTypeOK'
      <4>1. CASE UNCHANGED table
        BY <4>1 DEF table, QueueTypeOK
      <4>2. CASE MarkDelivered(j.row)
        BY <3>1, <4>2 DEF MarkDelivered, QueueTypeOK, Statuses, Job
      <4>3. CASE CanRetry(j.attempt) /\ MarkRetryPending(j.row, "retryable", now + NextDelay[j.attempt])
        <5>1. NextDelay[j.attempt] \in Int
          BY <3>1, <4>3, NotifierAssumption, SMT DEF CanRetry, Job
        <5>2. now + NextDelay[j.attempt] \in Int
          BY <5>1, SMT
        <5>3. QED
          BY <3>1, <4>3, <5>2, RetryType DEF Job
      <4>4. ASSUME NEW failure \in Failures, MarkDeadLetter(j.row, failure)  PROVE QueueTypeOK'
        BY <3>1, <4>4, DeadLetterType DEF Job
      <4>5. QED
        BY <3>2, <4>1, <4>2, <4>3, <4>4 DEF Outcome
    <3>5. QED
      BY <3>2, <3>3, <3>4 DEF Outcome, JobsType
  <2>3. QED
    BY <1>5, <2>1, <2>2 DEF Worker
<1>6. ASSUME NEW n \in Owners, Lifetime(n)  PROVE TypeOK'
  <2> USE DEF Phases, table, QueueTypeOK
  <2>1. CASE CloseWorkQueue(n)
    BY <2>1 DEF CloseWorkQueue
  <2>2. CASE Exit(n)
    <3>1. JobsType'
      BY <1>0, <2>2, EndEffect DEF Exit
    <3>2. QED
      BY <2>2, <3>1 DEF Exit, EndProcess, JobsType
  <2>3. CASE Restart(n)
    BY <2>3 DEF Restart
  <2>4. QED
    BY <1>6, <2>1, <2>2, <2>3 DEF Lifetime
<1>7. ASSUME NEW n \in Owners, Environment(n)  PROVE TypeOK'
  <2>1. ASSUME NEW j \in jobs[n]["requesting"], EndpointReceives(n, j)  PROVE TypeOK'
    <3>1. JobsType' /\ j \in Job
      <4>1. JobsType' /\ j \in jobs[n]["requesting"]
        BY <1>0, <2>1, ReceiptEffect
      <4>2. "requesting" \in Places
        BY DEF Places
      <4>3. QED
        BY <1>0, <4>1, <4>2 DEF JobsType
    <3>2. received' \in [Rows -> Nat]
      BY <2>1, <3>1, SMT DEF EndpointReceives, Job
    <3>3. QED
      BY <2>1, <3>1, <3>2 DEF EndpointReceives, JobsType, table, QueueTypeOK
  <2>2. CASE Crash(n)
    <3>1. JobsType'
      BY <1>0, <2>2, EndEffect DEF Crash
    <3>2. QED
      BY <2>2, <3>1, SMT DEF Crash, EndProcess, Fault, JobsType, Phases, table, QueueTypeOK
  <2>3. CASE Stop(n)
    BY <2>3, SMT DEF Stop, Fault, Phases, table, QueueTypeOK
  <2>4. CASE FailClaim(n)
    <3>1. JobsType'
      BY <1>0, <2>4, EndEffect DEF FailClaim
    <3>2. QueueTypeOK'
      BY <2>4, ClaimRowsType DEF FailClaim, table, QueueTypeOK
    <3>3. QED
      BY <2>4, <3>1, <3>2, SMT DEF FailClaim, EndProcess, Fault, JobsType, Phases
  <2>5. QED
    BY <1>7, <2>1, <2>2, <2>3, <2>4 DEF Environment
<1>8. CASE UNCHANGED vars
  BY <1>8 DEF vars, table, QueueTypeOK
<1>9. QED
  BY <1>1, <1>2, <1>3, <1>4, <1>5, <1>6, <1>7, <1>8 DEF Next

(***************************************************************************)
(* The empty table and memory are well typed.                              *)
(***************************************************************************)
LEMMA InitType == Init => TypeOK
BY SMT DEF Init, QueueInit, TypeOK, QueueTypeOK, Statuses, Phases, NoJobs

(***************************************************************************)
(* Every reachable state of any number of processes is well typed.         *)
(***************************************************************************)
THEOREM TypeCorrect == Spec => []TypeOK
<1>1. Init => TypeOK
  BY InitType
<1>2. TypeOK /\ [Next]_vars => TypeOK'
  BY TypeStep
<1>3. QED
  BY <1>1, <1>2, PTL DEF Spec

-----------------------------------------------------------------------------
(***************************************************************************)
(* The inductive invariant.  JobsAreCurrent alone is not inductive: a      *)
(* second job for the row, or a lock on it, would let another process      *)
(* change the row under the holder.  So: within a process a row has jobs   *)
(* at one place only (across processes claim_owner decides), and a lock is *)
(* on a pending row and held by one process.                               *)
(***************************************************************************)
OnePlace ==
    \A n \in Owners : \A p, q \in Places :
        \A j \in jobs[n][p], k \in jobs[n][q] : j.row = k.row => p = q /\ j = k

LocksAreExclusive ==
    /\ \A n \in Owners : \A i \in locked[n] : status[i] = "pending"
    /\ \A n, m \in Owners : \A i \in locked[n] : i \in locked[m] => n = m

(***************************************************************************)
(* How far the receipts of a row can be ahead of its retry count.          *)
(***************************************************************************)
ReceiptsFollowRetries ==
    /\ \A i \in Rows : retryCount[i] <= MaxRetryAttempts
    /\ \A i \in Rows : received[i] <= retryCount[i] + 1
    /\ \A i \in Rows : status[i] \in {"absent", "pending"} => received[i] <= retryCount[i]
    /\ \A n \in Owners : \A p \in Places \ {"answering"} : \A j \in jobs[n][p] :
          received[j.row] <= retryCount[j.row]
    /\ \A n \in Owners : \A j \in jobs[n]["answering"] : received[j.row] > 0
    /\ CompletedWasReceived

IInv ==
    /\ TypeOK
    /\ JobsAreCurrent
    /\ OnePlace
    /\ LocksAreExclusive
    /\ ReceiptsFollowRetries

(***************************************************************************)
(* A job is for a row of the table.                                        *)
(***************************************************************************)
LEMMA JobRows ==
    ASSUME TypeOK
    PROVE  \A n \in Owners : \A p \in Places : \A j \in jobs[n][p] : j.row \in Rows
BY SMT DEF TypeOK, Job

\* Job j, at place p of process n, is the only job for its row.
OnlyJob(n, p, j) ==
    \A m \in Owners : \A r \in Places : \A k \in jobs[m][r] :
        k.row = j.row => m = n /\ r = p /\ k = j

(***************************************************************************)
(* The row of a job is claimed, nobody has a lock on it, and no other job  *)
(* is for it.                                                              *)
(***************************************************************************)
LEMMA RowHasOneJob ==
    ASSUME JobsAreCurrent, OnePlace, LocksAreExclusive,
           NEW n \in Owners, NEW p \in Places, NEW j \in jobs[n][p]
    PROVE  /\ status[j.row] = "claimed"
           /\ claimOwner[j.row] = n
           /\ j.attempt = retryCount[j.row]
           /\ \A m \in Owners : j.row \notin locked[m]
           /\ OnlyJob(n, p, j)
<1>1. status[j.row] = "claimed" /\ claimOwner[j.row] = n /\ j.attempt = retryCount[j.row]
  BY SMT DEF JobsAreCurrent
<1>2. \A m \in Owners : j.row \notin locked[m]
  BY <1>1 DEF LocksAreExclusive
<1>3. ASSUME NEW m \in Owners, NEW r \in Places, NEW k \in jobs[m][r], k.row = j.row
      PROVE  m = n /\ r = p /\ k = j
  <2>1. m = n
    BY <1>1, <1>3, SMT DEF JobsAreCurrent
  <2>2. QED
    BY <1>3, <2>1, SMT DEF OnePlace
<1>4. OnlyJob(n, p, j)
  BY <1>3 DEF OnlyJob
<1>5. QED
  BY <1>1, <1>2, <1>4

(***************************************************************************)
(* What the invariant says of jobs holds of fewer jobs, and what it says   *)
(* of locks holds of fewer locks, as long as the rows stay as they are.    *)
(***************************************************************************)
LEMMA FewerJobs ==
    ASSUME JobsAreCurrent, OnePlace, ReceiptsFollowRetries,
           UNCHANGED <<status, retryCount, claimOwner, received>>,
           \A m \in Owners : \A r \in Places : \A k : k \in jobs'[m][r] => k \in jobs[m][r]
    PROVE  JobsAreCurrent' /\ OnePlace' /\ ReceiptsFollowRetries'
<1>1. JobsAreCurrent'
  BY SMT DEF JobsAreCurrent
<1>2. OnePlace'
  BY SMT DEF OnePlace
<1>3. ReceiptsFollowRetries'
  <2>1. CompletedWasReceived'
    BY DEF ReceiptsFollowRetries, CompletedWasReceived
  <2>2. \A n \in Owners : \A p \in Places \ {"answering"} : \A j \in jobs'[n][p] :
           received'[j.row] <= retryCount'[j.row]
    BY DEF ReceiptsFollowRetries
  <2>3. \A n \in Owners : \A j \in jobs'[n]["answering"] : received'[j.row] > 0
    <3>1. "answering" \in Places
      BY DEF Places
    <3>2. QED
      BY <3>1 DEF ReceiptsFollowRetries
  <2>4. \A i \in Rows : /\ retryCount'[i] <= MaxRetryAttempts
                        /\ received'[i] <= retryCount'[i] + 1
                        /\ status'[i] \in {"absent", "pending"} => received'[i] <= retryCount'[i]
    BY DEF ReceiptsFollowRetries
  <2>5. QED
    BY <2>1, <2>2, <2>3, <2>4 DEF ReceiptsFollowRetries
<1>4. QED
  BY <1>1, <1>2, <1>3

(***************************************************************************)
(* Giving up locks keeps the rest exclusive.                               *)
(***************************************************************************)
LEMMA FewerLocks ==
    ASSUME LocksAreExclusive, UNCHANGED status,
           \A m \in Owners : \A i : i \in locked'[m] => i \in locked[m]
    PROVE  LocksAreExclusive'
BY DEF LocksAreExclusive

(***************************************************************************)
(* A job that moves within its process is still current, and still the     *)
(* only one of its row.                                                    *)
(***************************************************************************)
LEMMA MoveKeepsJobs ==
    ASSUME JobsAreCurrent, OnePlace,
           UNCHANGED <<status, retryCount, claimOwner>>,
           NEW n \in Owners, NEW p \in Places, NEW q \in Places, NEW j \in jobs[n][p],
           JobMoves(n, j, p, q)
    PROVE  JobsAreCurrent' /\ OnePlace'
<1>1. JobsAreCurrent'
  <2> SUFFICES ASSUME NEW m \in Owners, NEW r \in Places, NEW k \in jobs'[m][r]
               PROVE  /\ status[k.row] = "claimed"
                      /\ claimOwner[k.row] = m
                      /\ k.attempt = retryCount[k.row]
    BY SMT DEF JobsAreCurrent
  <2>1. \E x \in Places : k \in jobs[m][x]
    BY SMT DEF JobMoves
  <2>2. QED
    BY <2>1, SMT DEF JobsAreCurrent
<1>2. OnePlace'
  <2> SUFFICES ASSUME NEW m \in Owners, NEW r \in Places, NEW x \in Places,
                      NEW h \in jobs'[m][r], NEW k \in jobs'[m][x], h.row = k.row
               PROVE  r = x /\ h = k
    BY DEF OnePlace
  <2>1. \/ h \in jobs[m][r] /\ ~(m = n /\ r = p /\ h = j)
        \/ m = n /\ r = q /\ h = j
    BY DEF JobMoves
  <2>2. \/ k \in jobs[m][x] /\ ~(m = n /\ x = p /\ k = j)
        \/ m = n /\ x = q /\ k = j
    BY DEF JobMoves
  <2>3. CASE m = n /\ r = q /\ h = j
    <3>1. k \in jobs[m][x] => x = p /\ k = j
      BY <2>3, SMT DEF OnePlace
    <3>2. QED
      BY <2>2, <2>3, <3>1
  <2>4. CASE h \in jobs[m][r] /\ ~(m = n /\ r = p /\ h = j)
    <3>1. CASE m = n /\ x = q /\ k = j
      BY <2>4, <3>1, SMT DEF OnePlace
    <3>2. CASE k \in jobs[m][x]
      BY <2>4, <3>2, SMT DEF OnePlace
    <3>3. QED
      BY <2>2, <3>1, <3>2
  <2>5. QED
    BY <2>1, <2>3, <2>4
<1>3. QED
  BY <1>1, <1>2

(***************************************************************************)
(* Steps that only move a job within a process, without a receipt.         *)
(***************************************************************************)
LEMMA MoveKeepsInv ==
    ASSUME IInv, TypeOK',
           NEW n \in Owners, NEW p \in Places, NEW q \in Places,
           p # q, p # "answering", q # "answering", NEW j, Move(n, j, p, q),
           UNCHANGED <<table, locked, received>>
    PROVE  IInv'
<1>0. JobsType
  BY DEF IInv, TypeOK, JobsType
<1>1. j \in jobs[n][p] /\ JobMoves(n, j, p, q)
  BY <1>0, MoveEffect
<1>2. UNCHANGED <<status, retryCount, claimOwner, locked, received>>
  BY DEF table
<1>3. JobsAreCurrent' /\ OnePlace'
  BY <1>1, <1>2, MoveKeepsJobs DEF IInv
<1>4. LocksAreExclusive'
  BY <1>2, FewerLocks DEF IInv
<1>5. ReceiptsFollowRetries'
  <2>1. CompletedWasReceived'
    BY <1>2 DEF IInv, ReceiptsFollowRetries, CompletedWasReceived
  <2>2. \A m \in Owners : \A r \in Places \ {"answering"} : \A k \in jobs'[m][r] :
           received'[k.row] <= retryCount'[k.row]
    <3> SUFFICES ASSUME NEW m \in Owners, NEW r \in Places \ {"answering"}, NEW k \in jobs'[m][r]
                 PROVE  received[k.row] <= retryCount[k.row]
      BY <1>2
    <3>1. \E x \in Places \ {"answering"} : k \in jobs[m][x]
      BY <1>1 DEF JobMoves
    <3>2. QED
      BY <3>1 DEF IInv, ReceiptsFollowRetries
  <2>3. \A m \in Owners : \A k \in jobs'[m]["answering"] : received'[k.row] > 0
    <3>1. "answering" \in Places
      BY DEF Places
    <3>2. \A m \in Owners : \A k \in jobs'[m]["answering"] : k \in jobs[m]["answering"]
      BY <1>1, <3>1 DEF JobMoves
    <3>3. QED
      BY <1>2, <3>2 DEF IInv, ReceiptsFollowRetries
  <2>4. \A i \in Rows : /\ retryCount'[i] <= MaxRetryAttempts
                        /\ received'[i] <= retryCount'[i] + 1
                        /\ status'[i] \in {"absent", "pending"} => received'[i] <= retryCount'[i]
    BY <1>2 DEF IInv, ReceiptsFollowRetries
  <2>5. QED
    BY <2>1, <2>2, <2>3, <2>4 DEF ReceiptsFollowRetries
<1>6. QED
  BY <1>3, <1>4, <1>5 DEF IInv

(***************************************************************************)
(* Steps that only remove jobs and release locks: the end of a process.    *)
(***************************************************************************)
LEMMA EndKeepsInv ==
    ASSUME IInv, TypeOK',
           NEW n \in Owners, EndProcess(n),
           UNCHANGED <<table, received>>
    PROVE  IInv'
<1>0. JobsType
  BY DEF IInv, TypeOK, JobsType
<1>1. \A m \in Owners : \A r \in Places : \A k : k \in jobs'[m][r] => k \in jobs[m][r]
  BY <1>0, EndEffect
<1>2. UNCHANGED <<status, retryCount, claimOwner, received>>
  BY DEF table
<1>3. \A m \in Owners : \A i : i \in locked'[m] => i \in locked[m]
  BY DEF EndProcess, IInv, TypeOK
<1>4. JobsAreCurrent' /\ OnePlace' /\ ReceiptsFollowRetries'
  BY <1>1, <1>2, FewerJobs DEF IInv
<1>5. LocksAreExclusive'
  BY <1>2, <1>3, FewerLocks DEF IInv
<1>6. QED
  BY <1>4, <1>5 DEF IInv

(***************************************************************************)
(* A claim, whether its COMMIT is answered or not, turns pending rows into *)
(* claimed ones; a new job is in the batch and for a pending row.          *)
(***************************************************************************)
LEMMA ClaimKeepsReceipts ==
    ASSUME ReceiptsFollowRetries,
           UNCHANGED <<retryCount, received>>,
           \A i \in Rows : status'[i] = status[i] \/ status'[i] = "claimed",
           \A m \in Owners : \A r \in Places : \A k \in jobs'[m][r] :
              \/ k \in jobs[m][r]
              \/ r = "batch" /\ k.row \in Rows /\ status[k.row] = "pending"
    PROVE  ReceiptsFollowRetries'
<1>1. \A i \in Rows : status'[i] \in {"absent", "pending", "completed"} => status'[i] = status[i]
  OBVIOUS
<1>2. CompletedWasReceived'
  BY <1>1 DEF ReceiptsFollowRetries, CompletedWasReceived
<1>3. \A m \in Owners : \A r \in Places \ {"answering"} : \A k \in jobs'[m][r] :
         received'[k.row] <= retryCount'[k.row]
  <2> SUFFICES ASSUME NEW m \in Owners, NEW r \in Places \ {"answering"}, NEW k \in jobs'[m][r]
               PROVE  received[k.row] <= retryCount[k.row]
    OBVIOUS
  <2>1. CASE k \in jobs[m][r]
    BY <2>1 DEF ReceiptsFollowRetries
  <2>2. CASE k.row \in Rows /\ status[k.row] = "pending"
    BY <2>2 DEF ReceiptsFollowRetries
  <2>3. QED
    BY <2>1, <2>2, SMT
<1>4. \A m \in Owners : \A k \in jobs'[m]["answering"] : received'[k.row] > 0
  <2> SUFFICES ASSUME NEW m \in Owners, NEW k \in jobs'[m]["answering"]
               PROVE  received[k.row] > 0
    OBVIOUS
  <2>1. "answering" \in Places /\ "answering" # "batch"
    BY DEF Places
  <2>2. k \in jobs[m]["answering"]
    BY <2>1
  <2>3. QED
    BY <2>2 DEF ReceiptsFollowRetries
<1>5. \A i \in Rows : /\ retryCount'[i] <= MaxRetryAttempts
                      /\ received'[i] <= retryCount'[i] + 1
                      /\ status'[i] \in {"absent", "pending"} => received'[i] <= retryCount'[i]
  BY <1>1 DEF ReceiptsFollowRetries
<1>6. QED
  BY <1>2, <1>3, <1>4, <1>5 DEF ReceiptsFollowRetries

(***************************************************************************)
(* The claim transaction takes rows nobody has a job for, so its new jobs  *)
(* are the only ones.                                                      *)
(***************************************************************************)
LEMMA CommitKeepsInv ==
    ASSUME IInv, TypeOK',
           NEW n \in Owners, CommitClaim(n)
    PROVE  IInv'
<1> USE DEF IInv
<1>1. \A m \in Owners : \A r \in Places :
         jobs'[m][r] = IF m = n /\ r = "batch" THEN ClaimedJobs(n) ELSE jobs[m][r]
  BY DEF CommitClaim, TypeOK, Places
<1>2. /\ \A i \in Rows : status'[i] = IF i \in locked[n] THEN "claimed" ELSE status[i]
      /\ \A i \in Rows : claimOwner'[i] = IF i \in locked[n] THEN n ELSE claimOwner[i]
      /\ UNCHANGED <<retryCount, received>>
      /\ \A m \in Owners : locked'[m] = IF m = n THEN {} ELSE locked[m]
  BY DEF CommitClaim, ClaimRows, TypeOK
<1>3. \A j \in ClaimedJobs(n) : /\ j.row \in locked[n] /\ j.row \in Rows
                                /\ j.attempt = retryCount[j.row]
                                /\ status[j.row] = "pending"
  <2> SUFFICES ASSUME NEW j \in ClaimedJobs(n)
               PROVE  /\ j.row \in locked[n] /\ j.row \in Rows
                      /\ j.attempt = retryCount[j.row]
                      /\ status[j.row] = "pending"
    OBVIOUS
  <2>1. PICK i \in locked[n] : j = [row |-> i, attempt |-> retryCount[i]]
    BY DEF ClaimedJobs
  <2>2. j.row = i /\ j.attempt = retryCount[i]
    BY <2>1
  <2>3. i \in Rows /\ status[i] = "pending"
    BY DEF TypeOK, LocksAreExclusive
  <2>4. QED
    BY <2>2, <2>3
<1>4. \A j, k \in ClaimedJobs(n) : j.row = k.row => j = k
  BY SMT DEF ClaimedJobs
<1>5. \A m \in Owners : \A r \in Places : \A j \in jobs[m][r] :
         j.row \in Rows /\ status[j.row] = "claimed" /\ j.row \notin locked[n]
  BY RowHasOneJob, JobRows, SMT
<1>6. JobsAreCurrent'
  <2> SUFFICES ASSUME NEW m \in Owners, NEW r \in Places, NEW j \in jobs'[m][r]
               PROVE  /\ status'[j.row] = "claimed"
                      /\ claimOwner'[j.row] = m
                      /\ j.attempt = retryCount'[j.row]
    BY DEF JobsAreCurrent
  <2>1. CASE m = n /\ r = "batch"
    <3>1. j \in ClaimedJobs(n)
      BY <1>1, <2>1
    <3>2. QED
      BY <1>2, <1>3, <2>1, <3>1
  <2>2. CASE ~(m = n /\ r = "batch")
    <3>1. j \in jobs[m][r]
      BY <1>1, <2>2
    <3>2. j.row \in Rows /\ j.row \notin locked[n]
      BY <1>5, <3>1
    <3>3. QED
      BY <1>2, <3>1, <3>2, SMT DEF JobsAreCurrent
  <2>3. QED
    BY <2>1, <2>2
<1>7. OnePlace'
  <2> SUFFICES ASSUME NEW m \in Owners, NEW r \in Places, NEW q \in Places,
                      NEW j \in jobs'[m][r], NEW k \in jobs'[m][q], j.row = k.row
               PROVE  r = q /\ j = k
    BY DEF OnePlace
  <2>1. m = n /\ r = "batch" => j \in ClaimedJobs(n) /\ j.row \in locked[n]
    BY <1>1, <1>3
  <2>2. m = n /\ q = "batch" => k \in ClaimedJobs(n) /\ k.row \in locked[n]
    BY <1>1, <1>3
  <2>3. ~(m = n /\ r = "batch") => j \in jobs[m][r] /\ j.row \notin locked[n]
    BY <1>1, <1>5
  <2>4. ~(m = n /\ q = "batch") => k \in jobs[m][q] /\ k.row \notin locked[n]
    BY <1>1, <1>5
  <2>5. QED
    BY <1>4, <2>1, <2>2, <2>3, <2>4, SMT DEF OnePlace
<1>8. LocksAreExclusive'
  BY <1>2 DEF LocksAreExclusive, TypeOK
<1>9. ReceiptsFollowRetries'
  <2>1. \A i \in Rows : status'[i] = status[i] \/ status'[i] = "claimed"
    BY <1>2
  <2>2. \A m \in Owners : \A r \in Places : \A k \in jobs'[m][r] :
           \/ k \in jobs[m][r]
           \/ r = "batch" /\ k.row \in Rows /\ status[k.row] = "pending"
    BY <1>1, <1>3
  <2>3. QED
    BY <1>2, <2>1, <2>2, ClaimKeepsReceipts
<1>10. QED
  BY <1>6, <1>7, <1>8, <1>9

(***************************************************************************)
(* A receipt raises received of the row of one job, which had at most      *)
(* retryCount receipts while it was not answering.                         *)
(***************************************************************************)
LEMMA ReceiptKeepsInv ==
    ASSUME IInv, TypeOK',
           NEW n \in Owners, NEW j, EndpointReceives(n, j)
    PROVE  IInv'
<1> USE DEF IInv
<1>0. "requesting" \in Places /\ "answering" \in Places /\ "requesting" # "answering"
  BY DEF Places
<1>1. j \in jobs[n]["requesting"] /\ JobMoves(n, j, "requesting", "answering")
  BY ReceiptEffect DEF TypeOK, JobsType
<1>2. /\ UNCHANGED <<status, retryCount, claimOwner, locked>>
      /\ j.row \in Rows
      /\ \A i \in Rows : received'[i] = IF i = j.row THEN received[i] + 1 ELSE received[i]
  <2>1. received \in [Rows -> Nat]
    BY DEF TypeOK
  <2>2. j.row \in Rows
    BY <1>0, <1>1, JobRows
  <2>3. received' = [received EXCEPT ![j.row] = received[j.row] + 1]
    BY DEF EndpointReceives
  <2>4. \A i \in Rows : received'[i] = IF i = j.row THEN received[i] + 1 ELSE received[i]
    BY <2>1, <2>2, <2>3
  <2>5. QED
    BY <2>2, <2>4 DEF EndpointReceives, table
<1>3. status[j.row] = "claimed" /\ OnlyJob(n, "requesting", j)
  BY <1>0, <1>1, RowHasOneJob, SMT
<1>4. JobsAreCurrent' /\ OnePlace'
  BY <1>0, <1>1, <1>2, MoveKeepsJobs
<1>5. LocksAreExclusive'
  BY <1>2, FewerLocks
<1>6. ReceiptsFollowRetries'
  <2>1. received \in [Rows -> Nat] /\ retryCount \in [Rows -> Nat]
    BY DEF TypeOK, QueueTypeOK
  <2>2. received[j.row] <= retryCount[j.row]
    BY <1>0, <1>1 DEF ReceiptsFollowRetries
  <2>3. \A m \in Owners : \A p \in Places \ {"answering"} : \A k \in jobs'[m][p] :
           received'[k.row] <= retryCount'[k.row]
    <3> SUFFICES ASSUME NEW m \in Owners, NEW p \in Places \ {"answering"}, NEW k \in jobs'[m][p]
                 PROVE  received'[k.row] <= retryCount'[k.row]
      OBVIOUS
    <3>1. k \in jobs[m][p] /\ ~(m = n /\ p = "requesting" /\ k = j)
      BY <1>1 DEF JobMoves
    <3>2. k.row \in Rows /\ k.row # j.row
      BY <1>3, <3>1, JobRows DEF OnlyJob
    <3>3. received[k.row] <= retryCount[k.row]
      BY <3>1 DEF ReceiptsFollowRetries
    <3>4. QED
      BY <1>2, <3>2, <3>3
  <2>4. \A m \in Owners : \A k \in jobs'[m]["answering"] : received'[k.row] > 0
    <3> SUFFICES ASSUME NEW m \in Owners, NEW k \in jobs'[m]["answering"]
                 PROVE  received'[k.row] > 0
      OBVIOUS
    <3>1. CASE k = j
      BY <1>2, <2>1, <3>1, SMT
    <3>2. CASE k # j
      <4>1. k \in jobs[m]["answering"]
        BY <1>0, <1>1, <3>2 DEF JobMoves
      <4>2. k.row \in Rows /\ k.row # j.row
        BY <1>0, <1>3, <4>1, JobRows DEF OnlyJob
      <4>3. received[k.row] > 0
        BY <4>1 DEF ReceiptsFollowRetries
      <4>4. QED
        BY <1>2, <4>2, <4>3
    <3>3. QED
      BY <3>1, <3>2
  <2>5. \A i \in Rows : /\ retryCount'[i] <= MaxRetryAttempts
                        /\ received'[i] <= retryCount'[i] + 1
                        /\ status'[i] \in {"absent", "pending"} => received'[i] <= retryCount'[i]
                        /\ status'[i] = "completed" => received'[i] > 0
    <3> SUFFICES ASSUME NEW i \in Rows
                 PROVE  /\ retryCount[i] <= MaxRetryAttempts
                        /\ received'[i] <= retryCount[i] + 1
                        /\ status[i] \in {"absent", "pending"} => received'[i] <= retryCount[i]
                        /\ status[i] = "completed" => received'[i] > 0
      BY <1>2
    <3>1. /\ retryCount[i] <= MaxRetryAttempts
          /\ received[i] <= retryCount[i] + 1
          /\ status[i] \in {"absent", "pending"} => received[i] <= retryCount[i]
          /\ status[i] = "completed" => received[i] > 0
      BY DEF ReceiptsFollowRetries, CompletedWasReceived
    <3>2. CASE i = j.row
      <4>1. /\ retryCount[i] \in Nat /\ received[i] \in Nat /\ received[i] <= retryCount[i]
            /\ received'[i] = received[i] + 1 /\ status[i] = "claimed"
        BY <1>2, <1>3, <2>1, <2>2, <3>2
      <4>2. received'[i] <= retryCount[i] + 1
        BY <4>1, SMT
      <4>3. QED
        BY <3>1, <4>1, <4>2
    <3>3. CASE i # j.row
      BY <1>2, <3>1, <3>3
    <3>4. QED
      BY <3>2, <3>3
  <2>6. QED
    BY <2>3, <2>4, <2>5 DEF ReceiptsFollowRetries, CompletedWasReceived
<1>7. QED
  BY <1>4, <1>5, <1>6

(***************************************************************************)
(* Recording an outcome changes the row of the job at most, in one of the  *)
(* four ways the Mark operations leave it.                                 *)
(***************************************************************************)
LEMMA OutcomeOfRow ==
    ASSUME QueueTypeOK, NEW n, NEW p, NEW j, j.row \in Rows, Outcome(n, j, p)
    PROVE  /\ \A i \in Rows \ {j.row} : /\ status'[i] = status[i]
                                       /\ retryCount'[i] = retryCount[i]
                                       /\ claimOwner'[i] = claimOwner[i]
           /\ \/ status'[j.row] = status[j.row] /\ retryCount'[j.row] = retryCount[j.row]
              \/ /\ p = "answering" /\ status'[j.row] = "completed"
                 /\ retryCount'[j.row] = retryCount[j.row]
              \/ /\ status'[j.row] = "pending"
                 /\ retryCount'[j.row] = retryCount[j.row] + 1
                 /\ CanRetry(j.attempt)
              \/ status'[j.row] = "dead_lettered" /\ retryCount'[j.row] = retryCount[j.row]
<1>0. /\ status \in [Rows -> Statuses] /\ retryCount \in [Rows -> Nat]
      /\ DOMAIN claimOwner = Rows
  BY DEF QueueTypeOK
<1>1. CASE UNCHANGED table
  BY <1>1 DEF table
<1>2. CASE p = "answering" /\ MarkDelivered(j.row)
  BY <1>0, <1>2 DEF MarkDelivered
<1>3. CASE CanRetry(j.attempt) /\ MarkRetryPending(j.row, "retryable", now + NextDelay[j.attempt])
  BY <1>0, <1>3 DEF MarkRetryPending
<1>4. ASSUME NEW failure \in Failures, MarkDeadLetter(j.row, failure)
      PROVE  /\ \A i \in Rows \ {j.row} : /\ status'[i] = status[i]
                                         /\ retryCount'[i] = retryCount[i]
                                         /\ claimOwner'[i] = claimOwner[i]
             /\ status'[j.row] = "dead_lettered" /\ retryCount'[j.row] = retryCount[j.row]
  BY <1>0, <1>4 DEF MarkDeadLetter
<1>5. QED
  BY <1>1, <1>2, <1>3, <1>4 DEF Outcome

(***************************************************************************)
(* Recording an outcome changes one row, whose only job leaves memory.     *)
(***************************************************************************)
LEMMA OutcomeKeepsInv ==
    ASSUME IInv, TypeOK',
           NEW n \in Owners, NEW p \in {"requesting", "answering"}, NEW j, Outcome(n, j, p)
    PROVE  IInv'
<1> USE DEF IInv
<1>0. p \in Places /\ "answering" \in Places
  BY DEF Places
<1>1. j \in jobs[n][p] /\ JobLeaves(n, j, p)
  BY <1>0, FinishEffect DEF Outcome, TypeOK, JobsType
<1>2. /\ j.row \in Rows
      /\ status[j.row] = "claimed"
      /\ j.attempt = retryCount[j.row]
      /\ \A m \in Owners : j.row \notin locked[m]
      /\ OnlyJob(n, p, j)
  BY <1>0, <1>1, JobRows, RowHasOneJob, SMT
<1>3. \A m \in Owners : \A r \in Places : \A k \in jobs'[m][r] :
         k \in jobs[m][r] /\ k.row # j.row /\ k.row \in Rows
  <2> SUFFICES ASSUME NEW m \in Owners, NEW r \in Places, NEW k \in jobs'[m][r]
               PROVE  k \in jobs[m][r] /\ k.row # j.row /\ k.row \in Rows
    OBVIOUS
  <2>1. k \in jobs[m][r] /\ ~(m = n /\ r = p /\ k = j)
    BY <1>1 DEF JobLeaves
  <2>2. k.row # j.row
    BY <1>2, <2>1 DEF OnlyJob
  <2>3. QED
    BY <2>1, <2>2, JobRows
<1>4. UNCHANGED <<locked, received>>
  BY DEF Outcome
<1>5. \A i \in Rows \ {j.row} :
         status'[i] = status[i] /\ retryCount'[i] = retryCount[i] /\ claimOwner'[i] = claimOwner[i]
  BY <1>2, OutcomeOfRow DEF TypeOK
<1>6. \/ status'[j.row] = status[j.row] /\ retryCount'[j.row] = retryCount[j.row]
      \/ p = "answering" /\ status'[j.row] = "completed" /\ retryCount'[j.row] = retryCount[j.row]
      \/ /\ status'[j.row] = "pending"
         /\ retryCount'[j.row] = retryCount[j.row] + 1
         /\ CanRetry(j.attempt)
      \/ status'[j.row] = "dead_lettered" /\ retryCount'[j.row] = retryCount[j.row]
  BY <1>2, OutcomeOfRow DEF TypeOK
<1>7. JobsAreCurrent' /\ OnePlace'
  <2>1. JobsAreCurrent'
    <3> SUFFICES ASSUME NEW m \in Owners, NEW r \in Places, NEW k \in jobs'[m][r]
                 PROVE  /\ status'[k.row] = "claimed"
                        /\ claimOwner'[k.row] = m
                        /\ k.attempt = retryCount'[k.row]
      BY DEF JobsAreCurrent
    <3>1. k \in jobs[m][r] /\ k.row \in Rows \ {j.row}
      BY <1>3
    <3>2. status[k.row] = "claimed" /\ claimOwner[k.row] = m /\ k.attempt = retryCount[k.row]
      BY <3>1, RowHasOneJob, SMT
    <3>3. QED
      BY <1>5, <3>1, <3>2
  <2>2. OnePlace'
    BY <1>3, SMT DEF OnePlace
  <2>3. QED
    BY <2>1, <2>2
<1>8. LocksAreExclusive'
  <2>1. \A m \in Owners : \A i \in locked[m] : i \in Rows \ {j.row}
    BY <1>2 DEF TypeOK
  <2>2. \A m \in Owners : \A i \in locked[m] : status'[i] = status[i]
    BY <1>5, <2>1
  <2>3. QED
    BY <1>4, <2>2 DEF LocksAreExclusive
<1>9. ReceiptsFollowRetries'
  <2>1. /\ received \in [Rows -> Nat] /\ retryCount \in [Rows -> Nat]
        /\ MaxRetryAttempts \in Nat
    BY NotifierAssumption DEF TypeOK, QueueTypeOK
  <2>2. /\ \A m \in Owners : \A r \in Places \ {"answering"} : \A k \in jobs'[m][r] :
             received'[k.row] <= retryCount'[k.row]
        /\ \A m \in Owners : \A k \in jobs'[m]["answering"] : received'[k.row] > 0
    <3>1. \A m \in Owners : \A r \in Places : \A k \in jobs'[m][r] :
             /\ k \in jobs[m][r]
             /\ received'[k.row] = received[k.row] /\ retryCount'[k.row] = retryCount[k.row]
      BY <1>3, <1>4, <1>5
    <3>2. QED
      BY <1>0, <3>1, SMT DEF ReceiptsFollowRetries
  <2>3. p = "answering" => received[j.row] > 0
    BY <1>1 DEF ReceiptsFollowRetries
  <2>4. \A i \in Rows : /\ retryCount'[i] <= MaxRetryAttempts
                        /\ received'[i] <= retryCount'[i] + 1
                        /\ status'[i] \in {"absent", "pending"} => received'[i] <= retryCount'[i]
                        /\ status'[i] = "completed" => received'[i] > 0
    <3> SUFFICES ASSUME NEW i \in Rows
                 PROVE  /\ retryCount'[i] <= MaxRetryAttempts
                        /\ received[i] <= retryCount'[i] + 1
                        /\ status'[i] \in {"absent", "pending"} => received[i] <= retryCount'[i]
                        /\ status'[i] = "completed" => received[i] > 0
      BY <1>4
    <3>1. /\ retryCount[i] <= MaxRetryAttempts
          /\ received[i] <= retryCount[i] + 1
          /\ status[i] \in {"absent", "pending"} => received[i] <= retryCount[i]
          /\ status[i] = "completed" => received[i] > 0
      BY DEF ReceiptsFollowRetries, CompletedWasReceived
    <3>2. CASE i # j.row
      BY <1>5, <3>1, <3>2
    <3>3. CASE i = j.row
      <4>1. retryCount[i] \in Nat /\ received[i] \in Nat /\ status[i] = "claimed"
        BY <1>2, <2>1, <3>3
      <4>2. CanRetry(j.attempt) => retryCount[i] < MaxRetryAttempts
        BY <1>2, <3>3 DEF CanRetry
      <4>3. CASE status'[i] = status[i] /\ retryCount'[i] = retryCount[i]
        BY <3>1, <4>3
      <4>4. CASE p = "answering" /\ status'[i] = "completed" /\ retryCount'[i] = retryCount[i]
        BY <2>3, <3>1, <3>3, <4>4
      <4>5. CASE /\ status'[i] = "pending"
                 /\ retryCount'[i] = retryCount[i] + 1
                 /\ CanRetry(j.attempt)
        <5>1. retryCount'[i] <= MaxRetryAttempts /\ received[i] <= retryCount'[i]
              /\ received[i] <= retryCount'[i] + 1
          BY <2>1, <3>1, <4>1, <4>2, <4>5, SMT
        <5>2. QED
          BY <4>5, <5>1
      <4>6. CASE status'[i] = "dead_lettered" /\ retryCount'[i] = retryCount[i]
        BY <3>1, <4>6
      <4>7. QED
        BY <1>6, <3>3, <4>3, <4>4, <4>5, <4>6
    <3>4. QED
      BY <3>2, <3>3
  <2>5. QED
    BY <2>2, <2>4 DEF ReceiptsFollowRetries, CompletedWasReceived
<1>10. QED
  BY <1>7, <1>8, <1>9

(***************************************************************************)
(* A claim that ends the process: the rows may become claimed, but no job  *)
(* of this process survives.                                               *)
(***************************************************************************)
LEMMA FailClaimKeepsInv ==
    ASSUME IInv, TypeOK',
           NEW n \in Owners, FailClaim(n)
    PROVE  IInv'
<1> USE DEF IInv
<1>1. CASE UNCHANGED table
  BY <1>1, EndKeepsInv DEF FailClaim
<1>2. CASE ClaimRows(locked[n], n)
  <2>0. JobsType
    BY DEF TypeOK, JobsType
  <2>1. \A m \in Owners : \A r \in Places : \A k :
           k \in jobs'[m][r] <=> k \in jobs[m][r] /\ m # n
    BY <2>0, EndEffect DEF FailClaim
  <2>2. /\ \A i \in Rows : status'[i] = IF i \in locked[n] THEN "claimed" ELSE status[i]
        /\ \A i \in Rows : claimOwner'[i] = IF i \in locked[n] THEN n ELSE claimOwner[i]
        /\ UNCHANGED <<retryCount, received>>
        /\ \A m \in Owners : locked'[m] = IF m = n THEN {} ELSE locked[m]
    BY <1>2 DEF FailClaim, EndProcess, ClaimRows, TypeOK
  <2>3. \A m \in Owners : \A r \in Places : \A j \in jobs[m][r] :
           j.row \in Rows /\ status[j.row] = "claimed" /\ j.row \notin locked[n]
    BY RowHasOneJob, JobRows, SMT
  <2>4. JobsAreCurrent' /\ OnePlace'
    <3>1. \A m \in Owners : \A r \in Places : \A j \in jobs'[m][r] :
             /\ j \in jobs[m][r]
             /\ status'[j.row] = status[j.row] /\ claimOwner'[j.row] = claimOwner[j.row]
      BY <2>1, <2>2, <2>3
    <3>2. JobsAreCurrent'
      <4> SUFFICES ASSUME NEW m \in Owners, NEW r \in Places, NEW j \in jobs'[m][r]
                   PROVE  /\ status'[j.row] = "claimed"
                          /\ claimOwner'[j.row] = m
                          /\ j.attempt = retryCount'[j.row]
        BY DEF JobsAreCurrent
      <4>1. j \in jobs[m][r]
        BY <3>1
      <4>2. status[j.row] = "claimed" /\ claimOwner[j.row] = m /\ j.attempt = retryCount[j.row]
        BY <4>1, RowHasOneJob, SMT
      <4>3. status'[j.row] = status[j.row] /\ claimOwner'[j.row] = claimOwner[j.row]
        BY <3>1
      <4>4. QED
        BY <2>2, <4>2, <4>3
    <3>3. OnePlace'
      <4>1. \A m \in Owners : \A r \in Places : \A j \in jobs'[m][r] : j \in jobs[m][r]
        BY <3>1
      <4>2. QED
        BY <4>1, SMT DEF OnePlace
    <3>4. QED
      BY <3>2, <3>3
  <2>5. LocksAreExclusive'
    BY <2>2 DEF LocksAreExclusive, TypeOK
  <2>6. ReceiptsFollowRetries'
    <3>1. \A i \in Rows : status'[i] = status[i] \/ status'[i] = "claimed"
      BY <2>2
    <3>2. QED
      BY <2>1, <2>2, <3>1, ClaimKeepsReceipts
  <2>7. QED
    BY <2>4, <2>5, <2>6
<1>3. QED
  BY <1>1, <1>2 DEF FailClaim

(***************************************************************************)
(* Every step of the notifier keeps the inductive invariant.               *)
(***************************************************************************)
LEMMA InductiveStep ==
    ASSUME IInv, [Next]_vars
    PROVE  IInv'
<1>0. TypeOK'
  BY TypeStep DEF IInv
<1>1. CASE Accept
  <2>1. PICK S \in SUBSET Rows : EnqueueDeliveries(S, now)
    BY <1>1 DEF Accept
  <2>2. /\ UNCHANGED <<retryCount, claimOwner>>
        /\ UNCHANGED <<jobs, locked, received>>
        /\ \A i \in Rows : \/ status'[i] = status[i]
                           \/ status[i] = "absent" /\ status'[i] = "pending"
    <3>1. \A i \in S : status[i] = "absent"
      BY <2>1 DEF EnqueueDeliveries
    <3>2. status' = [i \in Rows |-> IF i \in S THEN "pending" ELSE status[i]]
      BY <2>1 DEF EnqueueDeliveries
    <3>3. \A i \in Rows : \/ status'[i] = status[i]
                          \/ status[i] = "absent" /\ status'[i] = "pending"
      BY <3>1, <3>2
    <3>4. UNCHANGED <<retryCount, claimOwner>>
      BY <2>1 DEF EnqueueDeliveries
    <3>5. UNCHANGED <<jobs, locked, received>>
      BY <1>1 DEF Accept
    <3>6. QED
      BY <3>3, <3>4, <3>5
  <2>3. JobsAreCurrent' /\ OnePlace'
    <3>1. \A m \in Owners : \A r \in Places : \A j \in jobs[m][r] : j.row \in Rows
      BY SMT DEF IInv, TypeOK, Job
    <3>2. \A m \in Owners : \A r \in Places : \A j \in jobs[m][r] :
             /\ status[j.row] = "claimed"
             /\ claimOwner[j.row] = m
             /\ j.attempt = retryCount[j.row]
      BY DEF IInv, JobsAreCurrent
    <3>3. \A m \in Owners : \A r \in Places : \A j \in jobs[m][r] : status'[j.row] = "claimed"
      BY <2>2, <3>1, <3>2, SMT
    <3>4. JobsAreCurrent'
      BY <2>2, <3>2, <3>3, SMT DEF JobsAreCurrent
    <3>5. OnePlace'
      <4>1. OnePlace /\ UNCHANGED jobs
        BY <2>2 DEF IInv
      <4>2. QED
        BY <4>1, SMT DEF OnePlace
    <3>6. QED
      BY <3>4, <3>5
  <2>4. LocksAreExclusive' /\ ReceiptsFollowRetries'
    <3>1. \A m \in Owners : \A i \in locked[m] : i \in Rows
      BY DEF IInv, TypeOK
    <3>2. LocksAreExclusive'
      BY <2>2, <3>1 DEF IInv, LocksAreExclusive
    <3>3. CompletedWasReceived'
      BY <2>2 DEF IInv, ReceiptsFollowRetries, CompletedWasReceived
    <3>4. ReceiptsFollowRetries'
      BY <2>2, <3>3 DEF IInv, ReceiptsFollowRetries
    <3>5. QED
      BY <3>2, <3>4
  <2>5. QED
    BY <1>0, <2>3, <2>4 DEF IInv
<1> DEFINE Kept == UNCHANGED <<status, retryCount, claimOwner, jobs, locked, received>>
<1>2. ASSUME Kept  PROVE IInv'
  <2>1. JobsAreCurrent' /\ OnePlace' /\ ReceiptsFollowRetries'
    BY <1>2, FewerJobs DEF IInv
  <2>2. LocksAreExclusive'
    BY <1>2, FewerLocks DEF IInv
  <2>3. QED
    BY <1>0, <2>1, <2>2 DEF IInv
<1>3. CASE Tick
  BY <1>2, <1>3 DEF Tick, table
<1>4. ASSUME NEW n \in Owners, Poller(n)  PROVE IInv'
  <2>1. CASE BeginClaim(n)
    <3>1. /\ UNCHANGED <<status, retryCount, claimOwner, jobs, received>>
          /\ \A m \in Owners : locked'[m] = IF m = n THEN SelectedRows(now, AllLocked) ELSE locked[m]
      BY <2>1 DEF BeginClaim, table, IInv, TypeOK
    <3>2. \A i \in SelectedRows(now, AllLocked) :
             status[i] = "pending" /\ \A m \in Owners : i \notin locked[m]
      BY DEF SelectedRows, IsDue, AllLocked
    <3>3. LocksAreExclusive'
      BY <3>1, <3>2 DEF IInv, LocksAreExclusive
    <3>4. JobsAreCurrent' /\ OnePlace' /\ ReceiptsFollowRetries'
      BY <3>1, FewerJobs DEF IInv
    <3>5. QED
      BY <1>0, <3>3, <3>4 DEF IInv
  <2>2. CASE CommitClaim(n)
    BY <1>0, <2>2, CommitKeepsInv
  <2>3. ASSUME NEW j \in jobs[n]["batch"], ScheduleJob(n, j)  PROVE IInv'
    BY <1>0, <2>3, MoveKeepsInv DEF ScheduleJob, Places
  <2>4. QED
    BY <1>4, <2>1, <2>2, <2>3 DEF Poller
<1>5. ASSUME NEW n \in Owners, Scheduler(n)  PROVE IInv'
  BY <1>0, <1>5, MoveKeepsInv DEF Scheduler, Dispatch, Places
<1>6. ASSUME NEW n \in Owners, Worker(n)  PROVE IInv'
  <2>1. ASSUME NEW j \in jobs[n]["dispatched"], TakeJob(n, j)  PROVE IInv'
    BY <1>0, <2>1, MoveKeepsInv DEF TakeJob, Places
  <2>2. ASSUME NEW p \in {"requesting", "answering"}, NEW j \in jobs[n][p],
               \/ HandleSuccessfulDelivery(n, j, p)
               \/ HandleRetryableFailure(n, j, p)
               \/ HandlePermanentFailure(n, j, p)
        PROVE IInv'
    <3>1. Outcome(n, j, p)
      BY <2>2, OutcomeEffect DEF IInv, TypeOK
    <3>2. QED
      BY <1>0, <3>1, OutcomeKeepsInv
  <2>3. QED
    BY <1>6, <2>1, <2>2 DEF Worker
<1>7. ASSUME NEW n \in Owners, Lifetime(n)  PROVE IInv'
  <2>1. CASE CloseWorkQueue(n) \/ Restart(n)
    BY <1>2, <2>1 DEF CloseWorkQueue, Restart, table
  <2>2. CASE Exit(n)
    BY <1>0, <2>2, EndKeepsInv DEF Exit
  <2>3. QED
    BY <1>7, <2>1, <2>2 DEF Lifetime
<1>8. ASSUME NEW n \in Owners, Environment(n)  PROVE IInv'
  <2>1. ASSUME NEW j, EndpointReceives(n, j)  PROVE IInv'
    BY <1>0, <2>1, ReceiptKeepsInv
  <2>2. CASE Crash(n)
    BY <1>0, <2>2, EndKeepsInv DEF Crash
  <2>3. CASE Stop(n)
    <3>1. /\ UNCHANGED <<status, retryCount, claimOwner, jobs, received>>
          /\ \A m \in Owners : \A i : i \in locked'[m] => i \in locked[m]
      BY <2>3 DEF Stop, table, IInv, TypeOK
    <3>2. JobsAreCurrent' /\ OnePlace' /\ ReceiptsFollowRetries'
      BY <3>1, FewerJobs DEF IInv
    <3>3. LocksAreExclusive'
      BY <3>1, FewerLocks DEF IInv
    <3>4. QED
      BY <1>0, <3>2, <3>3 DEF IInv
  <2>4. CASE FailClaim(n)
    BY <1>0, <2>4, FailClaimKeepsInv
  <2>5. QED
    BY <1>8, <2>1, <2>2, <2>3, <2>4 DEF Environment
<1>9. CASE UNCHANGED vars
  BY <1>2, <1>9 DEF vars, table
<1>10. QED
  BY <1>1, <1>3, <1>4, <1>5, <1>6, <1>7, <1>8, <1>9 DEF Next

-----------------------------------------------------------------------------
(***************************************************************************)
(* The inductive invariant holds in every reachable state of Notifier.     *)
(***************************************************************************)
LEMMA Invariance == Spec => []IInv
<1>1. Init => IInv
  <2> SUFFICES ASSUME Init PROVE IInv
    OBVIOUS
  <2>1. TypeOK
    BY InitType
  <2>2. /\ \A n \in Owners : \A p \in Places : jobs[n][p] = {}
        /\ \A n \in Owners : locked[n] = {}
        /\ "answering" \in Places
    BY DEF Init, NoJobs, Places
  <2>3. \A i \in Rows : status[i] = "absent" /\ retryCount[i] = 0 /\ received[i] = 0
    BY DEF Init, QueueInit
  <2>4. JobsAreCurrent /\ OnePlace
    BY <2>2 DEF JobsAreCurrent, OnePlace
  <2>5. LocksAreExclusive
    BY <2>2 DEF LocksAreExclusive
  <2>6. CompletedWasReceived
    BY <2>3 DEF CompletedWasReceived
  <2>7. ReceiptsFollowRetries
    <3>1. \A i \in Rows : retryCount[i] <= MaxRetryAttempts /\ received[i] <= retryCount[i]
                          /\ received[i] <= retryCount[i] + 1
      BY <2>3, NotifierAssumption, SMT
    <3>2. QED
      BY <2>2, <2>6, <3>1 DEF ReceiptsFollowRetries
  <2>8. QED
    BY <2>1, <2>4, <2>5, <2>7 DEF IInv
<1>2. IInv /\ [Next]_vars => IInv'
  BY InductiveStep
<1>3. QED
  BY <1>1, <1>2, PTL DEF Spec

(***************************************************************************)
(* Claim exclusivity for any number of processes, workers and rows: a row  *)
(* never has two live jobs, so no delivery is attempted by two workers at  *)
(* a time and no outcome is recorded for a row another worker holds.       *)
(***************************************************************************)
THEOREM ClaimExclusivity == Spec => []OneHolder
<1>1. IInv => OneHolder
  <2> SUFFICES ASSUME IInv PROVE OneHolder
    OBVIOUS
  <2> SUFFICES ASSUME NEW n \in Owners, NEW m \in Owners, NEW p \in Places, NEW q \in Places,
                      NEW j \in jobs[n][p], NEW k \in jobs[m][q], j.row = k.row
               PROVE  n = m /\ p = q /\ j = k
    BY DEF OneHolder
  <2>1. n = m
    BY SMT DEF IInv, JobsAreCurrent
  <2>2. QED
    BY <2>1, SMT DEF IInv, OnePlace
<1>2. QED
  BY <1>1, Invariance, PTL

(***************************************************************************)
(* A live job is never stale when CanRetry and the UPDATEs use it: its row *)
(* is still claimed by its process, with the retry count of the claim.     *)
(***************************************************************************)
THEOREM JobsStayCurrent == Spec => []JobsAreCurrent
<1>1. IInv => JobsAreCurrent
  BY DEF IInv
<1>2. QED
  BY <1>1, Invariance, PTL

(***************************************************************************)
(* MarkDelivered is only reached for a row that the endpoint received.     *)
(***************************************************************************)
THEOREM CompletionIsReal == Spec => []CompletedWasReceived
<1>1. IInv => CompletedWasReceived
  BY DEF IInv, ReceiptsFollowRetries
<1>2. QED
  BY <1>1, Invariance, PTL

(***************************************************************************)
(* The number of times an endpoint receives a delivery is bounded by the   *)
(* retry policy, in spite of crashes, restarts and failed updates.         *)
(***************************************************************************)
THEOREM DeliveryBounds == Spec => []AttemptsBounded
<1>1. IInv => AttemptsBounded
  <2> SUFFICES ASSUME IInv, NEW i \in Rows PROVE received[i] <= MaxRetryAttempts + 1
    BY DEF AttemptsBounded
  <2>1. /\ retryCount[i] \in Nat /\ received[i] \in Nat
        /\ retryCount[i] <= MaxRetryAttempts /\ received[i] <= retryCount[i] + 1
    BY DEF IInv, TypeOK, QueueTypeOK, ReceiptsFollowRetries
  <2>2. QED
    BY <2>1, NotifierAssumption, SMT
<1>2. QED
  BY <1>1, Invariance, PTL

(***************************************************************************)
(* The table implements the documented life cycle: claim exclusivity makes *)
(* up for the guards the UPDATE statements do not have.                    *)
(***************************************************************************)
THEOREM LifecycleRefinement == Spec => ImplementsLifecycle
<1>1. Init => Lifecycle!Init
  BY DEF Init, QueueInit, Lifecycle!Init
<1>2. IInv /\ [Next]_vars => [Lifecycle!Next]_(Lifecycle!lifecycleVars)
  <2> SUFFICES ASSUME IInv, [Next]_vars PROVE [Lifecycle!Next]_(Lifecycle!lifecycleVars)
    OBVIOUS
  <2> USE DEF Lifecycle!lifecycleVars
  <2>0. status \in [Rows -> Statuses] /\ retryCount \in [Rows -> Nat]
    BY DEF IInv, TypeOK, QueueTypeOK
  <2>1. CASE Accept
    <3>1. PICK S \in SUBSET Rows : EnqueueDeliveries(S, now)
      BY <2>1 DEF Accept
    <3>2. Lifecycle!Accept(S)
      BY <3>1 DEF EnqueueDeliveries, Lifecycle!Accept, Lifecycle!Transition
    <3>3. QED
      BY <3>2 DEF Lifecycle!Next
  <2>2. ASSUME NEW n \in Owners, ClaimRows(locked[n], n)
        PROVE  Lifecycle!Next
    <3>1. locked[n] \in SUBSET Rows /\ \A i \in locked[n] : status[i] = "pending"
      BY DEF IInv, TypeOK, LocksAreExclusive
    <3>2. Lifecycle!Claim(locked[n])
      BY <2>2, <3>1 DEF ClaimRows, Lifecycle!Claim, Lifecycle!Transition
    <3>3. QED
      BY <3>1, <3>2 DEF Lifecycle!Next
  <2>3. ASSUME NEW n \in Owners, NEW p \in {"requesting", "answering"}, NEW j \in jobs[n][p],
               Outcome(n, j, p)
        PROVE  [Lifecycle!Next]_(Lifecycle!lifecycleVars)
    <3>1. /\ j.row \in Rows /\ status[j.row] = "claimed"
          /\ j.attempt = retryCount[j.row]
      <4>1. p \in Places
        BY DEF Places
      <4>2. j \in Job
        BY <4>1 DEF IInv, TypeOK
      <4>3. QED
        BY <4>1, <4>2, SMT DEF IInv, JobsAreCurrent, Job
    <3>2. CASE UNCHANGED table
      BY <3>2 DEF table
    <3>3. CASE MarkDelivered(j.row)
      <4>1. Lifecycle!Complete(j.row)
        BY <2>0, <3>1, <3>3 DEF MarkDelivered, Lifecycle!Complete, Lifecycle!Transition
      <4>2. QED
        BY <3>1, <4>1 DEF Lifecycle!Next
    <3>4. CASE CanRetry(j.attempt) /\ MarkRetryPending(j.row, "retryable", now + NextDelay[j.attempt])
      <4>1. Lifecycle!Retry(j.row)
        BY <2>0, <3>1, <3>4 DEF CanRetry, MarkRetryPending, Lifecycle!Retry, Lifecycle!Transition
      <4>2. QED
        BY <3>1, <4>1 DEF Lifecycle!Next
    <3>5. ASSUME NEW failure \in Failures, MarkDeadLetter(j.row, failure)
          PROVE  Lifecycle!Next
      <4>1. Lifecycle!DeadLetter(j.row)
        BY <2>0, <3>1, <3>5 DEF MarkDeadLetter, Lifecycle!DeadLetter, Lifecycle!Transition
      <4>2. QED
        BY <3>1, <4>1 DEF Lifecycle!Next
    <3>6. QED
      BY <2>3, <3>2, <3>3, <3>4, <3>5 DEF Outcome
  <2>4. ASSUME NEW n \in Owners, Worker(n)  PROVE [Lifecycle!Next]_(Lifecycle!lifecycleVars)
    <3>1. ASSUME NEW j \in jobs[n]["dispatched"], TakeJob(n, j)  PROVE UNCHANGED table
      BY <3>1 DEF TakeJob
    <3>2. ASSUME NEW p \in {"requesting", "answering"}, NEW j \in jobs[n][p],
                 \/ HandleSuccessfulDelivery(n, j, p)
                 \/ HandleRetryableFailure(n, j, p)
                 \/ HandlePermanentFailure(n, j, p)
          PROVE  Outcome(n, j, p)
      BY <3>2, OutcomeEffect DEF IInv, TypeOK
    <3>3. QED
      BY <2>3, <2>4, <3>1, <3>2 DEF Worker, table
  <2>5. ASSUME NEW n \in Owners, Poller(n) \/ Environment(n)
        PROVE [Lifecycle!Next]_(Lifecycle!lifecycleVars)
    BY <2>2, <2>5 DEF Poller, Environment, BeginClaim, CommitClaim, ScheduleJob, EndpointReceives,
                      Crash, Stop, FailClaim, table
  <2>6. ASSUME NEW n \in Owners, Scheduler(n) \/ Lifetime(n)
        PROVE UNCHANGED table
    BY <2>6 DEF Scheduler, Dispatch, Lifetime, CloseWorkQueue, Exit, Restart
  <2>7. CASE Tick \/ UNCHANGED vars
    BY <2>7 DEF Tick, vars, table
  <2>8. QED
    BY <2>1, <2>4, <2>5, <2>6, <2>7 DEF Next, table
<1>3. QED
  BY <1>1, <1>2, Invariance, PTL DEF Spec, ImplementsLifecycle, Lifecycle!Spec

-----------------------------------------------------------------------------
(***************************************************************************)
(* Every process lives as ProcessLife says.  With LifeRefinement of        *)
(* RuntimeProofs this ties the two descriptions of a process together.     *)
(* Claim exclusivity is needed: the counts are of sets of jobs, and a job  *)
(* that moves to a place where it already was would not change them.       *)
(***************************************************************************)
HandedOut == {"dispatched", "requesting", "answering"}

\* Only finitely many jobs are dispatched or in the hands of workers.
FiniteJobs == \A n \in Owners : \A p \in HandedOut : IsFiniteSet(jobs[n][p])

\* The memory of a process that is down is empty.
DownIsEmpty == \A n \in Owners : phase[n] = "down" => \A p \in Places : jobs[n][p] = {}

\* A step of process n is a step of its life and leaves the other processes alone.
LifeStep(n) ==
    /\ FiniteJobs'
    /\ phase'[n] = "down" => \A p \in Places : jobs'[n][p] = {}
    /\ Life(n)!Next \/ UNCHANGED Life(n)!vars
    /\ \A m \in Owners : m # n => phase'[m] = phase[m] /\ jobs'[m] = jobs[m]

\* The places of a job that moves, as sets.
LEMMA MoveSets ==
    ASSUME JobsType, NEW n \in Owners, NEW j, NEW p \in Places, NEW q \in Places, p # q,
           Move(n, j, p, q)
    PROVE  /\ jobs'[n][p] = jobs[n][p] \ {j}
           /\ jobs'[n][q] = jobs[n][q] \cup {j}
           /\ \A r \in Places \ {p, q} : jobs'[n][r] = jobs[n][r]
           /\ \A m \in Owners : m # n => jobs'[m] = jobs[m]
  BY DEF Move, JobsType

\* The place of a job that leaves.
LEMMA FinishSets ==
    ASSUME JobsType, NEW n \in Owners, NEW j, NEW p \in Places, Finish(n, j, p)
    PROVE  /\ jobs'[n][p] = jobs[n][p] \ {j}
           /\ \A r \in Places \ {p} : jobs'[n][r] = jobs[n][r]
           /\ \A m \in Owners : m # n => jobs'[m] = jobs[m]
  BY DEF Finish, JobsType

\* The counts of a process are natural numbers.
LEMMA Counts ==
    ASSUME FiniteJobs, NEW n \in Owners
    PROVE  /\ Cardinality(jobs[n]["dispatched"]) \in Nat
           /\ Cardinality(jobs[n]["requesting"]) \in Nat
           /\ Cardinality(jobs[n]["answering"]) \in Nat
  BY FS_CardinalityType DEF FiniteJobs, HandedOut

\* A job is at one place of its process only.
LEMMA Elsewhere ==
    ASSUME IInv, NEW n \in Owners, NEW p \in Places, NEW q \in Places, p # q, NEW j \in jobs[n][p]
    PROVE  j \notin jobs[n][q]
  BY DEF IInv, OnePlace

\* A job more at a finite place.
LEMMA AddJob ==
    ASSUME NEW S, IsFiniteSet(S), NEW j, j \notin S
    PROVE  IsFiniteSet(S \cup {j}) /\ Cardinality(S \cup {j}) = Cardinality(S) + 1
  BY FS_AddElement

\* A job less.
LEMMA RemoveJob ==
    ASSUME NEW S, IsFiniteSet(S), NEW j \in S
    PROVE  IsFiniteSet(S \ {j}) /\ Cardinality(S \ {j}) = Cardinality(S) - 1
  BY FS_RemoveElement

-----------------------------------------------------------------------------
\* claimAndSchedule: nothing is handed out.
LEMMA PollerStep ==
    ASSUME IInv, FiniteJobs, NEW n \in Owners, Poller(n)
    PROVE  LifeStep(n)
  <1>1. /\ UNCHANGED phase /\ phase[n] # "down"
        /\ \A p \in HandedOut : jobs'[n][p] = jobs[n][p]
        /\ \A m \in Owners : m # n => jobs'[m] = jobs[m]
    <2>1. CASE BeginClaim(n)
      BY <2>1 DEF BeginClaim
    <2>2. CASE CommitClaim(n)
      BY <2>2 DEF CommitClaim, IInv, TypeOK, Places, HandedOut
    <2>3. ASSUME NEW j \in jobs[n]["batch"], ScheduleJob(n, j)
          PROVE  /\ UNCHANGED phase /\ phase[n] # "down"
                 /\ \A p \in HandedOut : jobs'[n][p] = jobs[n][p]
                 /\ \A m \in Owners : m # n => jobs'[m] = jobs[m]
      <3>1. JobsType /\ "batch" \in Places /\ "scheduled" \in Places
        BY DEF IInv, TypeOK, JobsType, Places
      <3>2. Move(n, j, "batch", "scheduled") /\ UNCHANGED phase /\ phase[n] # "down"
        BY <2>3 DEF ScheduleJob, Alive
      <3>3. /\ jobs'[n]["batch"] = jobs[n]["batch"] \ {j}
            /\ jobs'[n]["scheduled"] = jobs[n]["scheduled"] \cup {j}
            /\ \A r \in Places \ {"batch", "scheduled"} : jobs'[n][r] = jobs[n][r]
            /\ \A m \in Owners : m # n => jobs'[m] = jobs[m]
        BY <3>1, <3>2, "batch" # "scheduled", MoveSets
      <3>. QED
        BY <3>2, <3>3 DEF Places, HandedOut
    <2>. QED
      BY <2>1, <2>2, <2>3 DEF Poller
  <1>2. FiniteJobs'
    BY <1>1 DEF FiniteJobs
  <1>3. UNCHANGED Life(n)!vars
    BY <1>1 DEF Life!vars, BusyWorkers, HandedOut
  <1>. QED
    BY <1>1, <1>2, <1>3 DEF LifeStep

\* The dispatcher.
LEMMA SchedulerStep ==
    ASSUME IInv, FiniteJobs, NEW n \in Owners, Scheduler(n)
    PROVE  LifeStep(n)
  <1>1. PICK j \in jobs[n]["scheduled"] : Dispatch(n, j)
    BY DEF Scheduler
  <1>2. JobsType /\ "scheduled" \in Places /\ "dispatched" \in Places
    BY DEF IInv, TypeOK, JobsType, Places
  <1>3. /\ Move(n, j, "scheduled", "dispatched") /\ UNCHANGED phase
        /\ phase[n] = "running" /\ Cardinality(jobs[n]["dispatched"]) <= BufferSize
    BY <1>1 DEF Dispatch
  <1>4. /\ jobs'[n]["scheduled"] = jobs[n]["scheduled"] \ {j}
        /\ jobs'[n]["dispatched"] = jobs[n]["dispatched"] \cup {j}
        /\ \A r \in Places \ {"scheduled", "dispatched"} : jobs'[n][r] = jobs[n][r]
        /\ \A m \in Owners : m # n => jobs'[m] = jobs[m]
    BY <1>2, <1>3, "scheduled" # "dispatched", MoveSets
  <1>5. /\ IsFiniteSet(jobs'[n]["dispatched"])
        /\ Cardinality(jobs'[n]["dispatched"]) = Cardinality(jobs[n]["dispatched"]) + 1
    <2>1. IsFiniteSet(jobs[n]["dispatched"]) /\ j \notin jobs[n]["dispatched"]
      BY <1>2, "scheduled" # "dispatched", Elsewhere DEF FiniteJobs, HandedOut
    <2>. QED
      BY <1>4, <2>1, AddJob, SMT
  <1>6. FiniteJobs'
    BY <1>4, <1>5 DEF FiniteJobs, HandedOut, Places
  <1>7. Life(n)!Dispatch
    BY <1>3, <1>4, <1>5 DEF Life!Dispatch, BusyWorkers, Places
  <1>. QED
    BY <1>3, <1>4, <1>6, <1>7 DEF LifeStep, Life!Next

\* A worker takes a job.
LEMMA TakeStep ==
    ASSUME IInv, FiniteJobs, NEW n \in Owners, NEW j, TakeJob(n, j)
    PROVE  LifeStep(n)
  <1>1. JobsType /\ "dispatched" \in Places /\ "requesting" \in Places
    BY DEF IInv, TypeOK, JobsType, Places
  <1>2. /\ Move(n, j, "dispatched", "requesting") /\ UNCHANGED phase
        /\ phase[n] # "down" /\ BusyWorkers(n) < WorkerCount
    BY DEF TakeJob, Alive
  <1>3. /\ jobs'[n]["dispatched"] = jobs[n]["dispatched"] \ {j}
        /\ jobs'[n]["requesting"] = jobs[n]["requesting"] \cup {j}
        /\ \A r \in Places \ {"dispatched", "requesting"} : jobs'[n][r] = jobs[n][r]
        /\ \A m \in Owners : m # n => jobs'[m] = jobs[m]
    BY <1>1, <1>2, "dispatched" # "requesting", MoveSets
  <1>4. j \in jobs[n]["dispatched"] /\ j \notin jobs[n]["requesting"]
    <2>1. j \in jobs[n]["dispatched"]
      BY <1>2 DEF Move
    <2>. QED
      BY <1>1, <2>1, "dispatched" # "requesting", Elsewhere
  <1>5. /\ IsFiniteSet(jobs'[n]["dispatched"])
        /\ Cardinality(jobs'[n]["dispatched"]) = Cardinality(jobs[n]["dispatched"]) - 1
        /\ IsFiniteSet(jobs'[n]["requesting"])
        /\ Cardinality(jobs'[n]["requesting"]) = Cardinality(jobs[n]["requesting"]) + 1
    <2>1. IsFiniteSet(jobs[n]["dispatched"]) /\ IsFiniteSet(jobs[n]["requesting"])
      BY DEF FiniteJobs, HandedOut
    <2>. QED
      BY <1>3, <1>4, <2>1, AddJob, RemoveJob, SMT
  <1>6. FiniteJobs'
    BY <1>3, <1>5 DEF FiniteJobs, HandedOut, Places
  <1>7. jobs'[n]["answering"] = jobs[n]["answering"]
    BY <1>3 DEF Places
  <1>8. /\ Cardinality(jobs[n]["dispatched"]) \in Nat /\ Cardinality(jobs'[n]["dispatched"]) \in Nat
        /\ Cardinality(jobs[n]["requesting"]) \in Nat /\ Cardinality(jobs[n]["answering"]) \in Nat
    BY <1>5, FS_CardinalityType, Counts
  <1>9. Life(n)!TakeJob
    BY <1>2, <1>5, <1>7, <1>8, SMT DEF Life!TakeJob, BusyWorkers
  <1>. QED
    BY <1>2, <1>3, <1>6, <1>9 DEF LifeStep, Life!Next

\* The endpoint receives the request: the worker stays busy.
LEMMA ReceiptStep ==
    ASSUME IInv, FiniteJobs, NEW n \in Owners, NEW j, EndpointReceives(n, j)
    PROVE  LifeStep(n)
  <1>1. JobsType /\ "requesting" \in Places /\ "answering" \in Places
    BY DEF IInv, TypeOK, JobsType, Places
  <1>2. Move(n, j, "requesting", "answering") /\ UNCHANGED phase /\ phase[n] # "down"
    BY DEF EndpointReceives
  <1>3. /\ jobs'[n]["requesting"] = jobs[n]["requesting"] \ {j}
        /\ jobs'[n]["answering"] = jobs[n]["answering"] \cup {j}
        /\ \A r \in Places \ {"requesting", "answering"} : jobs'[n][r] = jobs[n][r]
        /\ \A m \in Owners : m # n => jobs'[m] = jobs[m]
    BY <1>1, <1>2, "requesting" # "answering", MoveSets
  <1>4. j \in jobs[n]["requesting"] /\ j \notin jobs[n]["answering"]
    <2>1. j \in jobs[n]["requesting"]
      BY <1>2 DEF Move
    <2>. QED
      BY <1>1, <2>1, "requesting" # "answering", Elsewhere
  <1>5. /\ IsFiniteSet(jobs'[n]["requesting"])
        /\ Cardinality(jobs'[n]["requesting"]) = Cardinality(jobs[n]["requesting"]) - 1
        /\ IsFiniteSet(jobs'[n]["answering"])
        /\ Cardinality(jobs'[n]["answering"]) = Cardinality(jobs[n]["answering"]) + 1
    <2>1. IsFiniteSet(jobs[n]["requesting"]) /\ IsFiniteSet(jobs[n]["answering"])
      BY DEF FiniteJobs, HandedOut
    <2>. QED
      BY <1>3, <1>4, <2>1, AddJob, RemoveJob, SMT
  <1>6. FiniteJobs'
    BY <1>3, <1>5 DEF FiniteJobs, HandedOut, Places
  <1>7. BusyWorkers(n)' = BusyWorkers(n)
    BY <1>5, Counts, SMT DEF BusyWorkers
  <1>8. UNCHANGED Life(n)!vars
    BY <1>2, <1>3, <1>7 DEF Life!vars, Places
  <1>. QED
    BY <1>2, <1>3, <1>6, <1>8 DEF LifeStep

\* A worker has its result and is free again.
LEMMA OutcomeStep ==
    ASSUME IInv, FiniteJobs, NEW n \in Owners, NEW p \in {"requesting", "answering"}, NEW j,
           Outcome(n, j, p), phase[n] # "down"
    PROVE  LifeStep(n)
  <1>1. JobsType /\ p \in Places /\ p \in HandedOut /\ p # "dispatched"
    BY DEF IInv, TypeOK, JobsType, Places, HandedOut
  <1>2. Finish(n, j, p) /\ UNCHANGED phase /\ j \in jobs[n][p]
    BY DEF Outcome, Finish
  <1>3. /\ jobs'[n][p] = jobs[n][p] \ {j}
        /\ \A r \in Places \ {p} : jobs'[n][r] = jobs[n][r]
        /\ \A m \in Owners : m # n => jobs'[m] = jobs[m]
    BY <1>1, <1>2, FinishSets
  <1>4. /\ IsFiniteSet(jobs'[n][p])
        /\ Cardinality(jobs'[n][p]) = Cardinality(jobs[n][p]) - 1
    <2>1. IsFiniteSet(jobs[n][p])
      BY <1>1 DEF FiniteJobs
    <2>. QED
      BY <1>2, <1>3, <2>1, RemoveJob, SMT
  <1>5. FiniteJobs'
    BY <1>3, <1>4 DEF FiniteJobs, HandedOut, Places
  <1>6. /\ Cardinality(jobs[n]["requesting"]) \in Nat /\ Cardinality(jobs[n]["answering"]) \in Nat
        /\ Cardinality(jobs'[n][p]) \in Nat
    BY <1>4, Counts, FS_CardinalityType
  <1>7. BusyWorkers(n)' = BusyWorkers(n) - 1 /\ BusyWorkers(n) > 0
    <2>1. CASE p = "requesting"
      <3>1. jobs'[n]["answering"] = jobs[n]["answering"]
        BY <1>3, <2>1 DEF Places
      <3>. QED
        BY <1>4, <1>6, <2>1, <3>1, SMT DEF BusyWorkers
    <2>2. CASE p = "answering"
      <3>1. jobs'[n]["requesting"] = jobs[n]["requesting"]
        BY <1>3, <2>2 DEF Places
      <3>. QED
        BY <1>4, <1>6, <2>2, <3>1, SMT DEF BusyWorkers
    <2>. QED
      BY <2>1, <2>2
  <1>8. jobs'[n]["dispatched"] = jobs[n]["dispatched"]
    BY <1>1, <1>3 DEF Places
  <1>9. Life(n)!FinishJob
    BY <1>2, <1>7, <1>8 DEF Life!FinishJob
  <1>. QED
    BY <1>2, <1>3, <1>5, <1>9 DEF LifeStep, Life!Next

\* A process ends.
LEMMA EndStep ==
    ASSUME IInv, FiniteJobs, NEW n \in Owners, EndProcess(n), phase[n] # "down"
    PROVE  LifeStep(n)
  <1>1. /\ phase'[n] = "down"
        /\ \A p \in Places : jobs'[n][p] = {}
        /\ \A m \in Owners : m # n => phase'[m] = phase[m] /\ jobs'[m] = jobs[m]
    BY DEF EndProcess, NoJobs, IInv, TypeOK
  <1>2. IsFiniteSet({}) /\ Cardinality({}) = 0
    BY FS_EmptySet
  <1>3. FiniteJobs'
    BY <1>1, <1>2 DEF FiniteJobs, HandedOut, Places
  <1>4. jobs'[n]["dispatched"] = {} /\ BusyWorkers(n)' = 0
    <2>1. jobs'[n]["dispatched"] = {} /\ jobs'[n]["requesting"] = {} /\ jobs'[n]["answering"] = {}
      BY <1>1 DEF Places
    <2>. QED
      BY <1>2, <2>1, SMT DEF BusyWorkers
  <1>5. Life(n)!End
    BY <1>1, <1>2, <1>4 DEF Life!End
  <1>. QED
    BY <1>1, <1>3, <1>5 DEF LifeStep, Life!Next

\* Signals, the end of shutdown, restarts.
LEMMA PhaseStep ==
    ASSUME IInv, FiniteJobs, NEW n \in Owners, Stop(n) \/ CloseWorkQueue(n) \/ Restart(n)
    PROVE  LifeStep(n)
  <1>1. UNCHANGED jobs /\ \A m \in Owners : m # n => phase'[m] = phase[m]
    BY DEF Stop, CloseWorkQueue, Restart, IInv, TypeOK
  <1>2. FiniteJobs' /\ BusyWorkers(n)' = BusyWorkers(n)
    BY <1>1 DEF FiniteJobs, BusyWorkers
  <1>3. \/ phase[n] = "running" /\ phase'[n] = "stopping"
        \/ phase[n] = "stopping" /\ phase'[n] = "closed"
        \/ phase[n] = "down" /\ phase'[n] = "running"
    BY DEF Stop, CloseWorkQueue, Restart, IInv, TypeOK
  <1>4. Life(n)!Stop \/ Life(n)!Close \/ Life(n)!Start
    BY <1>1, <1>2, <1>3 DEF Life!Stop, Life!Close, Life!Start
  <1>. QED
    BY <1>1, <1>2, <1>3, <1>4 DEF LifeStep, Life!Next

-----------------------------------------------------------------------------
\* One step of one process.
LEMMA LivesStep ==
    ASSUME IInv, FiniteJobs, DownIsEmpty, NEW n \in Owners,
           Poller(n) \/ Scheduler(n) \/ Worker(n) \/ Lifetime(n) \/ Environment(n)
    PROVE  LifeStep(n)
  <1>1. CASE Worker(n)
    <2>1. ASSUME NEW p \in {"requesting", "answering"}, NEW j \in jobs[n][p],
                 \/ HandleSuccessfulDelivery(n, j, p)
                 \/ HandleRetryableFailure(n, j, p)
                 \/ HandlePermanentFailure(n, j, p)
          PROVE  LifeStep(n)
      <3>1. Outcome(n, j, p)
        BY <2>1, OutcomeEffect DEF IInv, TypeOK
      <3>2. phase[n] # "down"
        BY <2>1 DEF DownIsEmpty, Places
      <3>. QED
        BY <3>1, <3>2, OutcomeStep
    <2>. QED
      BY <1>1, <2>1, TakeStep DEF Worker
  <1>2. CASE Lifetime(n)
    <2>1. Exit(n) => EndProcess(n) /\ phase[n] # "down"
      BY DEF Exit
    <2>. QED
      BY <1>2, <2>1, EndStep, PhaseStep DEF Lifetime
  <1>3. CASE Environment(n)
    <2>1. Crash(n) \/ FailClaim(n) => EndProcess(n) /\ phase[n] # "down"
      BY DEF Crash, FailClaim, Alive
    <2>. QED
      BY <1>3, <2>1, EndStep, PhaseStep, ReceiptStep DEF Environment
  <1>. QED
    BY <1>1, <1>2, <1>3, PollerStep, SchedulerStep

\* Every step of the system is, for every process, a step of its life or none.
LEMMA EveryLifeSteps ==
    ASSUME IInv, FiniteJobs, DownIsEmpty, [Next]_vars
    PROVE  /\ FiniteJobs' /\ DownIsEmpty'
           /\ \A n \in Owners : [Life(n)!Next]_(Life(n)!vars)
  <1>1. ASSUME NEW m \in Owners, phase'[m] = phase[m], jobs'[m] = jobs[m]
        PROVE  UNCHANGED Life(m)!vars
    BY <1>1 DEF Life!vars, BusyWorkers
  <1>2. ASSUME NEW n \in Owners, LifeStep(n)
        PROVE  /\ FiniteJobs' /\ DownIsEmpty'
               /\ \A m \in Owners : [Life(m)!Next]_(Life(m)!vars)
    <2>1. DownIsEmpty'
      BY <1>2, SMT DEF LifeStep, DownIsEmpty
    <2>2. ASSUME NEW m \in Owners PROVE [Life(m)!Next]_(Life(m)!vars)
      <3>1. CASE m = n
        BY <1>2, <3>1 DEF LifeStep
      <3>2. CASE m # n
        BY <1>1, <1>2, <3>2 DEF LifeStep
      <3>. QED
        BY <3>1, <3>2
    <2>. QED
      BY <1>2, <2>1, <2>2 DEF LifeStep
  <1>3. CASE UNCHANGED <<phase, jobs>>
    BY <1>1, <1>3 DEF FiniteJobs, DownIsEmpty
  <1>4. CASE Accept \/ Tick \/ UNCHANGED vars
    BY <1>3, <1>4 DEF Accept, Tick, vars
  <1>. QED
    BY <1>2, <1>4, LivesStep DEF Next

\* Both facts about the memory of the processes hold throughout.
LEMMA MemoryInvariance == Spec => [](FiniteJobs /\ DownIsEmpty)
  <1>1. ASSUME Init PROVE FiniteJobs /\ DownIsEmpty
    <2>1. /\ \A n \in Owners : phase[n] = "running" /\ \A p \in Places : jobs[n][p] = {}
          /\ IsFiniteSet({})
      BY <1>1, FS_EmptySet DEF Init, NoJobs
    <2>. QED
      BY <2>1 DEF FiniteJobs, HandedOut, Places, DownIsEmpty
  <1>2. ASSUME IInv, FiniteJobs, DownIsEmpty, [Next]_vars PROVE FiniteJobs' /\ DownIsEmpty'
    BY <1>2, EveryLifeSteps
  <1>. QED
    BY <1>1, <1>2, Invariance, PTL DEF Spec

(***************************************************************************)
(* Each notifier process lives as ProcessLife says: it dispatches only     *)
(* while its context is live, never has more jobs out than the channel,    *)
(* the dispatcher and its WorkerCount workers hold, and loses them all     *)
(* when it ends.                                                           *)
(***************************************************************************)
THEOREM ProcessesLive == Spec => ImplementsProcessLife
  <1>1. ASSUME Init, NEW n \in Owners PROVE Life(n)!Init
    <2>1. phase[n] = "running" /\ \A p \in Places : jobs[n][p] = {}
      BY <1>1 DEF Init, NoJobs
    <2>2. jobs[n]["dispatched"] = {} /\ jobs[n]["requesting"] = {} /\ jobs[n]["answering"] = {}
      BY <2>1 DEF Places
    <2>3. Cardinality({}) = 0
      BY FS_EmptySet
    <2>4. BusyWorkers(n) = 0
      BY <2>2, <2>3, SMT DEF BusyWorkers
    <2>. QED
      BY <2>1, <2>2, <2>3, <2>4 DEF Life!Init
  <1>2. Init => \A n \in Owners : Life(n)!Init
    BY <1>1
  <1>3. ASSUME IInv, FiniteJobs, DownIsEmpty, [Next]_vars
        PROVE  [\A n \in Owners : [Life(n)!Next]_(Life(n)!vars)]_vars
    BY <1>3, EveryLifeSteps
  <1>. QED
    BY <1>2, <1>3, Invariance, MemoryInvariance, PTL DEF Spec, ImplementsProcessLife

-----------------------------------------------------------------------------
\* Without signals a process runs or is down.
NeverStopped == \A n \in Owners : phase[n] \in {"running", "down"}

\* A failure that goes to the dead letters, seen from the row.
LEMMA DeadLetterReason ==
    ASSUME IInv, DownIsEmpty, NeverStopped,
           NEW n \in Owners, NEW p \in {"requesting", "answering"}, NEW j \in jobs[n][p],
           NEW failure \in Deliver(n, p) \ {"success"}, failure = "retryable" => ~CanRetry(j.attempt)
    PROVE  failure = "permanent" \/ (failure = "retryable" /\ retryCount[j.row] = MaxRetryAttempts)
  <1>1. p \in Places /\ phase[n] = "running"
    BY DEF NeverStopped, DownIsEmpty, Places
  <1>2. failure \in {"retryable", "permanent"}
    BY <1>1 DEF Deliver
  <1>3. /\ j.row \in Rows /\ j.attempt = retryCount[j.row]
        /\ retryCount[j.row] <= MaxRetryAttempts /\ retryCount[j.row] \in Nat
    BY <1>1, SMT DEF IInv, TypeOK, QueueTypeOK, Job, JobsAreCurrent, ReceiptsFollowRetries
  <1>. QED
    BY <1>2, <1>3, NotifierAssumption, SMT DEF CanRetry

\* Steps of the table other than a dead letter.
LEMMA EarnedUntouched ==
    ASSUME IInv, DeadLettersAreEarned,
           UNCHANGED <<retryCount, lastError>>,
           \A i \in Rows : status'[i] = status[i] \/ status'[i] # "dead_lettered"
    PROVE  DeadLettersAreEarned'
  BY DEF DeadLettersAreEarned

\* No process that is never told to stop writes an unearned dead letter.
LEMMA EarnedStep ==
    ASSUME IInv, DownIsEmpty, NeverStopped, DeadLettersAreEarned, "stop" \notin FaultKinds,
           [Next]_vars
    PROVE  NeverStopped' /\ DeadLettersAreEarned'
  <1>0. /\ status \in [Rows -> Statuses] /\ retryCount \in [Rows -> Nat]
        /\ lastError \in [Rows -> Failures \cup {"none"}] /\ phase \in [Owners -> Phases]
    BY DEF IInv, TypeOK, QueueTypeOK
  <1>1. CASE Accept
    BY <1>0, <1>1, EarnedUntouched, SMT DEF Accept, EnqueueDeliveries, NeverStopped
  <1>2. CASE Tick \/ UNCHANGED vars
    BY <1>2, EarnedUntouched DEF Tick, vars, table, NeverStopped
  <1>3. ASSUME NEW n \in Owners, Poller(n) \/ Environment(n) \/ Lifetime(n) \/ Scheduler(n)
        PROVE  NeverStopped' /\ DeadLettersAreEarned'
    <2>1. NeverStopped'
      BY <1>0, <1>3 DEF NeverStopped, Poller, Environment, Lifetime, Scheduler, BeginClaim, CommitClaim,
         ScheduleJob, EndpointReceives, Crash, Stop, Fault, FailClaim, EndProcess, CloseWorkQueue,
         Exit, Restart, Dispatch
    <2>2. ClaimRows(locked[n], n) \/ UNCHANGED table
      BY <1>3 DEF Poller, Environment, Lifetime, Scheduler, BeginClaim, CommitClaim,
         ScheduleJob, EndpointReceives, Crash, Stop, FailClaim, CloseWorkQueue,
         Exit, Restart, Dispatch
    <2>3. DeadLettersAreEarned'
      BY <1>0, <2>2, EarnedUntouched DEF ClaimRows, table
    <2>. QED
      BY <2>1, <2>3
  <1>4. ASSUME NEW n \in Owners, Worker(n)
        PROVE  NeverStopped' /\ DeadLettersAreEarned'
    <2>1. ASSUME NEW j \in jobs[n]["dispatched"], TakeJob(n, j)
          PROVE  NeverStopped' /\ DeadLettersAreEarned'
      BY <2>1, EarnedUntouched DEF TakeJob, table, NeverStopped
    <2>2. ASSUME NEW p \in {"requesting", "answering"}, NEW j \in jobs[n][p],
                 \/ HandleSuccessfulDelivery(n, j, p)
                 \/ HandleRetryableFailure(n, j, p)
                 \/ HandlePermanentFailure(n, j, p)
          PROVE  NeverStopped' /\ DeadLettersAreEarned'
      <3>1. UNCHANGED phase
        BY <2>2 DEF HandleSuccessfulDelivery, HandleRetryableFailure, HandlePermanentFailure
      <3>. SUFFICES DeadLettersAreEarned'
        BY <3>1 DEF NeverStopped
      <3>2. j.row \in Rows /\ status[j.row] = "claimed"
        BY SMT DEF IInv, JobsAreCurrent, TypeOK, Job, Places
      <3>3. \/ UNCHANGED table
            \/ MarkDelivered(j.row)
            \/ MarkRetryPending(j.row, "retryable", now + NextDelay[j.attempt])
            \/ \E failure \in Deliver(n, p) \ {"success"} :
                  (failure = "retryable" => ~CanRetry(j.attempt)) /\ MarkDeadLetter(j.row, failure)
        BY <2>2 DEF HandleSuccessfulDelivery, HandleRetryableFailure, HandlePermanentFailure, Record
      <3>4. CASE UNCHANGED table \/ MarkDelivered(j.row)
        BY <1>0, <3>2, <3>4, EarnedUntouched DEF MarkDelivered, table, DeadLettersAreEarned
      <3>5. CASE MarkRetryPending(j.row, "retryable", now + NextDelay[j.attempt])
        BY <1>0, <3>2, <3>5 DEF MarkRetryPending, DeadLettersAreEarned
      <3>6. ASSUME NEW failure \in Deliver(n, p) \ {"success"},
                   failure = "retryable" => ~CanRetry(j.attempt), MarkDeadLetter(j.row, failure)
            PROVE  DeadLettersAreEarned'
        <4>1. \/ failure = "permanent"
              \/ failure = "retryable" /\ retryCount[j.row] = MaxRetryAttempts
          BY <3>6, DeadLetterReason
        <4>. QED
          BY <1>0, <3>2, <3>6, <4>1 DEF MarkDeadLetter, DeadLettersAreEarned
      <3>. QED
        BY <3>3, <3>4, <3>5, <3>6
    <2>. QED
      BY <1>4, <2>1, <2>2 DEF Worker
  <1>. QED
    BY <1>1, <1>2, <1>3, <1>4 DEF Next

(***************************************************************************)
(* While no process is told to stop, a delivery is dead-lettered only when *)
(* the endpoint refused it for good or the retries are used up, whatever   *)
(* crashes and database errors happen (worker_delivery.go).  A signal      *)
(* breaks it: the deliveries in flight fail with a context error, which is *)
(* not retryable.                                                          *)
(***************************************************************************)
THEOREM EarnedDeadLetters ==
    ASSUME "stop" \notin FaultKinds
    PROVE  Spec => []DeadLettersAreEarned
  <1>1. Init => NeverStopped /\ DeadLettersAreEarned
    BY DEF Init, QueueInit, NeverStopped, DeadLettersAreEarned
  <1>2. ASSUME IInv, DownIsEmpty, NeverStopped, DeadLettersAreEarned, [Next]_vars
        PROVE  NeverStopped' /\ DeadLettersAreEarned'
    BY <1>2, EarnedStep
  <1>. QED
    BY <1>1, <1>2, Invariance, MemoryInvariance, PTL DEF Spec

-----------------------------------------------------------------------------
\* What keeps every claimed row in memory when nothing fails.
NothingFails ==
    /\ \A n \in Owners : phase[n] = "running"
    /\ \A n \in Owners : locked[n] # {} => jobs[n]["batch"] = {}
    /\ ClaimedHasJob

\* Has a job of row i somewhere.
HasJob(i) == \E n \in Owners : \E p \in Places : \E j \in jobs[n][p] : j.row = i

\* A move keeps the job of every row.
LEMMA MoveKeepsHolders ==
    ASSUME JobsType, NEW n \in Owners, NEW p \in Places, NEW q \in Places, p # q, NEW j,
           Move(n, j, p, q), NEW i, HasJob(i)
    PROVE  HasJob(i)'
  <1>1. /\ j \in jobs[n][p]
        /\ \A m \in Owners : \A r \in Places : \A k :
              k \in jobs'[m][r] <=> \/ k \in jobs[m][r] /\ ~(m = n /\ r = p /\ k = j)
                                    \/ m = n /\ r = q /\ k = j
    BY MoveEffect, SMT DEF JobMoves
  <1>2. PICK m \in Owners, r \in Places : \E k \in jobs[m][r] : k.row = i
    BY DEF HasJob
  <1>3. PICK k \in jobs[m][r] : k.row = i
    BY <1>2
  <1>4. CASE m = n /\ r = p /\ k = j
    <2>1. j \in jobs'[n][q] /\ j.row = i
      BY <1>1, <1>3, <1>4
    <2>. QED
      BY <2>1 DEF HasJob
  <1>5. CASE ~(m = n /\ r = p /\ k = j)
    <2>1. k \in jobs'[m][r]
      BY <1>1, <1>5
    <2>. QED
      BY <1>3, <2>1 DEF HasJob
  <1>. QED
    BY <1>4, <1>5

\* A result ends the claim of its row, since its UPDATE cannot fail.
LEMMA OutcomeKeepsClaims ==
    ASSUME IInv, NothingFails, FaultKinds = {},
           NEW n \in Owners, NEW p \in {"requesting", "answering"}, NEW j \in jobs[n][p],
           \/ HandleSuccessfulDelivery(n, j, p)
           \/ HandleRetryableFailure(n, j, p)
           \/ HandlePermanentFailure(n, j, p)
    PROVE  NothingFails'
  <1>0. JobsType /\ p \in Places /\ p # "batch" /\ status \in [Rows -> Statuses]
    BY DEF IInv, TypeOK, QueueTypeOK, JobsType, Places
  <1>1. j.row \in Rows /\ UNCHANGED <<phase, locked>> /\ Finish(n, j, p)
    BY <1>0, SMT DEF HandleSuccessfulDelivery, HandleRetryableFailure, HandlePermanentFailure,
           JobsType, Job
  <1>2. /\ status'[j.row] # "claimed"
        /\ \A i \in Rows : i # j.row => status'[i] = status[i]
    BY <1>0, <1>1 DEF HandleSuccessfulDelivery, HandleRetryableFailure, HandlePermanentFailure,
           Record, Fault, NothingFails, MarkDelivered, MarkRetryPending, MarkDeadLetter
  <1>3. JobLeaves(n, j, p)
    BY <1>0, <1>1, FinishEffect
  <1>4. ASSUME NEW i \in Rows, status'[i] = "claimed" PROVE HasJob(i)'
    <2>1. i # j.row /\ status[i] = "claimed"
      BY <1>2, <1>4
    <2>2. PICK m \in Owners, r \in Places : \E k \in jobs[m][r] : k.row = i
      BY <2>1 DEF NothingFails, ClaimedHasJob
    <2>3. PICK k \in jobs[m][r] : k.row = i
      BY <2>2
    <2>4. k \in jobs'[m][r]
      BY <1>3, <2>1, <2>3 DEF JobLeaves
    <2>. QED
      BY <2>3, <2>4 DEF HasJob
  <1>5. \A m \in Owners : jobs'[m]["batch"] = jobs[m]["batch"]
    BY <1>0, <1>1, FinishSets, SMT DEF Places
  <1>. QED
    BY <1>1, <1>4, <1>5 DEF NothingFails, ClaimedHasJob, HasJob

\* The committed claim: exactly the rows it claims get a job.
LEMMA CommitKeepsClaims ==
    ASSUME IInv, NothingFails, NEW n \in Owners, CommitClaim(n)
    PROVE  NothingFails'
  <1>1. /\ locked[n] # {} /\ jobs[n]["batch"] = {} /\ UNCHANGED phase
        /\ status' = [i \in Rows |-> IF i \in locked[n] THEN "claimed" ELSE status[i]]
        /\ jobs' = [jobs EXCEPT ![n]["batch"] = ClaimedJobs(n)]
        /\ locked' = [locked EXCEPT ![n] = {}]
    BY DEF CommitClaim, ClaimRows, NothingFails
  <1>2. JobsType /\ locked \in [Owners -> SUBSET Rows] /\ "batch" \in Places
    BY DEF IInv, TypeOK, JobsType, Places
  <1>3. /\ jobs'[n]["batch"] = ClaimedJobs(n)
        /\ \A r \in Places : r # "batch" => jobs'[n][r] = jobs[n][r]
        /\ \A m \in Owners : m # n => jobs'[m] = jobs[m] /\ locked'[m] = locked[m]
        /\ locked'[n] = {}
    BY <1>1, <1>2 DEF JobsType
  <1>4. ASSUME NEW i \in Rows, status'[i] = "claimed" PROVE HasJob(i)'
    <2>1. CASE i \in locked[n]
      <3>1. [row |-> i, attempt |-> retryCount[i]] \in ClaimedJobs(n)
        BY <2>1 DEF ClaimedJobs
      <3>2. \E k \in jobs'[n]["batch"] : k.row = i
        BY <1>3, <3>1, SMT
      <3>. QED
        BY <1>2, <3>2 DEF HasJob
    <2>2. CASE i \notin locked[n]
      <3>1. status[i] = "claimed"
        BY <1>1, <1>4, <2>2
      <3>2. PICK m \in Owners, r \in Places : \E k \in jobs[m][r] : k.row = i
        BY <3>1 DEF NothingFails, ClaimedHasJob
      <3>3. \E k \in jobs'[m][r] : k.row = i
        BY <1>1, <1>3, <3>2
      <3>. QED
        BY <3>3 DEF HasJob
    <2>. QED
      BY <2>1, <2>2
  <1>. QED
    BY <1>1, <1>3, <1>4 DEF NothingFails, ClaimedHasJob, HasJob

\* Nothing but the claim and the results touches a claimed row.
LEMMA ClaimsStep ==
    ASSUME IInv, NothingFails, FaultKinds = {}, [Next]_vars
    PROVE  NothingFails'
  <1>0. JobsType /\ status \in [Rows -> Statuses]
    BY DEF IInv, TypeOK, QueueTypeOK, JobsType
  <1>1. CASE Accept
    BY <1>0, <1>1, SMT DEF Accept, EnqueueDeliveries, NothingFails, ClaimedHasJob
  <1>2. CASE Tick \/ UNCHANGED vars
    BY <1>2, SMT DEF Tick, vars, table, NothingFails, ClaimedHasJob
  <1>3. ASSUME NEW n \in Owners, BeginClaim(n) PROVE NothingFails'
    <2>1. UNCHANGED <<table, phase, jobs>> /\ jobs[n]["batch"] = {}
      BY <1>3 DEF BeginClaim
    <2>2. \A m \in Owners : m # n => locked'[m] = locked[m]
      BY <1>3 DEF BeginClaim, IInv, TypeOK
    <2>. QED
      BY <2>1, <2>2, SMT DEF NothingFails, ClaimedHasJob, table
  <1>4. ASSUME NEW n \in Owners, NEW p \in Places, NEW q \in Places \ {"batch"}, p # q, NEW j,
               Move(n, j, p, q), UNCHANGED <<table, phase, locked>>
        PROVE  NothingFails'
    <2>1. /\ jobs'[n][p] = jobs[n][p] \ {j}
          /\ jobs'[n][q] = jobs[n][q] \cup {j}
          /\ \A r \in Places \ {p, q} : jobs'[n][r] = jobs[n][r]
          /\ \A m \in Owners : m # n => jobs'[m] = jobs[m]
      BY <1>0, <1>4, MoveSets
    <2>2. \A m \in Owners : jobs[m]["batch"] = {} => jobs'[m]["batch"] = {}
      BY <1>4, <2>1 DEF Places, Move
    <2>3. ASSUME NEW i \in Rows, status'[i] = "claimed" PROVE HasJob(i)'
      <3>1. HasJob(i)
        BY <1>4, <2>3 DEF NothingFails, ClaimedHasJob, HasJob, table
      <3>. QED
        BY <1>0, <1>4, <3>1, MoveKeepsHolders
    <2>. QED
      BY <1>4, <2>2, <2>3 DEF NothingFails, ClaimedHasJob, HasJob
  <1>5. ASSUME NEW n \in Owners, Poller(n) PROVE NothingFails'
    <2>1. ASSUME NEW j, ScheduleJob(n, j) PROVE NothingFails'
      BY <1>4, <2>1, "batch" # "scheduled" DEF ScheduleJob, Places
    <2>. QED
      BY <1>3, <1>5, <2>1, CommitKeepsClaims DEF Poller
  <1>6. ASSUME NEW n \in Owners, Scheduler(n) PROVE NothingFails'
    BY <1>4, <1>6, "scheduled" # "dispatched" DEF Scheduler, Dispatch, Places
  <1>7. ASSUME NEW n \in Owners, Worker(n) PROVE NothingFails'
    <2>1. ASSUME NEW j, TakeJob(n, j) PROVE NothingFails'
      BY <1>4, <2>1, "dispatched" # "requesting" DEF TakeJob, Places
    <2>. QED
      BY <1>7, <2>1, OutcomeKeepsClaims DEF Worker
  <1>8. ASSUME NEW n \in Owners, Environment(n) \/ Lifetime(n) PROVE NothingFails'
    <2>1. ASSUME NEW j, EndpointReceives(n, j) PROVE NothingFails'
      BY <1>4, <2>1, "requesting" # "answering" DEF EndpointReceives, Places
    <2>2. ~(Crash(n) \/ Stop(n) \/ FailClaim(n) \/ Lifetime(n))
      BY DEF Crash, Stop, FailClaim, Fault, Lifetime, CloseWorkQueue, Exit, Restart, NothingFails
    <2>. QED
      BY <1>8, <2>1, <2>2 DEF Environment
  <1>. QED
    BY <1>1, <1>2, <1>5, <1>6, <1>7, <1>8, SMT DEF Next

(***************************************************************************)
(* When no process ends and no statement fails, "claimed" does mean that a *)
(* worker or its queue has the row: no claim is lost between the poller,   *)
(* the scheduler and the workers.  Nothing reclaims a row after a fault,   *)
(* so the assumption cannot be dropped.                                    *)
(***************************************************************************)
THEOREM ClaimsAreHeld ==
    ASSUME FaultKinds = {}
    PROVE  Spec => []ClaimedHasJob
  <1>1. Init => NothingFails
    BY DEF Init, QueueInit, NothingFails, ClaimedHasJob
  <1>2. ASSUME IInv, NothingFails, [Next]_vars PROVE NothingFails'
    BY <1>2, ClaimsStep
  <1>3. NothingFails => ClaimedHasJob
    BY DEF NothingFails
  <1>. QED
    BY <1>1, <1>2, <1>3, Invariance, PTL DEF Spec

-----------------------------------------------------------------------------
(***************************************************************************)
(* Back-pressure of claimAndSchedule.  The inductive invariant: a claim    *)
(* that is open was begun with room in the scheduled queue and no batch    *)
(* left over, and it locks no more rows than the LIMIT of its query.       *)
(***************************************************************************)
Room(n) ==
    /\ Cardinality(locked[n]) <= ClaimBatchSize
    /\ locked[n] # {} => /\ jobs[n]["batch"] = {}
                         /\ Cardinality(jobs[n]["scheduled"]) <= ScheduledQueueLimit - 1
    /\ Cardinality(jobs[n]["scheduled"]) + Cardinality(jobs[n]["batch"])
          <= ScheduledQueueLimit - 1 + ClaimBatchSize

QueueIsBounded == \A n \in Owners : Room(n)

\* The limit is a positive number, whatever the configuration says.
LEMMA LimitType == ScheduledQueueLimit \in Nat \ {0}
  <1> DEFINE w == IF WorkerCount <= 0 THEN 1 ELSE WorkerCount
             f == IF ScheduledQueueLimitFactor <= 0 THEN DefaultScheduledQueueLimitFactor
                                                    ELSE ScheduledQueueLimitFactor
  <1>1. w \in Nat \ {0} /\ f \in Nat \ {0}
    BY NotifierAssumption, SMT DEF DefaultScheduledQueueLimitFactor
  <1>2. \A x, y \in Nat \ {0} : x * y \in Nat \ {0}
    BY SMT
  <1>. QED
    BY <1>1, <1>2 DEF ScheduledQueueLimit

\* A process has finitely many jobs at a place: one per row at most.
LEMMA PlacesAreFinite ==
    ASSUME IInv, NEW n \in Owners, NEW p \in Places
    PROVE  IsFiniteSet(jobs[n][p]) /\ Cardinality(jobs[n][p]) \in Nat
  <1> DEFINE S == jobs[n][p]
             f == [j \in S |-> j.row]
  <1>1. \A j \in S : j.row \in Rows
    BY JobRows DEF IInv
  <1>2. f \in [S -> Rows]
    BY <1>1
  <1>3. \A j, k \in S : f[j] = f[k] => j = k
    <2>1. \A j, k \in S : j.row = k.row => j = k
      BY DEF IInv, OnePlace
    <2>. QED
      BY <2>1
  <1>4. f \in Injection(S, Rows)
    BY <1>2, <1>3 DEF Injection, IsInjective
  <1>. HIDE DEF f
  <1>5. IsFiniteSet(S)
    BY <1>4, FS_Injection, WorkQueueAssumption
  <1>. QED
    BY <1>5, FS_CardinalityType

(***************************************************************************)
(* The LIMIT of ClaimAvailableDeliveries: the order of the candidates is   *)
(* total, so their ranks differ, and only ClaimBatchSize ranks are small   *)
(* enough.                                                                 *)
(***************************************************************************)
LEMMA SelectionIsLimited ==
    ASSUME QueueTypeOK, NEW time \in Int, NEW L
    PROVE  /\ IsFiniteSet(SelectedRows(time, L))
           /\ Cardinality(SelectedRows(time, L)) <= ClaimBatchSize
  <1> DEFINE candidates == {i \in Rows : IsDue(i, time) /\ i \notin L}
             earlier(i) == {k \in candidates : Before(k, i)}
             S == SelectedRows(time, L)
             rank == [i \in S |-> Cardinality(earlier(i))]
  <1>1. S = {i \in candidates : Cardinality(earlier(i)) < ClaimBatchSize}
    BY DEF SelectedRows
  <1>2. \A i \in Rows : /\ earlier(i) \in SUBSET Rows
                        /\ IsFiniteSet(earlier(i))
                        /\ Cardinality(earlier(i)) \in Nat
    BY WorkQueueAssumption, FS_Subset, FS_CardinalityType
  <1>3. ASSUME NEW i \in candidates, NEW k \in candidates, Before(i, k)
        PROVE  Cardinality(earlier(i)) < Cardinality(earlier(k))
    <2>1. \A x \in candidates : x \in Int /\ availableAt[x] \in Int
      BY WorkQueueAssumption DEF QueueTypeOK
    <2>2. ~Before(i, i) /\ \A x \in candidates : Before(x, i) => Before(x, k)
      BY <1>3, <2>1, SMT DEF Before
    <2>3. earlier(i) \in SUBSET earlier(k) /\ i \in earlier(k) /\ i \notin earlier(i)
      BY <1>3, <2>2
    <2>4. /\ Cardinality(earlier(i)) <= Cardinality(earlier(k))
          /\ Cardinality(earlier(i)) # Cardinality(earlier(k))
      BY <1>2, <2>3, FS_Subset
    <2>5. Cardinality(earlier(i)) \in Nat /\ Cardinality(earlier(k)) \in Nat
      BY <1>2
    <2>. QED
      BY <2>4, <2>5, SMT
  <1>4. ASSUME NEW i \in S, NEW k \in S, rank[i] = rank[k] PROVE i = k
    <2>1. i \in candidates /\ k \in candidates /\ i \in Rows /\ k \in Rows
      BY <1>1
    <2>2. Cardinality(earlier(i)) = Cardinality(earlier(k)) /\ Cardinality(earlier(i)) \in Nat
      BY <1>2, <1>4, <2>1
    <2>3. ~Before(i, k) /\ ~Before(k, i)
      BY <1>3, <2>1, <2>2, SMT
    <2>4. i \in Int /\ k \in Int /\ availableAt[i] \in Int /\ availableAt[k] \in Int
      BY <2>1, WorkQueueAssumption DEF QueueTypeOK
    <2>. QED
      BY <2>3, <2>4, SMT DEF Before
  <1>5. rank \in Injection(S, 0 .. ClaimBatchSize - 1)
    <2>1. \A i \in S : Cardinality(earlier(i)) \in 0 .. ClaimBatchSize - 1
      <3>1. \A i \in S : Cardinality(earlier(i)) \in Nat /\ Cardinality(earlier(i)) < ClaimBatchSize
        BY <1>1, <1>2
      <3>2. \A x \in Nat : x < ClaimBatchSize => x \in 0 .. ClaimBatchSize - 1
        BY WorkQueueAssumption, SMT
      <3>. QED
        BY <3>1, <3>2
    <2>. QED
      BY <1>4, <2>1 DEF Injection, IsInjective
  <1>6. /\ IsFiniteSet(0 .. ClaimBatchSize - 1)
        /\ Cardinality(0 .. ClaimBatchSize - 1) = ClaimBatchSize
    <2>1. ClaimBatchSize - 1 \in Int /\ (0 > ClaimBatchSize - 1 => ClaimBatchSize = 0)
          /\ ClaimBatchSize - 1 - 0 + 1 = ClaimBatchSize
      BY WorkQueueAssumption, SMT
    <2>. QED
      BY <2>1, FS_Interval, SMT
  <1>0. S = SelectedRows(time, L)
    OBVIOUS
  <1>. HIDE DEF rank, S
  <1>7. IsFiniteSet(S) /\ Cardinality(S) <= Cardinality(0 .. ClaimBatchSize - 1)
    BY <1>5, <1>6, FS_Injection
  <1>. QED
    BY <1>0, <1>6, <1>7

\* A step that adds neither to the batch nor to the scheduled queue.
LEMMA LessKeepsRoom ==
    ASSUME IInv, NEW n \in Owners, Room(n),
           jobs'[n]["batch"] \in SUBSET jobs[n]["batch"],
           jobs'[n]["scheduled"] \in SUBSET jobs[n]["scheduled"],
           locked'[n] = locked[n] \/ locked'[n] = {}
    PROVE  Room(n)'
  <1>1. /\ IsFiniteSet(jobs[n]["batch"]) /\ Cardinality(jobs[n]["batch"]) \in Nat
        /\ IsFiniteSet(jobs[n]["scheduled"]) /\ Cardinality(jobs[n]["scheduled"]) \in Nat
    BY PlacesAreFinite DEF Places
  <1>2. /\ Cardinality(jobs'[n]["batch"]) <= Cardinality(jobs[n]["batch"])
        /\ IsFiniteSet(jobs'[n]["batch"])
        /\ Cardinality(jobs'[n]["scheduled"]) <= Cardinality(jobs[n]["scheduled"])
        /\ IsFiniteSet(jobs'[n]["scheduled"])
    BY <1>1, FS_Subset
  <1>3. Cardinality(jobs'[n]["batch"]) \in Nat /\ Cardinality(jobs'[n]["scheduled"]) \in Nat
    BY <1>2, FS_CardinalityType
  <1>4. Cardinality(locked'[n]) <= ClaimBatchSize
    <2>1. Cardinality({}) <= ClaimBatchSize
      BY FS_EmptySet, WorkQueueAssumption, SMT
    <2>. QED
      BY <2>1 DEF Room
  <1>5. /\ Cardinality(jobs[n]["scheduled"]) + Cardinality(jobs[n]["batch"])
              <= ScheduledQueueLimit - 1 + ClaimBatchSize
        /\ locked'[n] # {} => /\ jobs[n]["batch"] = {}
                              /\ Cardinality(jobs[n]["scheduled"]) <= ScheduledQueueLimit - 1
    BY DEF Room
  <1>6. ScheduledQueueLimit \in Nat \ {0} /\ ClaimBatchSize \in Nat
    BY LimitType, WorkQueueAssumption
  <1>7. Cardinality(jobs'[n]["scheduled"]) + Cardinality(jobs'[n]["batch"])
           <= ScheduledQueueLimit - 1 + ClaimBatchSize
    <2>1. \A s, b, t, c, limit, size \in Nat :
             s + b <= limit - 1 + size /\ t <= s /\ c <= b => t + c <= limit - 1 + size
      BY SMT
    <2>. QED
      BY <1>1, <1>2, <1>3, <1>5, <1>6, <2>1
  <1>8. locked'[n] # {} => /\ jobs'[n]["batch"] = {}
                           /\ Cardinality(jobs'[n]["scheduled"]) <= ScheduledQueueLimit - 1
    <2>1. \A s, t, limit \in Nat : s <= limit - 1 /\ t <= s => t <= limit - 1
      BY SMT
    <2>. QED
      BY <1>1, <1>2, <1>3, <1>5, <1>6, <2>1
  <1>. QED
    BY <1>4, <1>7, <1>8 DEF Room

\* The poller compares the depth of the queue with the limit, then locks rows.
LEMMA BeginKeepsRoom ==
    ASSUME IInv, NEW n \in Owners, Room(n), BeginClaim(n)
    PROVE  Room(n)'
  <1>1. /\ UNCHANGED jobs /\ locked'[n] = SelectedRows(now, AllLocked)
        /\ jobs[n]["batch"] = {} /\ ~ScheduledQueueIsFull(n)
    BY DEF BeginClaim, IInv, TypeOK
  <1>2. Cardinality(locked'[n]) <= ClaimBatchSize
    <2>1. QueueTypeOK /\ now \in Int
      BY SMT DEF IInv, TypeOK
    <2>. QED
      BY <1>1, <2>1, SelectionIsLimited
  <1>3. Cardinality(jobs[n]["scheduled"]) <= ScheduledQueueLimit - 1
    <2>1. Cardinality(jobs[n]["scheduled"]) \in Nat
      BY PlacesAreFinite DEF Places
    <2>2. ScheduledQueueLimit \in Nat
      BY LimitType
    <2>. QED
      BY <1>1, <2>1, <2>2, SMT DEF ScheduledQueueIsFull
  <1>. QED
    BY <1>1, <1>2, <1>3 DEF Room

\* The committed claim fills the empty batch with one job per locked row.
LEMMA CommitKeepsRoom ==
    ASSUME IInv, NEW n \in Owners, Room(n), CommitClaim(n)
    PROVE  Room(n)'
  <1>1. /\ locked[n] # {} /\ locked'[n] = {}
        /\ jobs'[n]["batch"] = ClaimedJobs(n)
        /\ jobs'[n]["scheduled"] = jobs[n]["scheduled"]
    BY DEF CommitClaim, IInv, TypeOK, Places
  <1>2. /\ Cardinality(locked[n]) \in Nat /\ IsFiniteSet(locked[n])
        /\ Cardinality(locked[n]) <= ClaimBatchSize
    <2>1. locked[n] \in SUBSET Rows
      BY DEF IInv, TypeOK
    <2>. QED
      BY <2>1, FS_Subset, FS_CardinalityType, WorkQueueAssumption DEF Room
  <1>3. IsFiniteSet(ClaimedJobs(n)) /\ Cardinality(ClaimedJobs(n)) <= Cardinality(locked[n])
    <2> DEFINE f == [i \in locked[n] |-> [row |-> i, attempt |-> retryCount[i]]]
    <2>1. f \in Surjection(locked[n], ClaimedJobs(n))
      BY DEF Surjection, ClaimedJobs
    <2>. HIDE DEF f
    <2>. QED
      BY <1>2, <2>1, FS_Surjection
  <1>4. Cardinality(jobs[n]["scheduled"]) \in Nat
    BY PlacesAreFinite DEF Places
  <1>5. Cardinality(jobs[n]["scheduled"]) <= ScheduledQueueLimit - 1
    BY <1>1 DEF Room
  <1>6. /\ Cardinality(ClaimedJobs(n)) \in Nat /\ ScheduledQueueLimit \in Nat /\ ClaimBatchSize \in Nat
        /\ Cardinality({}) <= ClaimBatchSize
    BY <1>3, FS_CardinalityType, FS_EmptySet, LimitType, WorkQueueAssumption, SMT
  <1>7. Cardinality(jobs[n]["scheduled"]) + Cardinality(ClaimedJobs(n))
           <= ScheduledQueueLimit - 1 + ClaimBatchSize
    <2>1. \A s, b, l, limit, size \in Nat :
             s <= limit - 1 /\ b <= l /\ l <= size => s + b <= limit - 1 + size
      BY SMT
    <2>. QED
      BY <1>2, <1>3, <1>4, <1>5, <1>6, <2>1
  <1>. QED
    BY <1>1, <1>6, <1>7 DEF Room

\* Enqueue of a job of the batch moves it into the scheduled queue.
LEMMA ScheduleKeepsRoom ==
    ASSUME IInv, NEW n \in Owners, Room(n), NEW j, ScheduleJob(n, j)
    PROVE  Room(n)'
  <1>1. JobsType /\ "batch" \in Places /\ "scheduled" \in Places
    BY DEF IInv, TypeOK, JobsType, Places
  <1>2. Move(n, j, "batch", "scheduled") /\ j \in jobs[n]["batch"] /\ UNCHANGED locked
    BY DEF ScheduleJob, Move
  <1>3. /\ jobs'[n]["batch"] = jobs[n]["batch"] \ {j}
        /\ jobs'[n]["scheduled"] = jobs[n]["scheduled"] \cup {j}
        /\ \A r \in Places \ {"batch", "scheduled"} : jobs'[n][r] = jobs[n][r]
        /\ \A m \in Owners : m # n => jobs'[m] = jobs[m]
    BY <1>1, <1>2, "batch" # "scheduled", MoveSets
  <1>4. j \notin jobs[n]["scheduled"]
    BY <1>1, <1>2, "batch" # "scheduled", Elsewhere
  <1>5. /\ IsFiniteSet(jobs[n]["batch"]) /\ Cardinality(jobs[n]["batch"]) \in Nat
        /\ IsFiniteSet(jobs[n]["scheduled"]) /\ Cardinality(jobs[n]["scheduled"]) \in Nat
    BY <1>1, PlacesAreFinite
  <1>6. /\ Cardinality(jobs'[n]["batch"]) = Cardinality(jobs[n]["batch"]) - 1
        /\ Cardinality(jobs'[n]["scheduled"]) = Cardinality(jobs[n]["scheduled"]) + 1
    BY <1>2, <1>3, <1>4, <1>5, AddJob, RemoveJob
  <1>7. \A s, b \in Nat : (s + 1) + (b - 1) = s + b
    BY SMT
  <1>8. Cardinality(jobs'[n]["scheduled"]) + Cardinality(jobs'[n]["batch"])
           = Cardinality(jobs[n]["scheduled"]) + Cardinality(jobs[n]["batch"])
    BY <1>5, <1>6, <1>7
  <1>. QED
    BY <1>2, <1>8 DEF Room

\* A job that leaves a place other than the batch, for a place other than these two.
LEMMA MoveKeepsRoom ==
    ASSUME IInv, NEW n \in Owners, Room(n), NEW j, NEW p \in Places \ {"batch"},
           NEW q \in Places \ {"batch", "scheduled"}, p # q, Move(n, j, p, q), UNCHANGED locked
    PROVE  Room(n)' /\ \A m \in Owners : m # n => jobs'[m] = jobs[m]
  <1>1. JobsType /\ p \in Places /\ q \in Places /\ "batch" \in Places /\ "scheduled" \in Places
    BY DEF IInv, TypeOK, JobsType, Places
  <1>2. /\ jobs'[n][p] = jobs[n][p] \ {j}
        /\ jobs'[n][q] = jobs[n][q] \cup {j}
        /\ \A r \in Places \ {p, q} : jobs'[n][r] = jobs[n][r]
        /\ \A m \in Owners : m # n => jobs'[m] = jobs[m]
    BY <1>1, MoveSets
  <1>3. jobs'[n]["batch"] = jobs[n]["batch"]
    BY <1>1, <1>2
  <1>4. jobs'[n]["scheduled"] \in SUBSET jobs[n]["scheduled"]
    <2>1. CASE p = "scheduled"
      BY <1>2, <2>1
    <2>2. CASE p # "scheduled"
      BY <1>1, <1>2, <2>2
    <2>. QED
      BY <2>1, <2>2
  <1>. QED
    BY <1>2, <1>3, <1>4, LessKeepsRoom

\* A result takes a job from a worker.
LEMMA OutcomeKeepsRoom ==
    ASSUME IInv, NEW n \in Owners, Room(n), NEW p \in {"requesting", "answering"}, NEW j,
           Outcome(n, j, p)
    PROVE  Room(n)' /\ UNCHANGED locked /\ \A m \in Owners : m # n => jobs'[m] = jobs[m]
  <1>1. /\ JobsType /\ p \in Places
        /\ "batch" \in Places \ {p} /\ "scheduled" \in Places \ {p}
    BY DEF IInv, TypeOK, JobsType, Places
  <1>2. Finish(n, j, p) /\ UNCHANGED locked
    BY DEF Outcome
  <1>3. /\ \A r \in Places \ {p} : jobs'[n][r] = jobs[n][r]
        /\ \A m \in Owners : m # n => jobs'[m] = jobs[m]
    BY <1>1, <1>2, FinishSets
  <1>. QED
    BY <1>1, <1>2, <1>3, LessKeepsRoom

\* A process that ends, or is told to stop, gives up its claim.
LEMMA EndKeepsRoom ==
    ASSUME IInv, NEW n \in Owners, Room(n), EndProcess(n) \/ Stop(n)
    PROVE  /\ Room(n)'
           /\ \A m \in Owners : m # n => jobs'[m] = jobs[m] /\ locked'[m] = locked[m]
  <1>1. locked'[n] = {} /\ \A m \in Owners : m # n => locked'[m] = locked[m]
    BY DEF EndProcess, Stop, IInv, TypeOK
  <1>2. /\ \A m \in Owners : m # n => jobs'[m] = jobs[m]
        /\ jobs'[n]["batch"] \in SUBSET jobs[n]["batch"]
        /\ jobs'[n]["scheduled"] \in SUBSET jobs[n]["scheduled"]
    <2>1. "batch" \in Places /\ "scheduled" \in Places /\ JobsType
      BY DEF Places, IInv, TypeOK, JobsType
    <2>2. CASE EndProcess(n)
      <3>1. jobs' = [jobs EXCEPT ![n] = NoJobs]
        BY <2>2 DEF EndProcess
      <3>. QED
        BY <2>1, <3>1 DEF JobsType, NoJobs
    <2>3. CASE Stop(n)
      BY <2>1, <2>3 DEF Stop, JobsType
    <2>. QED
      BY <2>2, <2>3
  <1>. QED
    BY <1>1, <1>2, LessKeepsRoom

\* Room is kept by every step of a process, which leaves the others alone.
LEMMA RoomStep ==
    ASSUME IInv, QueueIsBounded, NEW n \in Owners,
           Poller(n) \/ Scheduler(n) \/ Worker(n) \/ Lifetime(n) \/ Environment(n)
    PROVE  QueueIsBounded'
  <1>0. Room(n)
    BY DEF QueueIsBounded
  <1>1. SUFFICES /\ Room(n)'
                 /\ \A m \in Owners : m # n => jobs'[m] = jobs[m] /\ locked'[m] = locked[m]
    BY <1>1 DEF QueueIsBounded, Room
  <1> DEFINE Alone == \A m \in Owners : m # n => jobs'[m] = jobs[m] /\ locked'[m] = locked[m]
  <1>2. CASE Poller(n)
    <2>1. CASE BeginClaim(n)
      <3>1. Alone
        BY <2>1 DEF BeginClaim, IInv, TypeOK
      <3>. QED
        BY <1>0, <2>1, <3>1, BeginKeepsRoom
    <2>2. CASE CommitClaim(n)
      <3>1. Alone
        BY <2>2 DEF CommitClaim, IInv, TypeOK
      <3>. QED
        BY <1>0, <2>2, <3>1, CommitKeepsRoom
    <2>3. ASSUME NEW j, ScheduleJob(n, j) PROVE Room(n)' /\ Alone
      <3>1. Alone
        BY <2>3 DEF ScheduleJob, Move, IInv, TypeOK
      <3>. QED
        BY <1>0, <2>3, <3>1, ScheduleKeepsRoom
    <2>. QED
      BY <1>2, <2>1, <2>2, <2>3 DEF Poller
  <1>3. CASE Scheduler(n)
    <2>1. PICK j : Move(n, j, "scheduled", "dispatched") /\ UNCHANGED locked
      BY <1>3 DEF Scheduler, Dispatch
    <2>2. /\ "scheduled" \in Places \ {"batch"} /\ "dispatched" \in Places \ {"batch", "scheduled"}
          /\ "scheduled" # "dispatched"
      BY DEF Places
    <2>. QED
      BY <1>0, <2>1, <2>2, MoveKeepsRoom
  <1>4. CASE Worker(n)
    <2>1. ASSUME NEW j, TakeJob(n, j) PROVE Room(n)' /\ Alone
      <3>1. Move(n, j, "dispatched", "requesting") /\ UNCHANGED locked
        BY <2>1 DEF TakeJob
      <3>2. /\ "dispatched" \in Places \ {"batch"} /\ "requesting" \in Places \ {"batch", "scheduled"}
            /\ "dispatched" # "requesting"
        BY DEF Places
      <3>. QED
        BY <1>0, <3>1, <3>2, MoveKeepsRoom
    <2>2. ASSUME NEW p \in {"requesting", "answering"}, NEW j \in jobs[n][p],
                 \/ HandleSuccessfulDelivery(n, j, p)
                 \/ HandleRetryableFailure(n, j, p)
                 \/ HandlePermanentFailure(n, j, p)
          PROVE  Room(n)' /\ Alone
      <3>1. Outcome(n, j, p)
        BY <2>2, OutcomeEffect DEF IInv, TypeOK
      <3>. QED
        BY <1>0, <3>1, OutcomeKeepsRoom
    <2>. QED
      BY <1>4, <2>1, <2>2 DEF Worker
  <1>5. CASE Lifetime(n) \/ Crash(n) \/ Stop(n) \/ FailClaim(n)
    <2>1. CASE EndProcess(n) \/ Stop(n)
      BY <1>0, <2>1, EndKeepsRoom
    <2>2. CASE UNCHANGED <<locked, jobs>>
      BY <1>0, <2>2 DEF Room
    <2>. QED
      BY <1>5, <2>1, <2>2 DEF Lifetime, CloseWorkQueue, Exit, Restart, Crash, FailClaim
  <1>6. ASSUME NEW j, EndpointReceives(n, j) PROVE Room(n)' /\ Alone
    <2>1. Move(n, j, "requesting", "answering") /\ UNCHANGED locked
      BY <1>6 DEF EndpointReceives
    <2>2. /\ "requesting" \in Places \ {"batch"} /\ "answering" \in Places \ {"batch", "scheduled"}
          /\ "requesting" # "answering"
      BY DEF Places
    <2>. QED
      BY <1>0, <2>1, <2>2, MoveKeepsRoom
  <1>. QED
    BY <1>2, <1>3, <1>4, <1>5, <1>6 DEF Environment

(***************************************************************************)
(* Back-pressure for any configuration: although claimAndSchedule compares *)
(* the depth once and then enqueues a whole batch, and a crash or a stop   *)
(* may come in between, the scheduler of a process never holds as much as  *)
(* a batch more than its limit.                                            *)
(***************************************************************************)
THEOREM BackPressure == Spec => []ScheduledQueueBounded
  <1>1. Init => QueueIsBounded
    <2> SUFFICES ASSUME Init, NEW n \in Owners PROVE Room(n)
      BY DEF QueueIsBounded
    <2>1. locked[n] = {} /\ jobs[n]["batch"] = {} /\ jobs[n]["scheduled"] = {}
      BY DEF Init, NoJobs, Places
    <2>2. /\ Cardinality({}) <= ClaimBatchSize
          /\ Cardinality({}) + Cardinality({}) <= ScheduledQueueLimit - 1 + ClaimBatchSize
      BY FS_EmptySet, LimitType, WorkQueueAssumption, SMT
    <2>. QED
      BY <2>1, <2>2 DEF Room
  <1>2. IInv /\ QueueIsBounded /\ [Next]_vars => QueueIsBounded'
    <2> SUFFICES ASSUME IInv, QueueIsBounded, [Next]_vars PROVE QueueIsBounded'
      OBVIOUS
    <2>1. CASE UNCHANGED <<locked, jobs>>
      BY <2>1 DEF QueueIsBounded, Room
    <2>. QED
      BY <2>1, RoomStep DEF Next, Accept, Tick, vars
  <1>3. QueueIsBounded => ScheduledQueueBounded
    BY DEF QueueIsBounded, Room, ScheduledQueueBounded
  <1>. QED
    BY <1>1, <1>2, <1>3, Invariance, PTL DEF Spec

-----------------------------------------------------------------------------
(***************************************************************************)
(* Pipeline, the processes together with the HTTP handlers that fill their *)
(* table.  To a process the handlers are the step Accept: they store a few *)
(* new rows at a time, never none, while some process serves HTTP.         *)
(***************************************************************************)

\* What the handlers know of an event they are about to store.
HandlersTypeOK ==
    /\ registry \in [Customers -> SUBSET Urls]
    /\ body \in [Requests -> Seq(Handlers!Event)]
    /\ resolved \in [Requests -> Seq((SUBSET Urls) \ {{}})]
    /\ \A r \in Requests : handler[r] = "storing" => resolved[r] # <<>>

AllRunning == \A n \in Owners : phase[n] = "running"

\* A handler goes on to store an event only with the URLs it resolved for it.
LEMMA HandlersType ==
    ASSUME HandlersTypeOK, [Handlers!Next]_(Handlers!vars)
    PROVE  HandlersTypeOK'
  <1>1. CASE \E c \in Customers, S \in SUBSET Urls : Handlers!ChangeRegistry(c, S)
    BY <1>1 DEF HandlersTypeOK, Handlers!ChangeRegistry, Handlers!requestVars
  <1>2. ASSUME NEW r \in Requests, NEW b \in Bodies, Handlers!Decode(r, b) PROVE HandlersTypeOK'
    <2>1. b \in Seq(Handlers!Event)
      BY <1>2, PipelineAssumption DEF Handlers!Decode
    <2>2. /\ body' = [body EXCEPT ![r] = b]
          /\ handler' = [handler EXCEPT ![r] = "looping"]
          /\ UNCHANGED <<registry, resolved>>
      BY <1>2 DEF Handlers!Decode
    <2>3. body' \in [Requests -> Seq(Handlers!Event)]
      BY <2>1, <2>2 DEF HandlersTypeOK
    <2>4. \A q \in Requests : handler'[q] = "storing" => handler[q] = "storing"
      BY <2>2, SMT
    <2>. QED
      BY <2>2, <2>3, <2>4 DEF HandlersTypeOK
  <1>3. ASSUME NEW r \in Requests, Handlers!ResolveWebhookURLs(r) PROVE HandlersTypeOK'
    <2> DEFINE U == registry[body[r][Len(resolved[r]) + 1].customerId]
    <2>1. /\ resolved' = [resolved EXCEPT ![r] = Append(@, U)]
          /\ handler' = [handler EXCEPT ![r] = "storing"]
          /\ U # {}
          /\ UNCHANGED <<registry, body>>
          /\ Len(resolved[r]) + 1 <= Len(body[r])
      BY <1>3 DEF Handlers!ResolveWebhookURLs, Handlers!CurrentEvent, Handlers!Position,
                  Handlers!IsRegistered, Handlers!HasEvent
    <2>2. body[r] \in Seq(Handlers!Event) /\ resolved[r] \in Seq((SUBSET Urls) \ {{}})
      BY DEF HandlersTypeOK
    <2>3. body[r][Len(resolved[r]) + 1] \in Handlers!Event
      BY <2>1, <2>2, SMT
    <2>4. U \in (SUBSET Urls) \ {{}}
      <3>1. body[r][Len(resolved[r]) + 1].customerId \in Customers
        BY <2>3, SMT DEF Handlers!Event
      <3>. QED
        BY <2>1, <3>1 DEF HandlersTypeOK
    <2>. HIDE DEF U
    <2>5. Append(resolved[r], U) \in Seq((SUBSET Urls) \ {{}}) /\ Append(resolved[r], U) # <<>>
      BY <2>2, <2>4, SMT
    <2>6. resolved' \in [Requests -> Seq((SUBSET Urls) \ {{}})] /\ resolved'[r] = Append(resolved[r], U)
      BY <2>1, <2>5 DEF HandlersTypeOK
    <2>7. \A q \in Requests \ {r} : resolved'[q] = resolved[q] /\ (handler'[q] = "storing" => handler[q] = "storing")
      BY <2>1, SMT DEF HandlersTypeOK
    <2>. QED
      BY <2>1, <2>5, <2>6, <2>7 DEF HandlersTypeOK
  <1>4. ASSUME NEW r \in Requests,
               \/ Handlers!RefuseBody(r) \/ Handlers!RejectEvent(r) \/ Handlers!FailResolve(r)
               \/ Handlers!RejectCustomer(r) \/ Handlers!EnqueueDeliveries(r)
               \/ Handlers!FailEnqueue(r) \/ Handlers!Accept(r)
        PROVE  HandlersTypeOK'
    <2>1. /\ UNCHANGED <<registry, body, resolved>>
          /\ \/ handler' = [handler EXCEPT ![r] = "answered"]
             \/ handler' = [handler EXCEPT ![r] = "looping"]
      BY <1>4 DEF Handlers!RefuseBody, Handlers!RejectEvent, Handlers!FailResolve, Handlers!RejectCustomer,
                  Handlers!EnqueueDeliveries, Handlers!FailEnqueue, Handlers!Accept, Handlers!Respond
    <2>2. \A q \in Requests : handler'[q] = "storing" => handler[q] = "storing"
      <3>1. CASE handler' = [handler EXCEPT ![r] = "answered"]
        BY <3>1, SMT
      <3>2. CASE handler' = [handler EXCEPT ![r] = "looping"]
        BY <3>2, SMT
      <3>. QED
        BY <2>1, <3>1, <3>2
    <2>. QED
      BY <2>1, <2>2 DEF HandlersTypeOK
  <1>5. CASE UNCHANGED Handlers!vars
    BY <1>5 DEF HandlersTypeOK, Handlers!vars, Handlers!requestVars
  <1>. QED
    BY <1>1, <1>2, <1>3, <1>4, <1>5 DEF Handlers!Next, Handlers!Handle

\* Without faults that end processes, every process keeps running.
LEMMA RunningStep ==
    ASSUME FaultKinds \subseteq {"update"}, AllRunning, ProcessStep
    PROVE  AllRunning'
  <1>1. ASSUME NEW n \in Owners, Lifetime(n) PROVE FALSE
    BY <1>1 DEF Lifetime, CloseWorkQueue, Exit, Restart, AllRunning
  <1>2. ASSUME NEW n \in Owners, Environment(n) PROVE UNCHANGED phase
    BY <1>2 DEF Environment, EndpointReceives, Crash, Stop, FailClaim, Fault
  <1>3. ASSUME NEW n \in Owners, Poller(n) \/ Scheduler(n) \/ Worker(n) PROVE UNCHANGED phase
    BY <1>3 DEF Poller, BeginClaim, CommitClaim, ScheduleJob, Scheduler, Dispatch, Worker, TakeJob,
                HandleSuccessfulDelivery, HandleRetryableFailure, HandlePermanentFailure
  <1>4. UNCHANGED phase
    BY <1>1, <1>2, <1>3 DEF ProcessStep, Tick
  <1>. QED
    BY <1>4 DEF AllRunning

\* An event has at least one row, and no more than there are URLs.
LEMMA EventRowsBounded ==
    ASSUME HandlersTypeOK, NEW r \in Requests, handler[r] = "storing"
    PROVE  /\ Cardinality(Handlers!EventRows(r)) \in Nat \ {0}
           /\ Cardinality(Handlers!EventRows(r)) <= MaxUrlsPerEvent
  <1> DEFINE k == Len(resolved[r])
             U == resolved[r][k]
             f == [u \in U |-> [request |-> r, event |-> k, url |-> u]]
             E == Handlers!EventRows(r)
  <1>1. E = {[request |-> r, event |-> k, url |-> u] : u \in U}
    BY DEF Handlers!EventRows
  <1>2. U \in SUBSET Urls /\ U # {}
    <2>1. resolved[r] \in Seq((SUBSET Urls) \ {{}}) /\ resolved[r] # <<>>
      BY DEF HandlersTypeOK
    <2>2. U \in (SUBSET Urls) \ {{}}
      BY <2>1, SMT
    <2>. QED
      BY <2>2
  <1>. HIDE DEF k, U, E
  <1>3. f \in Surjection(U, E)
    <2>1. f \in [U -> E]
      BY <1>1
    <2>2. \A e \in E : \E u \in U : f[u] = e
      BY <1>1
    <2>. QED
      BY <2>1, <2>2 DEF Surjection
  <1>. HIDE DEF f
  <1>4. IsFiniteSet(U) /\ Cardinality(U) <= Cardinality(Urls)
    BY <1>2, PipelineAssumption, FS_Subset
  <1>5. IsFiniteSet(E) /\ Cardinality(E) <= Cardinality(U)
    BY <1>3, <1>4, FS_Surjection
  <1>6. Cardinality(E) # 0
    <2>1. E # {}
      BY <1>1, <1>2
    <2>. QED
      BY <1>5, <2>1, FS_EmptySet
  <1>7. Cardinality(E) \in Nat /\ Cardinality(U) \in Nat /\ Cardinality(Urls) \in Nat
    BY <1>4, <1>5, PipelineAssumption, FS_CardinalityType
  <1>8. Cardinality(Urls) <= MaxUrlsPerEvent /\ MaxUrlsPerEvent \in Nat
    BY PipelineAssumption, NotifierAssumption
  <1>9. Cardinality(E) \in Nat \ {0} /\ Cardinality(E) <= MaxUrlsPerEvent
    BY <1>4, <1>5, <1>6, <1>7, <1>8, SMT
  <1>. QED
    BY <1>9 DEF E

\* The transaction of EnqueueDeliveries, seen from the processes.
LEMMA InsertEffect ==
    ASSUME HandlersTypeOK, NEW r \in Requests, handler[r] = "storing", InsertRows(r)
    PROVE  /\ \E S \in SUBSET Rows : /\ S # {} /\ Cardinality(S) <= MaxUrlsPerEvent
                                     /\ EnqueueDeliveries(S, now)
           /\ UNCHANGED <<now, phase, locked, jobs, received, faults>>
  <1> DEFINE E == Handlers!EventRows(r)
             ids == NextIds(Cardinality(E))
  <1>1. /\ Cardinality(ids) = Cardinality(E)
        /\ EnqueueDeliveries(ids, now)
        /\ UNCHANGED <<now, phase, locked, jobs, received, faults>>
    BY DEF InsertRows
  <1>2. ids \in SUBSET Rows
    BY DEF NextIds
  <1>3. Cardinality(E) # 0 /\ Cardinality(E) <= MaxUrlsPerEvent
    BY EventRowsBounded
  <1>. HIDE DEF E, ids
  <1>4. ids # {}
    <2>1. Cardinality({}) = 0
      BY FS_EmptySet
    <2>. QED
      BY <1>1, <1>3, <2>1
  <1>. QED
    BY <1>1, <1>2, <1>3, <1>4

\* To the processes a step of the pipeline is one of theirs, or Accept.
LEMMA PipelineStep ==
    ASSUME Owners # {}, AllRunning, HandlersTypeOK, [PipelineNext]_pipelineVars
    PROVE  [Next]_vars
  <1>1. ASSUME NEW r \in Requests, StoreEvent(r) PROVE Accept
    <2>1. /\ \E S \in SUBSET Rows : /\ S # {} /\ Cardinality(S) <= MaxUrlsPerEvent
                                    /\ EnqueueDeliveries(S, now)
          /\ UNCHANGED <<now, phase, locked, jobs, received, faults>>
      BY <1>1, InsertEffect DEF StoreEvent
    <2>2. \E n \in Owners : phase[n] \in {"running", "stopping"}
      BY DEF AllRunning
    <2>. QED
      BY <2>1, <2>2 DEF Accept
  <1>2. CASE ProcessStep
    BY <1>2 DEF ProcessStep, Next
  <1>. QED
    BY <1>1, <1>2 DEF PipelineNext, Handle, OutsideStep, pipelineVars, Next

\* To the handlers it is one of theirs, or nothing.
LEMMA HandlersStep ==
    ASSUME HandlersTypeOK, [PipelineNext]_pipelineVars
    PROVE  [Handlers!Next]_(Handlers!vars)
  <1>1. ASSUME NEW r \in Requests, StoreEvent(r) PROVE Handlers!Next
    BY <1>1 DEF StoreEvent, Handlers!Next, Handlers!Handle
  <1>2. CASE ProcessStep \/ UNCHANGED pipelineVars
    BY <1>2 DEF ProcessStep, pipelineVars, ingestVars, Handlers!vars, Handlers!requestVars
  <1>3. ASSUME NEW r \in Requests, Handlers!Handle(r) PROVE Handlers!Next
    BY <1>3 DEF Handlers!Next
  <1>. QED
    BY <1>1, <1>2, <1>3 DEF PipelineNext, Handle, OutsideStep

\* The types hold when the pipeline starts.
LEMMA PipelineStart ==
    PipelineInit => Init /\ Handlers!Init /\ HandlersTypeOK /\ AllRunning
  <1> SUFFICES ASSUME PipelineInit PROVE HandlersTypeOK /\ AllRunning /\ Init /\ Handlers!Init
    OBVIOUS
  <1>1. AllRunning
    BY DEF PipelineInit, Init, AllRunning
  <1>2. HandlersTypeOK
    <2>1. \A S : <<>> \in Seq(S)
      BY SMT
    <2>. QED
      BY <2>1 DEF PipelineInit, Handlers!Init, HandlersTypeOK
  <1>. QED
    BY <1>1, <1>2 DEF PipelineInit

(***************************************************************************)
(* The handlers of the pipeline are those of Ingest: every theorem of      *)
(* IngestProofs holds of the requests the notifier processes serve, with   *)
(* the origins of the stored rows for the rows.                            *)
(***************************************************************************)
THEOREM PipelineHandlers == PipelineSpec => Handlers!Spec
  <1>1. HandlersTypeOK /\ [PipelineNext]_pipelineVars => [Handlers!Next]_(Handlers!vars) /\ HandlersTypeOK'
    BY HandlersStep, HandlersType
  <1>. QED
    BY <1>1, PipelineStart, PTL DEF PipelineSpec, Handlers!Spec

(***************************************************************************)
(* The processes of the pipeline are those of Notifier, as long as none of *)
(* them ends: the rows the handlers store one event at a time are rows     *)
(* that Accept stores.                                                     *)
(***************************************************************************)
THEOREM PipelineProcesses ==
    ASSUME FaultKinds \subseteq {"update"}, Owners # {}
    PROVE  PipelineSpec => Spec
  <1>1. HandlersTypeOK /\ [PipelineNext]_pipelineVars => HandlersTypeOK'
    BY HandlersStep, HandlersType
  <1>2. AllRunning /\ HandlersTypeOK /\ [PipelineNext]_pipelineVars => [Next]_vars
    BY PipelineStep
  <1>3. AllRunning /\ HandlersTypeOK /\ [PipelineNext]_pipelineVars => AllRunning'
    <2> SUFFICES ASSUME AllRunning, HandlersTypeOK, [PipelineNext]_pipelineVars PROVE AllRunning'
      OBVIOUS
    <2>1. CASE ProcessStep
      BY <2>1, RunningStep
    <2>2. CASE ~ProcessStep
      <3>1. UNCHANGED phase
        BY <2>2, InsertEffect DEF PipelineNext, Handle, StoreEvent, OutsideStep, pipelineVars, vars
      <3>. QED
        BY <3>1 DEF AllRunning
    <2>. QED
      BY <2>1, <2>2
  <1>. QED
    BY <1>1, <1>2, <1>3, PipelineStart, PTL DEF PipelineSpec, Spec

(***************************************************************************)
(* So what is proved of the processes holds while requests come in, event  *)
(* by event: without faults dead letters are earned, claimed rows have a   *)
(* job, and the scheduled queue stays below its limit plus a batch.        *)
(***************************************************************************)
THEOREM PipelineIsSafe ==
    ASSUME FaultKinds = {}, Owners # {}
    PROVE  PipelineSpec => [](DeadLettersAreEarned /\ ClaimedHasJob /\ ScheduledQueueBounded)
  <1>1. PipelineSpec => Spec
    BY PipelineProcesses
  <1>2. Spec => []DeadLettersAreEarned
    BY EarnedDeadLetters
  <1>3. Spec => []ClaimedHasJob
    BY ClaimsAreHeld
  <1>. QED
    BY <1>1, <1>2, <1>3, BackPressure, PTL
=============================================================================

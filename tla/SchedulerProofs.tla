--------------------------- MODULE SchedulerProofs ---------------------------
(***************************************************************************)
(* Proofs about RoundRobinScheduler, for any jobs, customers and capacity: *)
(* types, the rotation, the queue depth, round-robin fairness, and that    *)
(* the scheduler implements JobPool; they use only SchedulerAssumption.    *)
(* Then proofs about the benchmark runs of FairnessRun that drive it:      *)
(* where a job is in a run, and how fair the starts of the jobs are.       *)
(***************************************************************************)
EXTENDS FairnessRun, FiniteSetTheorems, TLAPS

(***************************************************************************)
(* Most leaves are first-order reasoning for Zenon; a leaf that needs      *)
(* arithmetic, functions or records cites SMT.                             *)
(***************************************************************************)
USE Zenon

\* A job is in one place at a time, in the queue of its own customer.
OnePlace ==
    /\ \A c \in DOMAIN customerQueues : \A i \in DOMAIN customerQueues[c] :
          CustomerOf[customerQueues[c][i]] = c
    /\ \A c \in DOMAIN customerQueues : \A i, k \in DOMAIN customerQueues[c] :
          customerQueues[c][i] = customerQueues[c][k] => i = k
    /\ \A i, k \in DOMAIN output : output[i] = output[k] => i = k
    /\ Queued \cap held = {}
    /\ Queued \cap InChannel = {}
    /\ held \cap InChannel = {}

\* The dispatcher holds a job exactly while it sends; the channel has its capacity.
HandAndChannel ==
    /\ dispatcher = "sending" => \E j \in Jobs : held = {j}
    /\ dispatcher # "sending" => held = {}
    /\ Len(output) <= BufferSize

\* How many of N customers a scan from index next visits before position i.
Ahead(i, next, N) == IF i > next THEN i - 1 - next ELSE i - 1 - next + N

Distance(i) == Ahead(i, nextCustomerIndex, Len(customerOrder))

(***************************************************************************)
(* Every dequeue that passes over a waiting customer brings the pointer    *)
(* nearer to it, by at least one; that pays for the growth of bypassed.    *)
(***************************************************************************)
BypassIsPaid ==
    /\ \A i \in DOMAIN customerOrder :
          HasJobs(customerOrder[i]) =>
              bypassed[customerOrder[i]] + Distance(i) <= Len(customerOrder) - 1
    /\ \A c \in Customers : QueueOf(c) = <<>> => bypassed[c] = 0

DepthIsExact ==
    /\ IsFiniteSet(Queued)
    /\ queuedJobCount = Cardinality(Queued)

IInv ==
    /\ TypeOK
    /\ RotationMatchesQueues
    /\ OnePlace
    /\ HandAndChannel
    /\ BypassIsPaid
    /\ DepthIsExact

-----------------------------------------------------------------------------
\* The remainder that ScannedIndex computes never wraps more than once.
LEMMA OneWrap ==
    ASSUME NEW L \in Nat \ {0}, NEW x \in 0 .. 2 * L - 1
    PROVE  /\ x < L => x % L = x
           /\ x >= L => x % L = x - L
  BY SMT

\* The pointer moves past the served customer, or back to the first one.
LEMMA NextPosition ==
    ASSUME NEW L \in Nat \ {0}, NEW p \in 0 .. L - 1
    PROVE  (p + 1) % L = IF p + 1 < L THEN p + 1 ELSE 0
  BY SMT

\* Where the scan of dequeueNextJobLocked is after offset customers.
LEMMA ScanPosition ==
    ASSUME TypeOK, RotationMatchesQueues, NEW offset \in 0 .. Len(customerOrder) - 1
    PROVE  /\ ScannedIndex(offset) \in 0 .. Len(customerOrder) - 1
           /\ ScannedIndex(offset) = IF nextCustomerIndex + offset < Len(customerOrder)
                                       THEN nextCustomerIndex + offset
                                       ELSE nextCustomerIndex + offset - Len(customerOrder)
           /\ ScannedCustomer(offset) \in DOMAIN customerQueues
  <1>1. Len(customerOrder) \in Nat \ {0}
    BY SMT DEF TypeOK
  <1>2. nextCustomerIndex \in 0 .. Len(customerOrder) - 1
    BY <1>1, SMT DEF TypeOK, RotationMatchesQueues
  <1>3. nextCustomerIndex + offset \in 0 .. 2 * Len(customerOrder) - 1
    BY <1>1, <1>2, SMT
  <1>4. ScannedIndex(offset) = IF nextCustomerIndex + offset < Len(customerOrder)
                                       THEN nextCustomerIndex + offset
                                       ELSE nextCustomerIndex + offset - Len(customerOrder)
    BY <1>1, <1>2, <1>3, OneWrap, SMT DEF ScannedIndex
  <1>5. ScannedIndex(offset) \in 0 .. Len(customerOrder) - 1
    BY <1>1, <1>2, <1>4, SMT
  <1>6. ScannedCustomer(offset) \in DOMAIN customerQueues
    BY <1>5, SMT DEF ScannedCustomer, TypeOK, RotationMatchesQueues
  <1>. QED
    BY <1>4, <1>5, <1>6

-----------------------------------------------------------------------------
\* What Enqueue does to the queues: the job is the last of its customer's.
IsEnqueued(added, c) ==
    /\ c \in Customers
    /\ DOMAIN customerQueues' = DOMAIN customerQueues \cup {c}
    /\ QueueOf(c) \in Seq(Jobs)
    /\ (customerQueues')[c] = Append(QueueOf(c), added)
    /\ \A d \in DOMAIN customerQueues :
          /\ customerQueues[d] \in Seq(Jobs)
          /\ d # c => (customerQueues')[d] = customerQueues[d]
    /\ Queued' = Queued \cup {added}

\* Enqueue does that, for the customer of the job.
LEMMA EnqueueEffect ==
    ASSUME TypeOK, NEW added \in Jobs, Enqueue(added)
    PROVE  IsEnqueued(added, CustomerOf[added])
  <1> DEFINE c == CustomerOf[added]
  <1>1. c \in Customers
    BY SchedulerAssumption
  <1>2. DOMAIN customerQueues' = DOMAIN customerQueues \cup {c}
    BY DEF Enqueue
  <1>3. \A d \in DOMAIN customerQueues : customerQueues[d] \in Seq(Jobs)
    BY DEF TypeOK
  <1>4. QueueOf(c) \in Seq(Jobs)
    BY <1>3, SMT DEF QueueOf
  <1>5. (customerQueues')[c] = Append(QueueOf(c), added)
    BY DEF Enqueue
  <1>6. \A d \in DOMAIN customerQueues : d # c => (customerQueues')[d] = customerQueues[d]
    BY DEF Enqueue
  <1>7. Queued' = Queued \cup {added}
    <2>1. ASSUME NEW j \in Queued' PROVE j \in Queued \cup {added}
      <3>0. PICK d \in DOMAIN customerQueues' : \E i \in DOMAIN (customerQueues')[d] :
               (customerQueues')[d][i] = j
        BY <2>1 DEF Queued
      <3>1. PICK i \in DOMAIN (customerQueues')[d] : (customerQueues')[d][i] = j
        BY <3>0
      <3>2. CASE d = c
        <4>1. i \in 1 .. Len(QueueOf(c)) + 1
          BY <1>4, <1>5, <3>1, <3>2, SMT
        <4>2. CASE i = Len(QueueOf(c)) + 1
          BY <1>4, <1>5, <3>1, <3>2, <4>2, SMT
        <4>3. CASE i \in 1 .. Len(QueueOf(c))
          <5>1. j = QueueOf(c)[i] /\ j \in Jobs
            BY <1>4, <1>5, <3>1, <3>2, <4>3, SMT
          <5>2. c \in DOMAIN customerQueues
            BY <4>3, SMT DEF QueueOf
          <5>. QED
            BY <1>4, <4>3, <5>1, <5>2, SMT DEF Queued, QueueOf
        <4>. QED
          BY <1>4, <4>1, <4>2, <4>3, SMT
      <3>3. CASE d # c
        BY <1>2, <1>6, <2>1, <3>1, <3>3 DEF Queued
      <3>. QED
        BY <3>2, <3>3
    <2>2. added \in Queued'
      <3>1. Len(QueueOf(c)) + 1 \in DOMAIN (customerQueues')[c]
        BY <1>4, <1>5, SMT
      <3>2. (customerQueues')[c][Len(QueueOf(c)) + 1] = added
        BY <1>4, <1>5, SMT
      <3>. QED
        BY <1>2, <3>1, <3>2 DEF Queued
    <2>3. ASSUME NEW j \in Queued PROVE j \in Queued'
      <3>0. PICK d \in DOMAIN customerQueues : \E i \in DOMAIN customerQueues[d] :
               customerQueues[d][i] = j
        BY <2>3 DEF Queued
      <3>1. PICK i \in DOMAIN customerQueues[d] : customerQueues[d][i] = j
        BY <3>0
      <3>2. CASE d = c
        <4>1. QueueOf(c) = customerQueues[c]
          BY <3>1, <3>2 DEF QueueOf
        <4>2. i \in DOMAIN (customerQueues')[c] /\ (customerQueues')[c][i] = j
          BY <1>4, <1>5, <3>1, <3>2, <4>1, SMT
        <4>. QED
          BY <1>2, <2>3, <4>2 DEF Queued
      <3>3. CASE d # c
        BY <1>2, <1>6, <2>3, <3>1, <3>3 DEF Queued
      <3>. QED
        BY <3>2, <3>3
    <2>. QED
      BY <2>1, <2>2, <2>3
  <1>. QED
    BY <1>1, <1>2, <1>3, <1>4, <1>5, <1>6, <1>7 DEF IsEnqueued

\* What serving a customer does: the head of its queue leaves the queues.
LEMMA ServeEffect ==
    ASSUME TypeOK, OnePlace, NEW c \in DOMAIN customerQueues, HasJobs(c),
           customerQueues' = [customerQueues EXCEPT ![c] = Tail(@)]
    PROVE  /\ DOMAIN customerQueues' = DOMAIN customerQueues
           /\ \A d \in DOMAIN customerQueues :
                 /\ customerQueues[d] \in Seq(Jobs)
                 /\ d # c => (customerQueues')[d] = customerQueues[d]
           /\ (customerQueues')[c] = Tail(customerQueues[c])
           /\ Head(customerQueues[c]) \in Queued
           /\ Queued' = Queued \ {Head(customerQueues[c])}
  <1> DEFINE q == customerQueues[c]
  <1>1. \A d \in DOMAIN customerQueues : customerQueues[d] \in Seq(Jobs)
    BY DEF TypeOK
  <1>2. q \in Seq(Jobs) /\ q # <<>> /\ Len(q) \in Nat \ {0} /\ Head(q) = q[1]
    BY <1>1, SMT DEF HasJobs
  <1>3. /\ DOMAIN customerQueues' = DOMAIN customerQueues
        /\ \A d \in DOMAIN customerQueues : d # c => (customerQueues')[d] = customerQueues[d]
        /\ (customerQueues')[c] = Tail(q)
    BY DEF TypeOK
  <1>4. /\ DOMAIN Tail(q) = 1 .. Len(q) - 1
        /\ \A i \in 1 .. Len(q) - 1 : Tail(q)[i] = q[i + 1]
    BY <1>2, SMT
  <1>5. Head(q) \in Queued
    BY <1>2, SMT DEF Queued
  <1>6. ASSUME NEW j \in Queued' PROVE j \in Queued \ {Head(q)}
    <2>0. PICK d \in DOMAIN customerQueues : \E i \in DOMAIN (customerQueues')[d] :
             (customerQueues')[d][i] = j
      BY <1>3, <1>6 DEF Queued
    <2>1. PICK i \in DOMAIN (customerQueues')[d] : (customerQueues')[d][i] = j
      BY <2>0
    <2>2. CASE d = c
      <3>1. i \in 1 .. Len(q) - 1 /\ j = q[i + 1] /\ i + 1 \in DOMAIN q /\ 1 \in DOMAIN q /\ i + 1 # 1
        BY <1>2, <1>3, <1>4, <2>1, <2>2, SMT
      <3>2. j # q[1]
        BY <3>1 DEF OnePlace
      <3>. QED
        BY <1>2, <1>6, <3>1, <3>2 DEF Queued
    <2>3. CASE d # c
      <3>1. i \in DOMAIN customerQueues[d] /\ customerQueues[d][i] = j
        BY <1>3, <2>1, <2>3
      <3>2. CustomerOf[j] = d /\ CustomerOf[q[1]] = c
        BY <1>2, <3>1, SMT DEF OnePlace
      <3>. QED
        BY <1>2, <1>6, <2>3, <3>1, <3>2 DEF Queued
    <2>. QED
      BY <2>2, <2>3
  <1>7. ASSUME NEW j \in Queued, j # Head(q) PROVE j \in Queued'
    <2>0. PICK d \in DOMAIN customerQueues : \E i \in DOMAIN customerQueues[d] :
             customerQueues[d][i] = j
      BY <1>7 DEF Queued
    <2>1. PICK i \in DOMAIN customerQueues[d] : customerQueues[d][i] = j
      BY <2>0
    <2>2. CASE d = c
      <3>1. i \in 1 .. Len(q) /\ i # 1
        BY <1>2, <1>7, <2>1, <2>2, SMT
      <3>2. i - 1 \in DOMAIN Tail(q) /\ Tail(q)[i - 1] = j
        BY <1>2, <1>4, <2>1, <2>2, <3>1, SMT
      <3>. QED
        BY <1>3, <1>7, <3>2 DEF Queued
    <2>3. CASE d # c
      BY <1>3, <1>7, <2>1, <2>3 DEF Queued
    <2>. QED
      BY <2>2, <2>3
  <1>. QED
    BY <1>1, <1>3, <1>5, <1>6, <1>7

-----------------------------------------------------------------------------
\* Enqueue keeps the types.
LEMMA EnqueueType ==
    ASSUME TypeOK, NEW added \in Jobs, Enqueue(added)
    PROVE  TypeOK'
  <1> DEFINE c == CustomerOf[added]
  <1>0. IsEnqueued(added, c)
    BY EnqueueEffect
  <1>1. customerQueues' \in [DOMAIN customerQueues' -> Seq(Jobs)]
    <2>1. Append(QueueOf(c), added) \in Seq(Jobs)
      BY <1>0, SMT DEF IsEnqueued
    <2>2. \A d \in DOMAIN customerQueues' : (customerQueues')[d] \in Seq(Jobs)
      BY <1>0, <2>1 DEF IsEnqueued
    <2>3. customerQueues' = [d \in DOMAIN customerQueues' |-> (customerQueues')[d]]
      BY DEF Enqueue
    <2>. QED
      BY <2>2, <2>3
  <1>2. DOMAIN customerQueues' \subseteq Customers
    BY <1>0 DEF TypeOK, IsEnqueued
  <1>3. customerOrder' \in Seq(Customers)
    BY <1>0, SMT DEF TypeOK, Enqueue, IsEnqueued
  <1>4. queuedJobCount' \in Nat
    BY SMT DEF TypeOK, Enqueue
  <1>5. dispatcher' \in DispatcherStates
    BY DEF TypeOK, Enqueue, WakeDispatcher, DispatcherStates
  <1>. QED
    BY <1>1, <1>2, <1>3, <1>4, <1>5 DEF TypeOK, Enqueue, channelVars

\* Enqueue keeps the rotation: a customer joins at the end, and only once.
LEMMA EnqueueRotation ==
    ASSUME TypeOK, RotationMatchesQueues, NEW added \in Jobs, Enqueue(added)
    PROVE  RotationMatchesQueues'
  <1> DEFINE c == CustomerOf[added]
  <1>0. IsEnqueued(added, c)
    BY EnqueueEffect
  <1>1. customerOrder \in Seq(Customers) /\ nextCustomerIndex' = nextCustomerIndex
    BY DEF TypeOK, Enqueue
  <1>2. CASE c \in DOMAIN customerQueues
    <2>1. customerOrder' = customerOrder /\ DOMAIN customerQueues' = DOMAIN customerQueues
      BY <1>0, <1>2 DEF Enqueue, IsNewCustomer, IsEnqueued
    <2>. QED
      BY <1>1, <2>1 DEF RotationMatchesQueues
  <1>3. CASE c \notin DOMAIN customerQueues
    <2>1. customerOrder' = Append(customerOrder, c)
      BY <1>3 DEF Enqueue, IsNewCustomer
    <2>2. /\ DOMAIN customerOrder' = 1 .. Len(customerOrder) + 1
          /\ DOMAIN customerOrder = 1 .. Len(customerOrder)
          /\ Len(customerOrder') = Len(customerOrder) + 1
          /\ (customerOrder')[Len(customerOrder) + 1] = c
          /\ \A i \in DOMAIN customerOrder : (customerOrder')[i] = customerOrder[i]
      BY <1>1, <2>1, SMT
    <2>3. {(customerOrder')[i] : i \in DOMAIN customerOrder'} = DOMAIN customerQueues'
      <3>1. {(customerOrder')[i] : i \in DOMAIN customerOrder'}
               = {customerOrder[i] : i \in DOMAIN customerOrder} \cup {c}
        BY <1>1, <2>2, SMT
      <3>. QED
        BY <1>0, <3>1 DEF RotationMatchesQueues, IsEnqueued
    <2>4. \A i \in DOMAIN customerOrder : customerOrder[i] # c
      BY <1>3 DEF RotationMatchesQueues
    <2>5. \A i, k \in DOMAIN customerOrder' : (customerOrder')[i] = (customerOrder')[k] => i = k
      BY <1>1, <2>2, <2>4, SMT DEF RotationMatchesQueues
    <2>6. nextCustomerIndex' < Len(customerOrder') \/ nextCustomerIndex' = 0
      BY <1>1, <2>2, SMT DEF RotationMatchesQueues, TypeOK
    <2>. QED
      BY <2>3, <2>5, <2>6 DEF RotationMatchesQueues
  <1>. QED
    BY <1>2, <1>3

\* Enqueue puts a job that is nowhere into one place.
LEMMA EnqueueOnePlace ==
    ASSUME TypeOK, OnePlace, NEW added \in Jobs, Enqueue(added)
    PROVE  OnePlace'
  <1> DEFINE c == CustomerOf[added]
             q == QueueOf(c)
  <1>0. IsEnqueued(added, c)
    BY EnqueueEffect
  <1>1. UNCHANGED <<output, held>> /\ added \notin Queued \cup held \cup InChannel
    BY DEF Enqueue, InScheduler, channelVars
  <1>2. \A i \in DOMAIN q : q[i] \in Queued /\ q[i] # added /\ CustomerOf[q[i]] = c
    <2>1. CASE c \in DOMAIN customerQueues
      <3>1. q = customerQueues[c] /\ q \in Seq(Jobs)
        BY <1>0, <2>1 DEF QueueOf, IsEnqueued
      <3>. QED
        BY <1>1, <2>1, <3>1, SMT DEF Queued, OnePlace
    <2>2. CASE c \notin DOMAIN customerQueues
      BY <2>2, SMT DEF QueueOf
    <2>. QED
      BY <2>1, <2>2
  <1>3. \A i, k \in DOMAIN q : q[i] = q[k] => i = k
    BY SMT DEF QueueOf, OnePlace
  <1>4. /\ DOMAIN (customerQueues')[c] = 1 .. Len(q) + 1
        /\ DOMAIN q = 1 .. Len(q)
        /\ Len(q) \in Nat
        /\ (customerQueues')[c][Len(q) + 1] = added
        /\ \A i \in DOMAIN q : (customerQueues')[c][i] = q[i]
    BY <1>0, SMT DEF IsEnqueued
  <1>5. \A d \in DOMAIN customerQueues' : \A i \in DOMAIN (customerQueues')[d] :
           CustomerOf[(customerQueues')[d][i]] = d
    <2>1. \A i \in DOMAIN (customerQueues')[c] : CustomerOf[(customerQueues')[c][i]] = c
      BY <1>2, <1>4, SMT
    <2>2. \A d \in DOMAIN customerQueues \ {c} : \A i \in DOMAIN (customerQueues')[d] :
             CustomerOf[(customerQueues')[d][i]] = d
      BY <1>0 DEF OnePlace, IsEnqueued
    <2>. QED
      BY <1>0, <2>1, <2>2 DEF IsEnqueued
  <1>6. \A d \in DOMAIN customerQueues' : \A i, k \in DOMAIN (customerQueues')[d] :
           (customerQueues')[d][i] = (customerQueues')[d][k] => i = k
    <2>1. \A i, k \in DOMAIN (customerQueues')[c] :
             (customerQueues')[c][i] = (customerQueues')[c][k] => i = k
      BY <1>2, <1>3, <1>4, SMT
    <2>2. \A d \in DOMAIN customerQueues \ {c} : \A i, k \in DOMAIN (customerQueues')[d] :
             (customerQueues')[d][i] = (customerQueues')[d][k] => i = k
      BY <1>0 DEF OnePlace, IsEnqueued
    <2>. QED
      BY <1>0, <2>1, <2>2 DEF IsEnqueued
  <1>7. /\ Queued' \cap held' = {}
        /\ Queued' \cap InChannel' = {}
        /\ held' \cap InChannel' = {}
    BY <1>0, <1>1, SMT DEF OnePlace, InChannel, IsEnqueued
  <1>8. \A i, k \in DOMAIN output' : (output')[i] = (output')[k] => i = k
    BY <1>1 DEF OnePlace
  <1>. QED
    BY <1>5, <1>6, <1>7, <1>8 DEF OnePlace

\* Enqueue keeps every customer within its bound: a new customer lengthens the
\* rotation by one, and the distance to the others by at most one.
LEMMA EnqueueBypass ==
    ASSUME TypeOK, RotationMatchesQueues, BypassIsPaid, NEW added \in Jobs, Enqueue(added)
    PROVE  BypassIsPaid'
  <1> DEFINE c == CustomerOf[added]
             N == Len(customerOrder)
  <1>0. IsEnqueued(added, c)
    BY EnqueueEffect
  <1>1. /\ UNCHANGED <<nextCustomerIndex, bypassed>>
        /\ customerOrder \in Seq(Customers)
        /\ N \in Nat
        /\ DOMAIN customerOrder = 1 .. N
        /\ nextCustomerIndex \in Nat
        /\ nextCustomerIndex < N \/ nextCustomerIndex = 0
        /\ bypassed \in [Customers -> Nat]
    BY SMT DEF Enqueue, TypeOK, RotationMatchesQueues
  <1>2. \A d \in Customers : QueueOf(d)' = <<>> => QueueOf(d) = <<>>
    <2>1. Append(QueueOf(c), added) # <<>>
      BY <1>0, SMT DEF IsEnqueued
    <2>. QED
      BY <1>0, <2>1 DEF IsEnqueued, QueueOf
  <1>3. \A d \in Customers : QueueOf(d)' = <<>> => (bypassed')[d] = 0
    BY <1>1, <1>2 DEF BypassIsPaid
  <1>4. \A i \in 1 .. N : customerOrder[i] \in DOMAIN customerQueues
                           /\ customerOrder[i] \in Customers
    BY <1>1, SMT DEF RotationMatchesQueues
  <1>5. \A i \in 1 .. N : bypassed[customerOrder[i]] + Distance(i) <= N - 1
    <2>1. SUFFICES ASSUME NEW i \in 1 .. N
                   PROVE  bypassed[customerOrder[i]] + Distance(i) <= N - 1
      OBVIOUS
    <2>2. CASE HasJobs(customerOrder[i])
      BY <1>1, <2>2 DEF BypassIsPaid
    <2>3. CASE ~HasJobs(customerOrder[i])
      <3>1. bypassed[customerOrder[i]] = 0
        BY <1>4, <2>3 DEF BypassIsPaid, QueueOf, HasJobs
      <3>2. Distance(i) <= N - 1
        BY <1>1, SMT DEF Distance, Ahead
      <3>. QED
        BY <3>1, <3>2, <1>1, SMT DEF Distance, Ahead
    <2>. QED
      BY <2>2, <2>3
  <1>6. ASSUME NEW i \in DOMAIN customerOrder'
        PROVE  bypassed[(customerOrder')[i]] + Distance(i)' <= Len(customerOrder') - 1
    <2>1. CASE c \in DOMAIN customerQueues
      <3>1. customerOrder' = customerOrder
        BY <2>1 DEF Enqueue, IsNewCustomer
      <3>. QED
        BY <1>1, <1>5, <1>6, <3>1 DEF Distance, Ahead
    <2>2. CASE c \notin DOMAIN customerQueues
      <3>1. /\ customerOrder' = Append(customerOrder, c)
            /\ Len(customerOrder') = N + 1
            /\ i \in 1 .. N + 1
        BY <1>0, <1>1, <1>6, <2>2, SMT DEF Enqueue, IsNewCustomer, IsEnqueued
      <3>2. CASE i \in 1 .. N
        <4>1. (customerOrder')[i] = customerOrder[i]
          BY <1>0, <1>1, <3>1, <3>2, SMT DEF IsEnqueued
        <4>2. Distance(i)' <= Distance(i) + 1 /\ Distance(i) \in Int /\ Distance(i)' \in Int
          <5>1. /\ Distance(i) = Ahead(i, nextCustomerIndex, N)
                /\ Distance(i)' = Ahead(i, nextCustomerIndex, N + 1)
            BY <1>1, <3>1 DEF Distance, Ahead
          <5>2. N \in Nat /\ i \in 1 .. N /\ nextCustomerIndex \in Nat
            BY <1>1, <3>2
          <5>. QED
            BY <5>1, <5>2, SMT DEF Ahead
        <4>3. bypassed[customerOrder[i]] \in Nat
          BY <1>1, <1>4, <3>2
        <4>. QED
          BY <1>1, <1>5, <3>1, <3>2, <4>1, <4>2, <4>3, SMT
      <3>3. CASE i = N + 1
        <4>1. (customerOrder')[i] = c /\ bypassed[c] = 0
          BY <1>0, <1>1, <2>2, <3>1, <3>3, SMT DEF IsEnqueued, BypassIsPaid, QueueOf
        <4>2. Distance(i)' <= N /\ Distance(i)' \in Int
          BY <1>1, <3>1, <3>3, SMT DEF Distance, Ahead
        <4>. QED
          BY <1>1, <3>1, <4>1, <4>2, SMT
      <3>. QED
        BY <1>1, <3>1, <3>2, <3>3, SMT
    <2>. QED
      BY <2>1, <2>2
  <1>. QED
    BY <1>1, <1>3, <1>6 DEF BypassIsPaid

\* Enqueue keeps the whole invariant.
LEMMA EnqueueKeepsInv ==
    ASSUME IInv, NEW added \in Jobs, Enqueue(added)
    PROVE  IInv'
  <1>0. IsEnqueued(added, CustomerOf[added])
    BY EnqueueEffect DEF IInv
  <1>1. TypeOK' /\ RotationMatchesQueues' /\ OnePlace' /\ BypassIsPaid'
    BY EnqueueType, EnqueueRotation, EnqueueOnePlace, EnqueueBypass DEF IInv
  <1>2. HandAndChannel'
    BY DEF IInv, HandAndChannel, Enqueue, WakeDispatcher, channelVars
  <1>3. DepthIsExact'
    <2>1. IsFiniteSet(Queued) /\ added \notin Queued
      BY DEF IInv, DepthIsExact, Enqueue, InScheduler
    <2>2. /\ IsFiniteSet(Queued \cup {added})
          /\ Cardinality(Queued \cup {added}) = Cardinality(Queued) + 1
      BY <2>1, FS_AddElement
    <2>. QED
      BY <1>0, <2>2 DEF IInv, DepthIsExact, IsEnqueued, Enqueue
  <1>. QED
    BY <1>1, <1>2, <1>3 DEF IInv

-----------------------------------------------------------------------------
\* What DequeueNextJob does: the first customer of the scan that has jobs, found
\* after offset others, is served.
IsServed(offset, c) ==
    /\ offset \in 0 .. Len(customerOrder) - 1
    /\ c = ScannedCustomer(offset)
    /\ c \in DOMAIN customerQueues
    /\ c \in Customers
    /\ FirstWithJobs(offset)
    /\ held' = {Head(customerQueues[c])}
    /\ Head(customerQueues[c]) \in Queued
    /\ DOMAIN customerQueues' = DOMAIN customerQueues
    /\ (customerQueues')[c] = Tail(customerQueues[c])
    /\ \A d \in DOMAIN customerQueues :
          /\ customerQueues[d] \in Seq(Jobs)
          /\ d # c => (customerQueues')[d] = customerQueues[d]
    /\ Queued' = Queued \ {Head(customerQueues[c])}
    /\ nextCustomerIndex' = (ScannedIndex(offset) + 1) % Len(customerOrder)
    /\ bypassed' = [d \in Customers |->
                      IF d # c /\ QueueOf(d) # <<>> THEN bypassed[d] + 1 ELSE 0]

\* DequeueNextJob serves some customer.
LEMMA DequeueEffect ==
    ASSUME TypeOK, RotationMatchesQueues, OnePlace, DequeueNextJob
    PROVE  \E offset \in 0 .. Len(customerOrder) - 1 :
              IsServed(offset, ScannedCustomer(offset))
  <1>1. PICK offset \in 0 .. Len(customerOrder) - 1 : FirstWithJobs(offset) /\ Serve(offset)
    BY DEF DequeueNextJob
  <1> DEFINE c == ScannedCustomer(offset)
  <1>2. c \in DOMAIN customerQueues
    BY <1>1, ScanPosition
  <1>3. c \in Customers
    BY <1>2 DEF TypeOK
  <1>4. HasJobs(c)
    BY <1>1 DEF FirstWithJobs
  <1>5. customerQueues' = [customerQueues EXCEPT ![c] = Tail(@)]
    BY <1>1 DEF Serve
  <1>6. /\ DOMAIN customerQueues' = DOMAIN customerQueues
        /\ \A d \in DOMAIN customerQueues :
              /\ customerQueues[d] \in Seq(Jobs)
              /\ d # c => (customerQueues')[d] = customerQueues[d]
        /\ (customerQueues')[c] = Tail(customerQueues[c])
        /\ Head(customerQueues[c]) \in Queued
        /\ Queued' = Queued \ {Head(customerQueues[c])}
    BY <1>2, <1>4, <1>5, ServeEffect
  <1>7. IsServed(offset, c)
    BY <1>1, <1>2, <1>3, <1>6 DEF IsServed, Serve
  <1>. QED
    BY <1>7

\* Dequeuing keeps the types and the rotation: only the pointer moves.
LEMMA DequeueType ==
    ASSUME TypeOK, RotationMatchesQueues, OnePlace, DepthIsExact, DequeueNextJob
    PROVE  TypeOK' /\ RotationMatchesQueues'
  <1>1. PICK offset \in 0 .. Len(customerOrder) - 1 : IsServed(offset, ScannedCustomer(offset))
    BY DequeueEffect
  <1> DEFINE c == ScannedCustomer(offset)
             N == Len(customerOrder)
  <1>2. /\ N \in Nat \ {0}
        /\ ScannedIndex(offset) \in 0 .. N - 1
    BY ScanPosition, SMT DEF TypeOK
  <1>3. nextCustomerIndex' \in 0 .. N - 1
    <2>1. (ScannedIndex(offset) + 1) % N = IF ScannedIndex(offset) + 1 < N
                                              THEN ScannedIndex(offset) + 1 ELSE 0
      BY <1>2, NextPosition
    <2>. QED
      BY <1>1, <1>2, <2>1, SMT DEF IsServed
  <1>4. customerQueues[c] \in Seq(Jobs) /\ customerQueues[c] # <<>>
    BY <1>1 DEF IsServed, FirstWithJobs, HasJobs
  <1>5. customerQueues' \in [DOMAIN customerQueues' -> Seq(Jobs)]
    <2>1. Tail(customerQueues[c]) \in Seq(Jobs)
      BY <1>4, SMT
    <2>2. \A d \in DOMAIN customerQueues' : (customerQueues')[d] \in Seq(Jobs)
      BY <1>1, <2>1 DEF IsServed
    <2>3. customerQueues' = [d \in DOMAIN customerQueues' |-> (customerQueues')[d]]
      BY DEF DequeueNextJob, Serve
    <2>. QED
      BY <2>2, <2>3
  <1>6. queuedJobCount' \in Nat
    <2>1. Queued # {} /\ IsFiniteSet(Queued) /\ queuedJobCount = Cardinality(Queued)
      BY <1>1 DEF IsServed, DepthIsExact
    <2>2. Cardinality(Queued) \in Nat /\ Cardinality(Queued) # 0
      BY <2>1, FS_CardinalityType, FS_EmptySet
    <2>3. queuedJobCount' = queuedJobCount - 1
      BY DEF DequeueNextJob
    <2>. QED
      BY <2>1, <2>2, <2>3, SMT
  <1>7. bypassed' \in [Customers -> Nat]
    <2>1. bypassed' = [d \in Customers |->
                         IF d # c /\ QueueOf(d) # <<>> THEN bypassed[d] + 1 ELSE 0]
      BY <1>1 DEF IsServed
    <2>2. bypassed \in [Customers -> Nat]
      BY DEF TypeOK
    <2>. QED
      BY <2>1, <2>2, SMT
  <1>8. held' \in SUBSET Jobs
    BY <1>1, <1>4, SMT DEF IsServed
  <1>9. TypeOK'
    <2>1. DOMAIN customerQueues' = DOMAIN customerQueues
      BY <1>1 DEF IsServed
    <2>2. /\ dispatcher' = "sending"
          /\ UNCHANGED <<customerOrder, closed, cancelled, watcher, output, outputClosed>>
      BY DEF DequeueNextJob, channelVars
    <2>3. nextCustomerIndex' \in Nat
      BY <1>2, <1>3, SMT
    <2>. QED
      BY <1>5, <1>6, <1>7, <1>8, <2>1, <2>2, <2>3 DEF TypeOK, DispatcherStates
  <1>10. customerOrder' = customerOrder /\ DOMAIN customerQueues' = DOMAIN customerQueues
    BY <1>1 DEF IsServed, DequeueNextJob
  <1>11. RotationMatchesQueues'
    BY <1>2, <1>3, <1>10, SMT DEF RotationMatchesQueues
  <1>. QED
    BY <1>9, <1>11

\* Dequeuing moves one job from the queues to the dispatcher's empty hand.
LEMMA DequeuePlaces ==
    ASSUME TypeOK, RotationMatchesQueues, OnePlace, HandAndChannel, DepthIsExact, DequeueNextJob
    PROVE  OnePlace' /\ HandAndChannel' /\ DepthIsExact'
  <1>1. PICK offset \in 0 .. Len(customerOrder) - 1 : IsServed(offset, ScannedCustomer(offset))
    BY DequeueEffect
  <1> DEFINE c == ScannedCustomer(offset)
             q == customerQueues[c]
  <1>2. /\ q \in Seq(Jobs)
        /\ q # <<>>
        /\ Len(q) \in Nat \ {0}
        /\ DOMAIN (customerQueues')[c] = 1 .. Len(q) - 1
        /\ \A i \in 1 .. Len(q) - 1 : (customerQueues')[c][i] = q[i + 1]
        /\ Head(q) \in Jobs
    BY <1>1, SMT DEF IsServed, FirstWithJobs, HasJobs
  <1>3. UNCHANGED output /\ dispatcher' = "sending"
    BY DEF DequeueNextJob, channelVars
  <1>4. \A d \in DOMAIN customerQueues' : \A i \in DOMAIN (customerQueues')[d] :
           CustomerOf[(customerQueues')[d][i]] = d
    <2>1. \A i \in DOMAIN (customerQueues')[c] : CustomerOf[(customerQueues')[c][i]] = c
      BY <1>1, <1>2, SMT DEF OnePlace, IsServed
    <2>. QED
      BY <1>1, <2>1 DEF OnePlace, IsServed
  <1>5. \A d \in DOMAIN customerQueues' : \A i, k \in DOMAIN (customerQueues')[d] :
           (customerQueues')[d][i] = (customerQueues')[d][k] => i = k
    <2>1. \A i, k \in DOMAIN (customerQueues')[c] :
             (customerQueues')[c][i] = (customerQueues')[c][k] => i = k
      <3>1. \A i, k \in DOMAIN q : q[i] = q[k] => i = k
        BY <1>1 DEF OnePlace, IsServed
      <3>2. \A i \in 1 .. Len(q) - 1 : i + 1 \in DOMAIN q
        BY <1>2, SMT
      <3>3. ASSUME NEW i \in 1 .. Len(q) - 1, NEW k \in 1 .. Len(q) - 1, q[i + 1] = q[k + 1]
            PROVE  i = k
        <4>1. i + 1 = k + 1
          BY <3>1, <3>2, <3>3
        <4>. QED
          BY <4>1, SMT
      <3>. QED
        BY <1>2, <3>3
    <2>. QED
      BY <1>1, <2>1 DEF OnePlace, IsServed
  <1>6. /\ Queued' \cap held' = {}
        /\ Queued' \cap InChannel' = {}
        /\ held' \cap InChannel' = {}
    BY <1>1, <1>3, SMT DEF OnePlace, IsServed, InChannel
  <1>7. OnePlace'
    BY <1>3, <1>4, <1>5, <1>6 DEF OnePlace
  <1>8. HandAndChannel'
    BY <1>1, <1>2, <1>3 DEF HandAndChannel, IsServed
  <1>9. DepthIsExact'
    <2>1. /\ IsFiniteSet(Queued \ {Head(q)})
          /\ Cardinality(Queued \ {Head(q)}) = Cardinality(Queued) - 1
      BY <1>1, FS_RemoveElement DEF DepthIsExact, IsServed
    <2>. QED
      BY <1>1, <2>1 DEF DepthIsExact, IsServed, DequeueNextJob
  <1>. QED
    BY <1>7, <1>8, <1>9

\* Dequeuing keeps every customer within its bound: one that has jobs and is
\* passed over lies behind the served customer, so the pointer gets nearer to it.
LEMMA DequeueBypass ==
    ASSUME TypeOK, RotationMatchesQueues, OnePlace, BypassIsPaid, DequeueNextJob
    PROVE  BypassIsPaid'
  <1>1. PICK offset \in 0 .. Len(customerOrder) - 1 : IsServed(offset, ScannedCustomer(offset))
    BY DequeueEffect
  <1> DEFINE c == ScannedCustomer(offset)
             N == Len(customerOrder)
             p == ScannedIndex(offset)
  <1>2. /\ N \in Nat \ {0}
        /\ DOMAIN customerOrder = 1 .. N
        /\ nextCustomerIndex \in 0 .. N - 1
        /\ customerOrder' = customerOrder
        /\ bypassed \in [Customers -> Nat]
        /\ \A i \in 1 .. N : customerOrder[i] \in Customers /\ customerOrder[i] \in DOMAIN customerQueues
    BY SMT DEF TypeOK, RotationMatchesQueues, DequeueNextJob
  <1>3. /\ p \in 0 .. N - 1
        /\ p = IF nextCustomerIndex + offset < N THEN nextCustomerIndex + offset
                                                ELSE nextCustomerIndex + offset - N
    BY ScanPosition
  <1>4. nextCustomerIndex' = IF p + 1 < N THEN p + 1 ELSE 0
    BY <1>1, <1>2, <1>3, NextPosition DEF IsServed
  <1>5. ASSUME NEW i \in 1 .. N, HasJobs(customerOrder[i])'
        PROVE  (bypassed')[customerOrder[i]] + Distance(i)' <= N - 1
    <2> DEFINE d == customerOrder[i]
    <2>0. nextCustomerIndex' \in 0 .. N - 1
      BY <1>2, <1>3, <1>4, SMT
    <2>1. /\ Distance(i) \in 0 .. N - 1
          /\ Distance(i)' \in 0 .. N - 1
          /\ Distance(i) > offset => Distance(i)' = Distance(i) - offset - 1
      <3>1. Distance(i)' = Ahead(i, nextCustomerIndex', N)
        BY <1>2 DEF Distance
      <3>2. /\ Ahead(i, nextCustomerIndex, N) \in 0 .. N - 1
            /\ Ahead(i, nextCustomerIndex', N) \in 0 .. N - 1
            /\ Ahead(i, nextCustomerIndex, N) > offset =>
                  Ahead(i, nextCustomerIndex', N) = Ahead(i, nextCustomerIndex, N) - offset - 1
        <4>1. N \in Nat \ {0} /\ nextCustomerIndex \in 0 .. N - 1 /\ offset \in 0 .. N - 1
          BY <1>2
        <4> HIDE DEF N, p
        <4>. QED
          BY <1>3, <1>4, <2>0, <4>1, SMT DEF Ahead
      <3>. QED
        BY <3>1, <3>2 DEF Distance
    <2>2. CASE d = c
      BY <1>1, <1>2, <2>1, <2>2, SMT DEF IsServed
    <2>3. CASE d # c
      <3>1. HasJobs(d) /\ QueueOf(d) # <<>>
        BY <1>1, <1>2, <1>5, <2>3 DEF IsServed, HasJobs, QueueOf
      <3>2. (bypassed')[d] = bypassed[d] + 1 /\ bypassed[d] \in Nat
        BY <1>1, <1>2, <2>3, <3>1 DEF IsServed
      <3>3. bypassed[d] + Distance(i) <= N - 1
        BY <1>2, <3>1 DEF BypassIsPaid
      <3>4. Distance(i) \in 0 .. N - 1
        BY <2>1
      <3>5. ScannedIndex(Distance(i)) = i - 1
        <4>1. ScannedIndex(Distance(i)) =
                 IF nextCustomerIndex + Distance(i) < N THEN nextCustomerIndex + Distance(i)
                                                        ELSE nextCustomerIndex + Distance(i) - N
          BY <3>4, ScanPosition
        <4>. QED
          BY <1>2, <4>1, SMT DEF Distance, Ahead
      <3>6. ScannedCustomer(Distance(i)) = d
        BY <3>5, SMT DEF ScannedCustomer
      <3>7. ~(Distance(i) < offset) /\ Distance(i) # offset
        BY <1>1, <2>3, <3>1, <3>4, <3>6, SMT DEF IsServed, FirstWithJobs
      <3>8. Distance(i)' = Distance(i) - offset - 1
        BY <2>1, <3>4, <3>7, SMT
      <3>. QED
        BY <1>2, <3>2, <3>3, <3>4, <3>8, SMT
    <2>. QED
      BY <2>2, <2>3
  <1>6. ASSUME NEW d \in Customers, QueueOf(d)' = <<>>
        PROVE  (bypassed')[d] = 0
    BY <1>1, <1>6 DEF IsServed, QueueOf
  <1>. QED
    BY <1>2, <1>5, <1>6 DEF BypassIsPaid

\* A step that leaves the queues alone keeps what is said of them.
LEMMA QueuesUntouched ==
    ASSUME IInv, UNCHANGED queueVars
    PROVE  /\ RotationMatchesQueues' /\ BypassIsPaid' /\ DepthIsExact'
           /\ Queued' = Queued
  BY SMT DEF IInv, queueVars, RotationMatchesQueues, BypassIsPaid, DepthIsExact, Distance, Ahead,
         HasJobs, QueueOf, Queued

\* The steps of the dispatcher and of the workers on the channel.
LEMMA ChannelKeepsInv ==
    ASSUME IInv, SendJob \/ AbandonJob \/ ReceiveBuffered \/ ReceiveDirectly
    PROVE  IInv'
  <1> USE DEF IInv
  <1>1. UNCHANGED queueVars
    BY DEF SendJob, AbandonJob, ReceiveBuffered, ReceiveDirectly
  <1>2. RotationMatchesQueues' /\ BypassIsPaid' /\ DepthIsExact' /\ Queued' = Queued
    BY <1>1, QueuesUntouched
  <1>3. output \in Seq(Jobs) /\ DOMAIN output = 1 .. Len(output) /\ Len(output) \in Nat
    BY SMT DEF TypeOK
  <1>4. CASE SendJob
    <2>1. PICK j \in Jobs : held = {j}
      BY <1>4 DEF SendJob, HandAndChannel
    <2>2. output' = Append(output, j) /\ held' = {} /\ Len(output) < BufferSize
      BY <1>4, <2>1 DEF SendJob
    <2>3. /\ Len(output') = Len(output) + 1
          /\ DOMAIN output' = 1 .. Len(output) + 1
          /\ (output')[Len(output) + 1] = j
          /\ \A i \in 1 .. Len(output) : (output')[i] = output[i]
      BY <1>3, <2>2, SMT
    <2>4. InChannel' = InChannel \cup {j}
      BY <1>3, <2>3, SMT DEF InChannel
    <2>5. \A i, k \in DOMAIN output' : (output')[i] = (output')[k] => i = k
      BY <1>3, <2>1, <2>3, SMT DEF OnePlace, InChannel
    <2>6. OnePlace'
      BY <1>1, <1>2, <2>1, <2>2, <2>4, <2>5, SMT DEF OnePlace, queueVars
    <2>7. HandAndChannel'
      BY <1>3, <1>4, <2>2, <2>3, SchedulerAssumption, SMT DEF HandAndChannel, SendJob
    <2>8. TypeOK'
      BY <1>1, <1>4, <2>1, <2>2, SMT DEF TypeOK, SendJob, queueVars, DispatcherStates
    <2>. QED
      BY <1>2, <2>6, <2>7, <2>8
  <1>5. CASE AbandonJob
    <2>1. held' = {} /\ output' = output /\ dispatcher' = "returned"
      BY <1>5 DEF AbandonJob
    <2>2. OnePlace' /\ HandAndChannel'
      BY <1>1, <1>2, <2>1, SMT DEF OnePlace, HandAndChannel, InChannel, queueVars
    <2>3. TypeOK'
      BY <1>1, <1>5 DEF TypeOK, AbandonJob, queueVars, DispatcherStates
    <2>. QED
      BY <1>2, <2>2, <2>3
  <1>6. CASE ReceiveBuffered
    <2>1. output' = Tail(output) /\ output # <<>> /\ UNCHANGED <<held, dispatcher>>
      BY <1>6 DEF ReceiveBuffered
    <2>2. /\ Len(output) # 0
          /\ output' \in Seq(Jobs)
          /\ Len(output') = Len(output) - 1
          /\ DOMAIN output' = 1 .. Len(output) - 1
          /\ \A i \in 1 .. Len(output) - 1 : (output')[i] = output[i + 1] /\ i + 1 \in DOMAIN output
      BY <1>3, <2>1, SMT
    <2>3. InChannel' \subseteq InChannel
      BY <2>2 DEF InChannel
    <2>4. ASSUME NEW i \in DOMAIN output', NEW k \in DOMAIN output', (output')[i] = (output')[k]
          PROVE  i = k
      <3>1. i + 1 = k + 1
        BY <2>2, <2>4, SMT DEF OnePlace
      <3>. QED
        BY <2>2, <3>1, SMT
    <2>5. OnePlace'
      BY <1>1, <1>2, <2>1, <2>3, <2>4, SMT DEF OnePlace, queueVars
    <2>6. HandAndChannel'
      BY <1>3, <2>1, <2>2, SchedulerAssumption, SMT DEF HandAndChannel
    <2>7. TypeOK'
      BY <1>1, <1>6, <2>2 DEF TypeOK, ReceiveBuffered, queueVars
    <2>. QED
      BY <1>2, <2>5, <2>6, <2>7
  <1>7. CASE ReceiveDirectly
    <2>1. held' = {} /\ output' = output /\ dispatcher' = "checking"
      BY <1>7 DEF ReceiveDirectly, channelVars
    <2>2. OnePlace' /\ HandAndChannel'
      BY <1>1, <1>2, <2>1, SMT DEF OnePlace, HandAndChannel, InChannel, queueVars
    <2>3. TypeOK'
      BY <1>1, <1>7 DEF TypeOK, ReceiveDirectly, queueVars, channelVars, DispatcherStates
    <2>. QED
      BY <1>2, <2>2, <2>3
  <1>. QED
    BY <1>4, <1>5, <1>6, <1>7

-----------------------------------------------------------------------------
\* The invariant holds when NewRoundRobinScheduler returns.
LEMMA InitInv == Init => IInv
  <1> SUFFICES ASSUME Init PROVE IInv
    OBVIOUS
  <1> USE DEF Init
  <1>1. Queued = {} /\ InChannel = {}
    BY SMT DEF Queued, InChannel
  <1>2. TypeOK
    <2>1. DOMAIN customerQueues = {} /\ customerQueues \in [DOMAIN customerQueues -> Seq(Jobs)]
      OBVIOUS
    <2>2. customerOrder \in Seq(Customers) /\ output \in Seq(Jobs)
      BY SMT
    <2>3. bypassed \in [Customers -> Nat]
      OBVIOUS
    <2>. QED
      BY <2>1, <2>2, <2>3 DEF TypeOK, DispatcherStates
  <1>3. RotationMatchesQueues
    BY SMT DEF RotationMatchesQueues
  <1>4. OnePlace
    BY <1>1, SMT DEF OnePlace
  <1>5. HandAndChannel
    BY SchedulerAssumption, SMT DEF HandAndChannel
  <1>6. BypassIsPaid
    BY SMT DEF BypassIsPaid
  <1>7. DepthIsExact
    BY <1>1, FS_EmptySet DEF DepthIsExact
  <1>. QED
    BY <1>2, <1>3, <1>4, <1>5, <1>6, <1>7 DEF IInv

\* Every step of the scheduler and of its users keeps the invariant.
LEMMA InductiveStep == IInv /\ [Next]_vars => IInv'
  <1> SUFFICES ASSUME IInv, [Next]_vars PROVE IInv'
    OBVIOUS
  <1>1. ASSUME NEW added \in Jobs, Enqueue(added) PROVE IInv'
    BY <1>1, EnqueueKeepsInv
  <1>2. CASE DequeueNextJob
    <2>1. TypeOK' /\ RotationMatchesQueues'
      BY <1>2, DequeueType DEF IInv
    <2>2. OnePlace' /\ HandAndChannel' /\ DepthIsExact'
      BY <1>2, DequeuePlaces DEF IInv
    <2>3. BypassIsPaid'
      BY <1>2, DequeueBypass DEF IInv
    <2>. QED
      BY <2>1, <2>2, <2>3 DEF IInv
  <1>3. CASE SendJob \/ AbandonJob \/ ReceiveBuffered \/ ReceiveDirectly
    BY <1>3, ChannelKeepsInv
  <1>4. CASE \/ Close \/ Cancel \/ WatcherBroadcast \/ FindNothing \/ ConditionWait
             \/ StopDispatcher \/ UNCHANGED vars
    <2>1. UNCHANGED <<queueVars, output, held>>
      BY <1>4 DEF Close, Cancel, WatcherBroadcast, FindNothing, ConditionWait, StopDispatcher,
                  vars, channelVars
    <2>2. dispatcher' \in DispatcherStates /\ (dispatcher' = "sending" <=> dispatcher = "sending")
      BY <1>4 DEF Close, Cancel, WatcherBroadcast, FindNothing, ConditionWait, StopDispatcher,
                  vars, WakeDispatcher, IInv, TypeOK, DispatcherStates
    <2>3. RotationMatchesQueues' /\ BypassIsPaid' /\ DepthIsExact' /\ Queued' = Queued
      BY <2>1, QueuesUntouched
    <2>4. OnePlace'
      BY <2>1, <2>3, SMT DEF IInv, OnePlace, InChannel, queueVars
    <2>5. HandAndChannel'
      BY <2>1, <2>2 DEF IInv, HandAndChannel
    <2>6. /\ closed' \in BOOLEAN /\ cancelled' \in BOOLEAN /\ outputClosed' \in BOOLEAN
          /\ watcher' \in {"waiting", "done"}
      BY <1>4 DEF Close, Cancel, WatcherBroadcast, FindNothing, ConditionWait, StopDispatcher,
                  vars, channelVars, IInv, TypeOK
    <2>7. TypeOK'
      BY <2>1, <2>2, <2>6 DEF IInv, TypeOK, queueVars
    <2>. QED
      BY <2>3, <2>4, <2>5, <2>7 DEF IInv
  <1>. QED
    BY <1>1, <1>2, <1>3, <1>4 DEF Next, Dispatcher, Receive

\* The inductive invariant is an invariant.
LEMMA Invariance == Spec => []IInv
  BY InitInv, InductiveStep, PTL DEF Spec

(***************************************************************************)
(* The rotation of Enqueue and dequeueNextJobLocked: every customer with a *)
(* queue is in customerOrder once, and the pointer is inside it.           *)
(***************************************************************************)
THEOREM RotationIsSound == Spec => []RotationMatchesQueues
  <1>1. IInv => RotationMatchesQueues
    BY DEF IInv
  <1>. QED
    BY <1>1, Invariance, PTL

(***************************************************************************)
(* QueueDepth(), which the poller compares with its limit, is the number   *)
(* of jobs in the queues: Enqueue and dequeueNextJobLocked keep the        *)
(* counter and the queues together.                                        *)
(***************************************************************************)
THEOREM DepthIsTrue == Spec => []DepthCountsQueuedJobs
  <1>1. IInv => DepthCountsQueuedJobs
    BY DEF IInv, DepthIsExact, DepthCountsQueuedJobs
  <1>. QED
    BY <1>1, Invariance, PTL

\* The distance of a waiting customer from the pointer is not negative.
LEMMA BypassBound == IInv => BoundedBypass
  <1> SUFFICES ASSUME IInv, NEW c \in DOMAIN customerQueues, HasJobs(c)
               PROVE  bypassed[c] <= Len(customerOrder) - 1
    BY DEF BoundedBypass
  <1>1. PICK i \in DOMAIN customerOrder : customerOrder[i] = c
    BY DEF IInv, RotationMatchesQueues
  <1>2. bypassed[c] + Distance(i) <= Len(customerOrder) - 1
    BY <1>1 DEF IInv, BypassIsPaid
  <1>3. /\ bypassed[c] \in Nat
        /\ Len(customerOrder) \in Nat
        /\ nextCustomerIndex \in 0 .. Len(customerOrder) - 1
        /\ i \in 1 .. Len(customerOrder)
    BY <1>1, SMT DEF IInv, TypeOK, RotationMatchesQueues
  <1>4. Distance(i) \in Nat
    BY <1>3, SMT DEF Distance, Ahead
  <1>. QED
    BY <1>2, <1>3, <1>4, SMT

(***************************************************************************)
(* Round-robin fairness of dequeueNextJobLocked, for any number of jobs    *)
(* and customers: a waiting customer is passed over at most once by every  *)
(* other customer known.                                                   *)
(***************************************************************************)
THEOREM RoundRobinFairness == Spec => []BoundedBypass
  BY BypassBound, Invariance, PTL

-----------------------------------------------------------------------------
\* The channel holds at most BufferSize different jobs.
LEMMA ChannelCardinality ==
    ASSUME IInv
    PROVE  /\ IsFiniteSet(InChannel) /\ Cardinality(InChannel) <= Len(output)
           /\ Cardinality(InChannel) <= BufferSize
  <1>1. /\ output \in Seq(Jobs) /\ Len(output) \in Nat /\ DOMAIN output = 1 .. Len(output)
        /\ Len(output) <= BufferSize
    BY SMT DEF IInv, TypeOK, HandAndChannel
  <1>2. output \in Surjection(1 .. Len(output), InChannel)
    BY <1>1, SMT DEF Surjection, InChannel
  <1>3. ExistsSurjection(1 .. Len(output), InChannel)
    BY <1>2 DEF ExistsSurjection
  <1>4. Cardinality(InChannel) <= Len(output)
    BY <1>1, <1>3, FS_SurjCardinalityBound
  <1>5. IsFiniteSet(InChannel)
    BY <1>1, <1>3, FS_NatSurjection
  <1>6. Cardinality(InChannel) \in Nat
    BY <1>5, FS_CardinalityType
  <1>7. Cardinality(InChannel) <= BufferSize
    BY <1>1, <1>4, <1>6, SchedulerAssumption, SMT
  <1>. QED
    BY <1>4, <1>5, <1>7

\* Every step of the scheduler is a step of the job pool, or none.
LEMMA PoolStep == IInv /\ IInv' /\ [Next]_vars => [Pool!Next]_(Pool!poolVars)
  <1> SUFFICES ASSUME IInv, [Next]_vars PROVE Pool!Next \/ UNCHANGED Pool!poolVars
    BY DEF Pool!poolVars
  <1>1. ASSUME NEW added \in Jobs, Enqueue(added) PROVE Pool!Next
    <2>1. Queued' = Queued \cup {added}
      BY <1>1, EnqueueEffect DEF IInv, IsEnqueued
    <2>2. UNCHANGED <<held, output, closed, cancelled>> /\ added \notin InScheduler
      BY <1>1 DEF Enqueue, channelVars
    <2>3. Pool!Enqueue(added)
      BY <2>1, <2>2 DEF Pool!Enqueue, InScheduler, InChannel
    <2>. QED
      BY <2>3 DEF Pool!Next
  <1>2. CASE DequeueNextJob
    <2>1. PICK offset \in 0 .. Len(customerOrder) - 1 : IsServed(offset, ScannedCustomer(offset))
      BY <1>2, DequeueEffect DEF IInv
    <2> DEFINE served == Head(customerQueues[ScannedCustomer(offset)])
    <2>2. served \in Queued /\ served \in Jobs /\ Queued' = Queued \ {served} /\ held' = {served}
      BY <2>1 DEF IsServed, Queued
    <2>3. ~closed /\ ~cancelled /\ UNCHANGED <<output, closed, cancelled>> /\ held = {}
      BY <1>2 DEF DequeueNextJob, Stopping, channelVars, IInv, HandAndChannel
    <2>4. InChannel' = InChannel
      BY <2>3 DEF InChannel
    <2>5. Cardinality(held \cup InChannel) <= BufferSize
      <3>1. held \cup InChannel = InChannel
        BY <2>3
      <3>. QED
        BY <3>1, ChannelCardinality
    <2>6. Pool!Dispatch(served)
      BY <2>2, <2>3, <2>4, <2>5 DEF Pool!Dispatch, Pool!Cardinality, Cardinality
    <2>. QED
      BY <2>2, <2>6 DEF Pool!Next
  <1>3. CASE SendJob
    <2>1. PICK j \in Jobs : held = {j}
      BY <1>3 DEF SendJob, IInv, HandAndChannel
    <2>2. output' = Append(output, j) /\ held' = {} /\ UNCHANGED <<queueVars, closed, cancelled>>
      BY <1>3, <2>1 DEF SendJob
    <2>3. InChannel' = InChannel \cup {j}
      <3>1. /\ output \in Seq(Jobs)
            /\ DOMAIN output = 1 .. Len(output) /\ Len(output) \in Nat
            /\ DOMAIN output' = 1 .. Len(output) + 1
            /\ (output')[Len(output) + 1] = j
            /\ \A i \in 1 .. Len(output) : (output')[i] = output[i]
        BY <2>2, SMT DEF IInv, TypeOK
      <3>. QED
        BY <3>1, SMT DEF InChannel
    <2>. QED
      BY <2>1, <2>2, <2>3 DEF Pool!poolVars, Queued, queueVars
  <1>4. CASE AbandonJob \/ ReceiveDirectly
    <2>1. PICK j \in Jobs : held = {j}
      BY <1>4 DEF AbandonJob, ReceiveDirectly, IInv, HandAndChannel
    <2>2. held' = {} /\ UNCHANGED <<queueVars, output, closed, cancelled>>
      BY <1>4 DEF AbandonJob, ReceiveDirectly, channelVars
    <2>3. Pool!Leave(j)
      BY <2>1, <2>2, SMT DEF Pool!Leave, InChannel, Queued, queueVars, IInv, OnePlace
    <2>. QED
      BY <2>3 DEF Pool!Next
  <1>5. CASE ReceiveBuffered
    <2>1. output' = Tail(output) /\ output # <<>> /\ UNCHANGED <<queueVars, held, closed, cancelled>>
      BY <1>5 DEF ReceiveBuffered
    <2>2. /\ DOMAIN output = 1 .. Len(output) /\ Len(output) \in Nat \ {0}
          /\ DOMAIN output' = 1 .. Len(output) - 1
          /\ \A i \in 1 .. Len(output) - 1 : (output')[i] = output[i + 1]
          /\ output[1] \in Jobs
      BY <2>1, SMT DEF IInv, TypeOK
    <2>3. output[1] \in InChannel
      BY <2>2, SMT DEF InChannel
    <2>4. InChannel' = InChannel \ {output[1]}
      <3>1. ASSUME NEW i \in 1 .. Len(output) - 1 PROVE output[i + 1] \in InChannel \ {output[1]}
        <4>1. i + 1 \in DOMAIN output /\ 1 \in DOMAIN output /\ i + 1 # 1
          BY <2>2, SMT
        <4>. QED
          BY <4>1 DEF InChannel, IInv, OnePlace
      <3>2. ASSUME NEW i \in 1 .. Len(output), output[i] # output[1]
            PROVE  output[i] \in InChannel'
        <4>1. i - 1 \in DOMAIN output' /\ (output')[i - 1] = output[i]
          BY <2>2, <3>2, SMT
        <4>. QED
          BY <4>1 DEF InChannel
      <3>. QED
        BY <2>2, <3>1, <3>2, SMT DEF InChannel
    <2>5. Pool!Leave(output[1])
      BY <2>1, <2>3, <2>4, SMT DEF Pool!Leave, Queued, queueVars, IInv, OnePlace
    <2>. QED
      BY <2>2, <2>5 DEF Pool!Next
  <1>6. CASE Close \/ Cancel
    BY <1>6 DEF Close, Cancel, Pool!Next, Pool!Stop, Queued, InChannel, queueVars, channelVars
  <1>7. CASE WatcherBroadcast \/ FindNothing \/ ConditionWait \/ StopDispatcher \/ UNCHANGED vars
    BY <1>7, SMT DEF WatcherBroadcast, FindNothing, ConditionWait, StopDispatcher, vars,
                Pool!poolVars, Queued, InChannel, queueVars, channelVars
  <1>. QED
    BY <1>1, <1>2, <1>3, <1>4, <1>5, <1>6, <1>7 DEF Next, Dispatcher, Receive

(***************************************************************************)
(* The scheduler of round_robin.go implements JobPool, the scheduler the   *)
(* notifier is modelled with, for any jobs, customers and capacity.        *)
(***************************************************************************)
THEOREM PoolRefinement == Spec => ImplementsJobPool
  <1>1. Init => Pool!Init
    BY SMT DEF Init, Pool!Init, Queued, InChannel
  <1>2. IInv /\ IInv' /\ [Next]_vars => [Pool!Next]_(Pool!poolVars)
    BY PoolStep
  <1>. QED
    BY <1>1, <1>2, Invariance, PTL DEF Spec, ImplementsJobPool, Pool!Spec

-----------------------------------------------------------------------------
(***************************************************************************)
(* The benchmark runs of FairnessRun.  They drive the scheduler only       *)
(* through its operations, so whatever is proved of it holds in a run.     *)
(***************************************************************************)

\* What a step of a run does to the scheduler, and to the jobs still to be enqueued.
LEMMA RunStep ==
    ASSUME claimed \in SUBSET Jobs, [RunNext]_runVars
    PROVE  [Next]_vars /\ claimed' \in SUBSET Jobs
  <1>1. CASE SchedulerStep
    BY <1>1 DEF SchedulerStep, Next
  <1>2. CASE ClaimAvailableDeliveries
    BY <1>2 DEF ClaimAvailableDeliveries, ClaimedDeliveries, Claimable, schedulerVars
  <1>3. CASE EnqueueNext
    BY <1>3 DEF EnqueueNext, Next
  <1>4. CASE StopPoller
    BY <1>4 DEF StopPoller, schedulerVars
  <1>5. ASSUME NEW w \in Workers, Worker(w) PROVE [Next]_vars /\ claimed' \in SUBSET Jobs
    <2>1. CASE TakeJob(w)
      BY <2>1 DEF TakeJob, Next, Receive
    <2>2. CASE LeaveWorker(w) \/ Deliver(w) \/ OnCompletion(w) \/ DeliveryDone(w) \/ MarkDelivered(w)
      <3>1. UNCHANGED <<schedulerVars, claimed>>
        BY <2>2 DEF LeaveWorker, Deliver, OnCompletion, DeliveryDone, MarkDelivered
      <3>. QED
        BY <3>1 DEF schedulerVars
    <2>. QED
      BY <1>5, <2>1, <2>2 DEF Worker
  <1>6. CASE ReceiveJob
    BY <1>6 DEF ReceiveJob, Next, Receive
  <1>7. CASE EndDeliveries
    BY <1>7 DEF EndDeliveries, Next
  <1>8. CASE EndScheduler
    BY <1>8 DEF EndScheduler, Next
  <1>9. CASE WaitForGroup \/ UNCHANGED runVars
    BY <1>9 DEF WaitForGroup, runVars, schedulerVars
  <1>. QED
    BY <1>1, <1>2, <1>3, <1>4, <1>5, <1>6, <1>7, <1>8, <1>9 DEF RunNext, Poller, Main

(***************************************************************************)
(* RunInMemoryFairnessScenario, runSchedulerFairnessWorkerRun and          *)
(* runScenarioBenchmark use the scheduler as it is meant to be used, so    *)
(* what the benchmark measures is the scheduler the notifier runs: every   *)
(* run is a behaviour of RoundRobinScheduler.                              *)
(***************************************************************************)
THEOREM RunsUseScheduler == RunSpec => Spec
  <1>1. RunInit => Init /\ claimed \in SUBSET Jobs
    BY DEF RunInit
  <1>2. claimed \in SUBSET Jobs /\ [RunNext]_runVars => [Next]_vars /\ (claimed \in SUBSET Jobs)'
    BY RunStep
  <1>. QED
    BY <1>1, <1>2, PTL DEF RunSpec, Spec

\* So the scheduler's invariant holds in every run.
LEMMA RunKeepsIInv == RunSpec => []IInv
  BY RunsUseScheduler, Invariance, PTL

-----------------------------------------------------------------------------
\* What the runs keep in their variables.
RunTypeOK ==
    /\ mode \in Modes
    /\ status \in [Jobs -> {"pending", "claimed", "completed"}]
    /\ poller \in {"polling", "done"}
    /\ claimed \in SUBSET Jobs
    /\ worker \in [Workers -> WorkerStates]
    /\ job \in [Workers -> SUBSET Jobs]
    /\ stamp \in [Workers -> Nat]
    /\ clock \in Nat
    /\ deliveryGroup \in Int
    /\ totalCompleted \in Nat
    /\ completionCounts \in [Customers -> Nat]
    /\ firstCompletionTimes \in [Customers -> Nat]
    /\ finishCompletionTimes \in [Customers -> Nat]
    /\ earlyCompletionCounts \in [Customers -> Nat]
    /\ main \in {"delivering", "closing", "waiting", "returned"}
    /\ stamps \in [Customers -> SUBSET Nat]
    /\ overtaken \in [Jobs -> Nat]

\* A worker has a job exactly while it works on it; which of its states occur.
Carrying ==
    \A w \in Workers :
        /\ worker[w] \in {"idle", "done"} => job[w] = {}
        /\ worker[w] \notin {"idle", "done"} => \E j \in Jobs : job[w] = {j}
        /\ worker[w] \in {"reporting", "marking"} => mode = "app"
        /\ mode = "throughput" => worker[w] = "done"

\* The jobs that workers in one of the states S carry.
CarriedIn(S) == {j \in Jobs : \E w \in Workers : worker[w] \in S /\ j \in job[w]}

Carried == CarriedIn(WorkerStates)

\* A job that is being worked on is in one place, and no job is lost.
OneHand ==
    /\ \A j \in Jobs : status[j] = "claimed" <=> j \in claimed \cup InScheduler \cup Carried
    /\ claimed \cap InScheduler = {}
    /\ claimed \cap Carried = {}
    /\ InScheduler \cap Carried = {}
    /\ \A v, w \in Workers : v # w => job[v] \cap job[w] = {}

Completed == {j \in Jobs : status[j] = "completed"}

\* The jobs that are completed or carried in one of the states S.
Past(S) == Completed \cup CarriedIn(S)

\* The jobs for which deliveryGroup.Done() has been called.
Done == Past({"marking"})

\* The WaitGroup counts the other jobs, and nothing is stopped before it is at 0.
Ending ==
    /\ deliveryGroup = Cardinality(Jobs \ Done)
    /\ main # "delivering" => deliveryGroup = 0
    /\ closed \/ cancelled => main # "delivering"
    /\ main = "returned" => \A w \in Workers : worker[w] = "done"

RunInv == IInv /\ RunTypeOK /\ Carrying /\ OneHand /\ Ending

-----------------------------------------------------------------------------
(***************************************************************************)
(* What the operations of the scheduler do to the set of jobs it has.      *)
(***************************************************************************)

\* SendJob moves the job in the dispatcher's hand to the end of the channel.
LEMMA SendEffect ==
    ASSUME IInv, SendJob
    PROVE  \E j \in Jobs :
              /\ held = {j} /\ held' = {}
              /\ output' = Append(output, j)
              /\ InChannel' = InChannel \cup {j}
  <1>1. PICK j \in Jobs : held = {j}
    BY DEF SendJob, IInv, HandAndChannel
  <1>2. output' = Append(output, j) /\ held' = {}
    BY <1>1 DEF SendJob
  <1>3. /\ output \in Seq(Jobs)
        /\ DOMAIN output = 1 .. Len(output) /\ Len(output) \in Nat
        /\ DOMAIN output' = 1 .. Len(output) + 1
        /\ (output')[Len(output) + 1] = j
        /\ \A i \in 1 .. Len(output) : (output')[i] = output[i]
    BY <1>2, SMT DEF IInv, TypeOK
  <1>4. InChannel' = InChannel \cup {j}
    BY <1>3, SMT DEF InChannel
  <1>. QED
    BY <1>1, <1>2, <1>4

\* ReceiveBuffered takes the first job out of the channel.
LEMMA ReceiveEffect ==
    ASSUME IInv, ReceiveBuffered
    PROVE  /\ Head(output) \in Jobs /\ Head(output) \in InChannel
           /\ InChannel' = InChannel \ {Head(output)}
           /\ Len(output) \in Nat \ {0} /\ DOMAIN output = 1 .. Len(output)
           /\ DOMAIN output' = 1 .. Len(output) - 1
           /\ Head(output) = output[1]
           /\ \A i \in 1 .. Len(output) - 1 : (output')[i] = output[i + 1]
  <1>1. output' = Tail(output) /\ output # <<>>
    BY DEF ReceiveBuffered
  <1>2. /\ DOMAIN output = 1 .. Len(output) /\ Len(output) \in Nat \ {0}
        /\ DOMAIN output' = 1 .. Len(output) - 1
        /\ \A i \in 1 .. Len(output) - 1 : (output')[i] = output[i + 1]
        /\ output[1] \in Jobs /\ Head(output) = output[1]
    BY <1>1, SMT DEF IInv, TypeOK
  <1>3. output[1] \in InChannel
    BY <1>2, SMT DEF InChannel
  <1>4. InChannel' = InChannel \ {output[1]}
    <2>1. ASSUME NEW i \in 1 .. Len(output) - 1 PROVE output[i + 1] \in InChannel \ {output[1]}
      <3>1. i + 1 \in DOMAIN output /\ 1 \in DOMAIN output /\ i + 1 # 1
        BY <1>2, SMT
      <3>. QED
        BY <3>1 DEF InChannel, IInv, OnePlace
    <2>2. ASSUME NEW i \in 1 .. Len(output), output[i] # output[1]
          PROVE  output[i] \in InChannel'
      <3>1. i - 1 \in DOMAIN output' /\ (output')[i - 1] = output[i]
        BY <1>2, <2>2, SMT
      <3>. QED
        BY <3>1 DEF InChannel
    <2>. QED
      BY <1>2, <2>1, <2>2, SMT DEF InChannel
  <1>. QED
    BY <1>2, <1>3, <1>4

\* A received job, from the channel or from the dispatcher's hand, has left the scheduler.
LEMMA ReceiveLeaves ==
    ASSUME IInv, NEW k \in SUBSET Jobs,
           \/ ReceiveBuffered /\ k = {Head(output)}
           \/ ReceiveDirectly /\ k = held
    PROVE  /\ \E j \in Jobs : k = {j}
           /\ k \in SUBSET InScheduler
           /\ InScheduler' = InScheduler \ k
           /\ UNCHANGED <<queueVars, closed, cancelled>> /\ Queued' = Queued
  <1>1. UNCHANGED <<queueVars, closed, cancelled>>
    BY DEF ReceiveBuffered, ReceiveDirectly
  <1>2. Queued' = Queued
    BY <1>1, QueuesUntouched
  <1>3. Queued \cap held = {} /\ Queued \cap InChannel = {} /\ held \cap InChannel = {}
    BY DEF IInv, OnePlace
  <1>4. CASE ReceiveBuffered /\ k = {Head(output)}
    <2>1. /\ held' = held
          /\ Head(output) \in Jobs /\ Head(output) \in InChannel
          /\ InChannel' = InChannel \ {Head(output)}
      BY <1>4, ReceiveEffect DEF ReceiveBuffered
    <2>2. InScheduler' = InScheduler \ k
      BY <1>2, <1>3, <1>4, <2>1 DEF InScheduler
    <2>. QED
      BY <1>1, <1>2, <1>4, <2>1, <2>2 DEF InScheduler
  <1>5. CASE ReceiveDirectly /\ k = held
    <2>1. held' = {} /\ output' = output /\ \E j \in Jobs : held = {j}
      BY <1>5 DEF ReceiveDirectly, channelVars, IInv, HandAndChannel
    <2>2. InChannel' = InChannel
      BY <2>1 DEF InChannel
    <2>. QED
      BY <1>1, <1>2, <1>3, <1>5, <2>1, <2>2 DEF InScheduler
  <1>. QED
    BY <1>4, <1>5

\* An enqueued job is added to the scheduler.
LEMMA EnqueueAdds ==
    ASSUME IInv, NEW j \in Jobs, Enqueue(j)
    PROVE  /\ j \notin InScheduler /\ InScheduler' = InScheduler \cup {j}
           /\ UNCHANGED <<closed, cancelled>>
  <1>1. Queued' = Queued \cup {j}
    BY EnqueueEffect DEF IInv, IsEnqueued
  <1>2. UNCHANGED <<held, output, closed, cancelled>> /\ j \notin InScheduler
    BY DEF Enqueue, channelVars
  <1>. QED
    BY <1>1, <1>2 DEF InScheduler, InChannel

\* The dispatcher's own steps lose a job only when the context is cancelled.
LEMMA DispatcherKeeps ==
    ASSUME IInv, Dispatcher \/ WatcherBroadcast \/ Close \/ Cancel
    PROVE  /\ InScheduler' \in SUBSET InScheduler
           /\ ~cancelled => InScheduler' = InScheduler
  <1>1. CASE DequeueNextJob
    <2>1. PICK offset \in 0 .. Len(customerOrder) - 1 : IsServed(offset, ScannedCustomer(offset))
      BY <1>1, DequeueEffect DEF IInv
    <2> DEFINE served == Head(customerQueues[ScannedCustomer(offset)])
    <2>2. served \in Queued /\ Queued' = Queued \ {served} /\ held' = {served}
      BY <2>1 DEF IsServed
    <2>3. output' = output /\ held = {}
      BY <1>1 DEF DequeueNextJob, channelVars, IInv, HandAndChannel
    <2>. HIDE DEF served
    <2>. QED
      BY <2>2, <2>3 DEF InScheduler, InChannel
  <1>2. CASE SendJob
    <2>1. PICK j \in Jobs : held = {j} /\ held' = {} /\ InChannel' = InChannel \cup {j}
      BY <1>2, SendEffect
    <2>2. Queued' = Queued
      BY <1>2, QueuesUntouched DEF SendJob
    <2>. QED
      BY <2>1, <2>2 DEF InScheduler
  <1>3. CASE AbandonJob
    <2>1. held' = {} /\ output' = output /\ cancelled
      BY <1>3 DEF AbandonJob
    <2>2. Queued' = Queued
      BY <1>3, QueuesUntouched DEF AbandonJob
    <2>. QED
      BY <2>1, <2>2 DEF InScheduler, InChannel
  <1>4. CASE FindNothing \/ ConditionWait \/ StopDispatcher \/ WatcherBroadcast \/ Close \/ Cancel
    <2>1. UNCHANGED <<queueVars, output, held>>
      BY <1>4 DEF Close, Cancel, WatcherBroadcast, FindNothing, ConditionWait, StopDispatcher,
                  channelVars
    <2>2. Queued' = Queued
      BY <2>1, QueuesUntouched
    <2>. QED
      BY <2>1, <2>2 DEF InScheduler, InChannel
  <1>. QED
    BY <1>1, <1>2, <1>3, <1>4 DEF Dispatcher

-----------------------------------------------------------------------------
(***************************************************************************)
(* The jobs in the workers' hands.                                         *)
(***************************************************************************)

\* Worker w goes on to another state, with the jobs J in its hands.
Hands(w, to, J) ==
    /\ worker' = [worker EXCEPT ![w] = to]
    /\ job' = [job EXCEPT ![w] = J]

\* What that does to the jobs the workers in some states carry.
LEMMA HandsEffect ==
    ASSUME RunTypeOK, OneHand, NEW w \in Workers, NEW to, NEW J \in SUBSET Jobs, Hands(w, to, J), NEW S
    PROVE  CarriedIn(S)' = (CarriedIn(S) \ job[w]) \cup {j \in J : to \in S}
  <1>1. /\ worker'[w] = to /\ \A v \in Workers : v # w => worker'[v] = worker[v]
        /\ job'[w] = J /\ \A v \in Workers : v # w => job'[v] = job[v]
    BY DEF Hands, RunTypeOK
  <1>2. \A v \in Workers : v # w => job[v] \cap job[w] = {}
    BY DEF OneHand
  <1>3. ASSUME NEW j \in CarriedIn(S)' PROVE j \in (CarriedIn(S) \ job[w]) \cup {i \in J : to \in S}
    <2>1. PICK v \in Workers : worker'[v] \in S /\ j \in job'[v]
      BY DEF CarriedIn
    <2>2. j \in Jobs
      BY DEF CarriedIn
    <2>. QED
      BY <1>1, <1>2, <2>1, <2>2 DEF CarriedIn
  <1>4. ASSUME NEW j \in CarriedIn(S), j \notin job[w] PROVE j \in CarriedIn(S)'
    <2>1. PICK v \in Workers : worker[v] \in S /\ j \in job[v]
      BY DEF CarriedIn
    <2>2. v # w /\ j \in Jobs
      BY <1>4, <2>1 DEF CarriedIn
    <2>. QED
      BY <1>1, <2>1, <2>2 DEF CarriedIn
  <1>5. ASSUME NEW j \in J, to \in S PROVE j \in CarriedIn(S)'
    BY <1>1, <1>5 DEF CarriedIn
  <1>. QED
    BY <1>3, <1>4, <1>5

\* The other steps leave them alone.
LEMMA HandsKept ==
    ASSUME UNCHANGED <<worker, job>>, NEW S
    PROVE  CarriedIn(S)' = CarriedIn(S)
  BY DEF CarriedIn

\* Everything a worker has in its hands is carried in its state.
LEMMA InHand ==
    ASSUME RunTypeOK, NEW w \in Workers, NEW S
    PROVE  worker[w] \in S => job[w] \in SUBSET CarriedIn(S)
  BY DEF RunTypeOK, CarriedIn

\* A worker's job is not carried in states other than its own.
LEMMA NotInOtherStates ==
    ASSUME RunTypeOK, OneHand, NEW w \in Workers, NEW S, worker[w] \notin S
    PROVE  job[w] \cap CarriedIn(S) = {}
  BY DEF OneHand, CarriedIn

\* When the WaitGroup is at 0, every job is done.
LEMMA AllDone ==
    ASSUME RunInv, deliveryGroup = 0
    PROVE  Jobs \ Done = {} /\ InScheduler = {} /\ claimed = {}
  <1>1. IsFiniteSet(Jobs \ Done)
    BY FairnessRunAssumption, FS_Difference
  <1>2. Jobs \ Done = {}
    BY <1>1, FS_EmptySet DEF RunInv, Ending
  <1>3. ASSUME NEW j \in Jobs, j \in InScheduler \cup claimed PROVE FALSE
    <2>1. status[j] = "claimed" /\ j \in Done
      BY <1>2, <1>3 DEF RunInv, OneHand
    <2>2. j \in CarriedIn({"marking"})
      BY <2>1 DEF Done, Past, Completed
    <2>3. j \in Carried
      BY <2>2 DEF CarriedIn, Carried, WorkerStates
    <2>. QED
      BY <1>3, <2>3 DEF RunInv, OneHand
  <1>4. InScheduler \in SUBSET Jobs
    <2>1. Queued \in SUBSET Jobs
      BY DEF Queued
    <2>2. held \in SUBSET Jobs /\ output \in Seq(Jobs)
      BY DEF RunInv, IInv, TypeOK
    <2>3. InChannel \in SUBSET Jobs
      BY <2>2, SMT DEF InChannel
    <2>. QED
      BY <2>1, <2>2, <2>3 DEF InScheduler
  <1>5. claimed \in SUBSET Jobs
    BY DEF RunInv, RunTypeOK
  <1>. QED
    BY <1>2, <1>3, <1>4, <1>5

-----------------------------------------------------------------------------
(***************************************************************************)
(* Every step of a run keeps the invariant.  First the steps that move no  *)
(* job in or out of anybody's hands.                                       *)
(***************************************************************************)
LEMMA QuietStep ==
    ASSUME RunInv, \/ SchedulerStep \/ StopPoller \/ EndDeliveries \/ EndScheduler \/ WaitForGroup
                   \/ UNCHANGED runVars
    PROVE  RunTypeOK' /\ Carrying' /\ OneHand' /\ Ending'
  <1>1. UNCHANGED <<mode, status, claimed, workerVars, deliveryGroup, summaryVars>>
    BY DEF SchedulerStep, StopPoller, EndDeliveries, EndScheduler, WaitForGroup, runVars
  <1>2. /\ poller' \in {"polling", "done"} /\ main' \in {"delivering", "closing", "waiting", "returned"}
        /\ main # "delivering" => main' # "delivering"
        /\ main' # "delivering" => deliveryGroup = 0
    BY DEF SchedulerStep, StopPoller, EndDeliveries, EndScheduler, WaitForGroup, runVars,
           RunInv, RunTypeOK, Ending
  <1>3. RunTypeOK'
    BY <1>1, <1>2 DEF RunInv, RunTypeOK, workerVars, summaryVars
  <1>4. Carrying'
    BY <1>1 DEF RunInv, Carrying, workerVars
  <1>5. InScheduler' = InScheduler
    <2>1. CASE SchedulerStep \/ EndDeliveries \/ EndScheduler
      <3>1. InScheduler' \in SUBSET InScheduler /\ (~cancelled => InScheduler' = InScheduler)
        BY <2>1, DispatcherKeeps DEF SchedulerStep, EndDeliveries, EndScheduler, RunInv
      <3>2. cancelled => InScheduler = {}
        BY AllDone DEF RunInv, Ending
      <3>. QED
        BY <3>1, <3>2
    <2>2. CASE StopPoller \/ WaitForGroup \/ UNCHANGED runVars
      <3>1. UNCHANGED vars
        BY <2>2 DEF StopPoller, WaitForGroup, runVars, schedulerVars
      <3>. QED
        BY <3>1 DEF vars, queueVars, channelVars, InScheduler, Queued, InChannel
    <2>. QED
      BY <2>1, <2>2
  <1>6. \A S : CarriedIn(S)' = CarriedIn(S)
    BY <1>1 DEF CarriedIn, workerVars
  <1>7. Carried' = Carried
    BY <1>6 DEF Carried
  <1>8. OneHand'
    BY <1>1, <1>5, <1>7 DEF RunInv, OneHand, workerVars
  <1>9. Ending'
    <2>1. Done' = Done
      BY <1>1, <1>6 DEF Done, Past, Completed
    <2>2. closed' \/ cancelled' => main' # "delivering"
      <3>1. CASE SchedulerStep
        <4>1. UNCHANGED <<closed, cancelled>>
          BY <3>1 DEF SchedulerStep, Dispatcher, DequeueNextJob, FindNothing, ConditionWait,
                      StopDispatcher, SendJob, AbandonJob, WatcherBroadcast
        <4>. QED
          BY <1>2, <4>1 DEF RunInv, Ending
      <3>2. CASE EndDeliveries \/ EndScheduler \/ WaitForGroup
        BY <3>2 DEF EndDeliveries, EndScheduler, WaitForGroup
      <3>3. CASE StopPoller \/ UNCHANGED runVars
        BY <3>3 DEF StopPoller, runVars, schedulerVars, vars, RunInv, Ending
      <3>. QED
        BY <3>1, <3>2, <3>3
    <2>3. main' = "returned" => \A w \in Workers : worker'[w] = "done"
      <3>1. CASE WaitForGroup
        BY <1>1, <3>1 DEF WaitForGroup, workerVars
      <3>2. CASE ~WaitForGroup
        <4>1. main' = "returned" => main = "returned"
          BY <3>2 DEF SchedulerStep, StopPoller, EndDeliveries, EndScheduler, runVars
        <4>. QED
          BY <1>1, <4>1 DEF RunInv, Ending, workerVars
      <3>. QED
        BY <3>1, <3>2
    <2>4. deliveryGroup' = Cardinality(Jobs \ Done')
      BY <1>1, <2>1 DEF RunInv, Ending
    <2>. QED
      BY <1>1, <1>2, <2>2, <2>3, <2>4 DEF Ending
  <1>. QED
    BY <1>3, <1>4, <1>8, <1>9

-----------------------------------------------------------------------------
\* The claim moves pending items into the poller's batch.
LEMMA ClaimStep ==
    ASSUME RunInv, ClaimAvailableDeliveries
    PROVE  RunTypeOK' /\ Carrying' /\ OneHand' /\ Ending'
  <1>1. /\ UNCHANGED <<mode, schedulerVars, poller, workerVars, deliveryGroup, summaryVars, main>>
        /\ claimed = {} /\ claimed' = Claimable
        /\ status' = [j \in Jobs |-> IF j \in Claimable THEN "claimed" ELSE status[j]]
    BY DEF ClaimAvailableDeliveries, ClaimedDeliveries, MarkClaimed
  <1>2. Claimable \in SUBSET Jobs /\ \A j \in Claimable : status[j] = "pending"
    BY DEF Claimable
  <1>. HIDE DEF Claimable
  <1>3. RunTypeOK'
    BY <1>1, <1>2 DEF RunInv, RunTypeOK, workerVars, summaryVars
  <1>4. Carrying'
    BY <1>1 DEF RunInv, Carrying, workerVars
  <1>5. InScheduler' = InScheduler
    BY <1>1 DEF schedulerVars, vars, queueVars, channelVars, InScheduler, Queued, InChannel
  <1>6. \A S : CarriedIn(S)' = CarriedIn(S)
    BY <1>1 DEF CarriedIn, workerVars
  <1>7. Carried' = Carried
    BY <1>6 DEF Carried
  <1>8. Claimable \cap (InScheduler \cup Carried) = {}
    BY <1>2 DEF RunInv, OneHand
  <1>9. ASSUME NEW j \in Jobs
        PROVE  status'[j] = "claimed" <=> j \in claimed' \cup InScheduler' \cup Carried'
    BY <1>1, <1>5, <1>7 DEF RunInv, OneHand
  <1>10. OneHand'
    <2>1. \A v, w \in Workers : v # w => job'[v] \cap job'[w] = {}
      BY <1>1 DEF RunInv, OneHand, workerVars
    <2>2. InScheduler \cap Carried = {}
      BY DEF RunInv, OneHand
    <2>. QED
      BY <1>1, <1>5, <1>7, <1>8, <1>9, <2>1, <2>2 DEF OneHand
  <1>11. Done' = Done
    <2>1. Completed' = Completed
      BY <1>1, <1>2 DEF Completed
    <2>. QED
      BY <1>6, <2>1 DEF Done, Past
  <1>12. Ending'
    BY <1>1, <1>11 DEF RunInv, Ending, schedulerVars, vars, workerVars
  <1>. QED
    BY <1>3, <1>4, <1>10, <1>12

\* The loop around Enqueue hands a job over to the scheduler.
LEMMA EnqueueNextStep ==
    ASSUME RunInv, EnqueueNext
    PROVE  RunTypeOK' /\ Carrying' /\ OneHand' /\ Ending'
  <1>1. UNCHANGED <<mode, status, poller, workerVars, deliveryGroup, summaryVars, main>>
    BY DEF EnqueueNext
  <1>2. PICK j \in claimed : Enqueue(j) /\ claimed' = claimed \ {j}
    BY DEF EnqueueNext
  <1>3. j \in Jobs
    BY DEF RunInv, RunTypeOK
  <1>4. InScheduler' = InScheduler \cup {j} /\ UNCHANGED <<closed, cancelled>>
    BY <1>2, <1>3, EnqueueAdds DEF RunInv
  <1>5. RunTypeOK'
    BY <1>1, <1>2 DEF RunInv, RunTypeOK, workerVars, summaryVars
  <1>6. Carrying'
    BY <1>1 DEF RunInv, Carrying, workerVars
  <1>7. \A S : CarriedIn(S)' = CarriedIn(S)
    BY <1>1 DEF CarriedIn, workerVars
  <1>8. Carried' = Carried
    BY <1>7 DEF Carried
  <1>9. OneHand'
    <2>1. \A v, w \in Workers : v # w => job'[v] \cap job'[w] = {}
      BY <1>1 DEF RunInv, OneHand, workerVars
    <2>2. \A i \in Jobs : status'[i] = "claimed" <=> i \in claimed' \cup InScheduler' \cup Carried'
      BY <1>1, <1>2, <1>4, <1>8 DEF RunInv, OneHand
    <2>. QED
      BY <1>2, <1>4, <1>8, <2>1, <2>2 DEF RunInv, OneHand
  <1>10. Done' = Done
    BY <1>1, <1>7 DEF Done, Past, Completed
  <1>11. Ending'
    BY <1>1, <1>4, <1>10 DEF RunInv, Ending, workerVars
  <1>. QED
    BY <1>5, <1>6, <1>9, <1>11

\* One more job is done: the WaitGroup goes down by one.
LEMMA GroupStep ==
    ASSUME RunInv, NEW D, NEW j \in Jobs \ Done, D = Done \cup {j}
    PROVE  /\ deliveryGroup - 1 = Cardinality(Jobs \ D) /\ deliveryGroup # 0
           /\ main = "delivering"
  <1>1. IsFiniteSet(Jobs \ Done)
    BY FairnessRunAssumption, FS_Difference
  <1>2. Jobs \ D = (Jobs \ Done) \ {j}
    OBVIOUS
  <1>3. Cardinality(Jobs \ D) = Cardinality(Jobs \ Done) - 1
    BY <1>1, <1>2, FS_RemoveElement
  <1>4. deliveryGroup # 0
    BY AllDone
  <1>. QED
    BY <1>3, <1>4 DEF RunInv, Ending

\* The main goroutine of the throughput run takes a job itself.
LEMMA ReceiveJobStep ==
    ASSUME RunInv, ReceiveJob
    PROVE  RunTypeOK' /\ Carrying' /\ OneHand' /\ Ending'
  <1>1. /\ UNCHANGED <<mode, poller, claimed, workerVars, summaryVars, main>>
        /\ mode = "throughput"
        /\ deliveryGroup' = IF main = "delivering" THEN deliveryGroup - 1 ELSE deliveryGroup
    BY DEF ReceiveJob
  <1>2. status \in [Jobs -> {"pending", "claimed", "completed"}]
    BY DEF RunInv, RunTypeOK
  <1>3. PICK k \in SUBSET Jobs :
              /\ \/ ReceiveBuffered /\ k = {Head(output)}
                 \/ ReceiveDirectly /\ k = held
              /\ status' = [i \in Jobs |-> IF i \in k THEN "completed" ELSE status[i]]
    <2>1. CASE ReceiveBuffered /\ status' = [status EXCEPT ![Head(output)] = "completed"]
      <3>1. {Head(output)} \in SUBSET Jobs
        BY <2>1, ReceiveEffect DEF RunInv
      <3>2. status' = [i \in Jobs |-> IF i \in {Head(output)} THEN "completed" ELSE status[i]]
        BY <1>2, <2>1
      <3>. QED
        BY <2>1, <3>1, <3>2
    <2>2. CASE /\ ReceiveDirectly
               /\ status' = [j \in Jobs |-> IF j \in held THEN "completed" ELSE status[j]]
      BY <2>2 DEF RunInv, IInv, TypeOK
    <2>. QED
      BY <2>1, <2>2 DEF ReceiveJob
  <1>4. /\ \E j \in Jobs : k = {j}
        /\ k \in SUBSET InScheduler
        /\ InScheduler' = InScheduler \ k
        /\ UNCHANGED <<closed, cancelled>>
    BY <1>3, ReceiveLeaves DEF RunInv
  <1>5. PICK j \in Jobs : k = {j}
    BY <1>4
  <1>6. status[j] = "claimed" /\ j \notin Carried /\ j \notin claimed
    BY <1>4, <1>5 DEF RunInv, OneHand
  <1>7. \A S : CarriedIn(S)' = CarriedIn(S)
    BY <1>1 DEF CarriedIn, workerVars
  <1>8. Carried' = Carried
    BY <1>7 DEF Carried
  <1>9. j \notin Done
    BY <1>6 DEF Done, Past, Completed, Carried, CarriedIn, WorkerStates
  <1>10. Done' = Done \cup {j}
    <2>1. Completed' = Completed \cup {j}
      BY <1>2, <1>3, <1>5 DEF Completed
    <2>. QED
      BY <1>7, <2>1 DEF Done, Past
  <1>11. main = "delivering" /\ deliveryGroup' = Cardinality(Jobs \ Done')
    BY <1>1, <1>9, <1>10, GroupStep
  <1>12. RunTypeOK'
    <2>1. deliveryGroup' \in Int
      BY <1>1, <1>11, SMT DEF RunInv, RunTypeOK
    <2>. QED
      BY <1>1, <1>2, <1>3, <2>1 DEF RunInv, RunTypeOK, workerVars, summaryVars
  <1>13. Carrying'
    BY <1>1 DEF RunInv, Carrying, workerVars
  <1>14. OneHand'
    <2>1. \A v, w \in Workers : v # w => job'[v] \cap job'[w] = {}
      BY <1>1 DEF RunInv, OneHand, workerVars
    <2>2. ASSUME NEW i \in Jobs
          PROVE  status'[i] = "claimed" <=> i \in claimed' \cup InScheduler' \cup Carried'
      <3>1. status'[i] = IF i = j THEN "completed" ELSE status[i]
        BY <1>3, <1>5
      <3>. QED
        BY <1>1, <1>4, <1>5, <1>6, <1>8, <3>1 DEF RunInv, OneHand
    <2>. QED
      BY <1>1, <1>4, <1>8, <2>1, <2>2 DEF RunInv, OneHand
  <1>15. Ending'
    BY <1>1, <1>4, <1>11 DEF RunInv, Ending, workerVars
  <1>. QED
    BY <1>12, <1>13, <1>14, <1>15

-----------------------------------------------------------------------------
(***************************************************************************)
(* A step of worker w from one state to another that leaves it with the    *)
(* jobs J: it takes them from the scheduler, keeps them or completes them. *)
(***************************************************************************)
IsWorkerStep(w, from, to, J) ==
    /\ worker[w] = from
    /\ Hands(w, to, J)
    /\ J \in SUBSET (job[w] \cup InScheduler)
    /\ InScheduler' = InScheduler \ J
    /\ status' = [j \in Jobs |-> IF j \in job[w] /\ j \notin J THEN "completed" ELSE status[j]]
    /\ UNCHANGED <<mode, claimed, main, closed, cancelled>>
    /\ mode # "throughput" /\ from # "done" /\ to \in WorkerStates
    /\ to \in {"idle", "done"} => J = {}
    /\ to \notin {"idle", "done"} => \E j \in Jobs : J = {j}
    /\ to \in {"reporting", "marking"} => mode = "app"

\* A job is past some states from then on.
LEMMA WorkerPast ==
    ASSUME RunInv, NEW w \in Workers, NEW from, NEW to, NEW J, IsWorkerStep(w, from, to, J), NEW S
    PROVE  Past(S)' = (Past(S) \ job[w]) \cup (job[w] \ J) \cup {j \in J : to \in S}
  <1>1. J \in SUBSET Jobs /\ job[w] \in SUBSET Jobs
    BY DEF IsWorkerStep, WorkerStates, RunInv, RunTypeOK
  <1>2. CarriedIn(S)' = (CarriedIn(S) \ job[w]) \cup {j \in J : to \in S}
    <2>1. RunTypeOK /\ OneHand /\ Hands(w, to, J)
      BY DEF IsWorkerStep, RunInv
    <2>. QED
      BY <1>1, <2>1, HandsEffect, SMT
  <1>3. \A j \in Jobs : status'[j] = IF j \in job[w] /\ j \notin J THEN "completed" ELSE status[j]
    BY DEF IsWorkerStep
  <1>4. \A j \in job[w] : status[j] = "claimed"
    <2>1. job[w] \in SUBSET Carried
      BY InHand DEF RunInv, Carried, RunTypeOK
    <2>. QED
      BY <1>1, <2>1 DEF RunInv, OneHand
  <1>5. Completed \cap job[w] = {}
    BY <1>4 DEF Completed
  <1>6. Completed' = Completed \cup (job[w] \ J)
    BY <1>1, <1>3 DEF Completed
  <1>. QED
    BY <1>2, <1>5, <1>6 DEF Past

\* Such a step leaves every job in one place.
LEMMA WorkerPlaces ==
    ASSUME RunInv, NEW w \in Workers, NEW from, NEW to, NEW J, IsWorkerStep(w, from, to, J)
    PROVE  Carrying' /\ OneHand'
  <1>1. J \in SUBSET Jobs /\ job[w] \in SUBSET Jobs /\ InScheduler \cap job[w] = {}
    <2>1. job[w] \in SUBSET Carried
      BY InHand DEF RunInv, Carried, RunTypeOK
    <2>. QED
      BY <2>1 DEF IsWorkerStep, WorkerStates, RunInv, RunTypeOK, OneHand
  <1>2. /\ worker'[w] = to /\ \A v \in Workers : v # w => worker'[v] = worker[v]
        /\ job'[w] = J /\ \A v \in Workers : v # w => job'[v] = job[v]
    BY DEF IsWorkerStep, Hands, RunInv, RunTypeOK
  <1>3. Carried' = (Carried \ job[w]) \cup J
    <2>1. to \in WorkerStates
      BY DEF IsWorkerStep
    <2>2. RunTypeOK /\ OneHand /\ Hands(w, to, J)
      BY DEF IsWorkerStep, RunInv
    <2>3. CarriedIn(WorkerStates)' = (CarriedIn(WorkerStates) \ job[w]) \cup {j \in J : to \in WorkerStates}
      BY <1>1, <2>2, HandsEffect, SMT
    <2>4. Carried' = (Carried \ job[w]) \cup {j \in J : to \in WorkerStates}
      BY <2>3 DEF Carried
    <2>. QED
      BY <2>1, <2>4
  <1>4. job[w] \in SUBSET Carried
    BY InHand DEF RunInv, Carried, RunTypeOK
  <1>5. Carrying'
    BY <1>2 DEF RunInv, Carrying, IsWorkerStep
  <1>6. ASSUME NEW j \in Jobs
        PROVE  status'[j] = "claimed" <=> j \in claimed' \cup InScheduler' \cup Carried'
    <2>1. /\ status'[j] = IF j \in job[w] /\ j \notin J THEN "completed" ELSE status[j]
          /\ claimed' = claimed /\ InScheduler' = InScheduler \ J
          /\ J \in SUBSET (job[w] \cup InScheduler)
      BY DEF IsWorkerStep
    <2>2. status[j] = "claimed" <=> j \in claimed \cup InScheduler \cup Carried
      BY DEF RunInv, OneHand
    <2>3. claimed \cap Carried = {} /\ InScheduler \cap Carried = {}
      BY DEF RunInv, OneHand
    <2>4. CASE j \in job[w]
      BY <1>3, <1>4, <2>1, <2>2, <2>3, <2>4
    <2>5. CASE j \notin job[w]
      BY <1>3, <1>4, <2>1, <2>2, <2>3, <2>5
    <2>. QED
      BY <2>4, <2>5
  <1>7. \A u, v \in Workers : u # v => job'[u] \cap job'[v] = {}
    <2>1. ASSUME NEW v \in Workers, v # w PROVE J \cap job[v] = {}
      <3>1. job[v] \in SUBSET Carried
        BY InHand DEF RunInv, Carried, RunTypeOK
      <3>2. job[w] \cap job[v] = {} /\ InScheduler \cap Carried = {}
        BY <2>1 DEF RunInv, OneHand
      <3>. QED
        BY <3>1, <3>2 DEF IsWorkerStep
    <2>2. \A u, v \in Workers : u # v => job[u] \cap job[v] = {}
      BY DEF RunInv, OneHand
    <2>. QED
      BY <1>2, <2>1, <2>2
  <1>8. claimed' \cap InScheduler' = {} /\ claimed' \cap Carried' = {} /\ InScheduler' \cap Carried' = {}
    <2>1. /\ claimed' = claimed /\ InScheduler' = InScheduler \ J
          /\ J \in SUBSET (job[w] \cup InScheduler)
      BY DEF IsWorkerStep
    <2>2. claimed \cap InScheduler = {} /\ claimed \cap Carried = {} /\ InScheduler \cap Carried = {}
      BY DEF RunInv, OneHand
    <2>. QED
      BY <1>3, <1>4, <2>1, <2>2
  <1>. QED
    BY <1>5, <1>6, <1>7, <1>8 DEF OneHand

\* The WaitGroup goes down when the worker passes deliveryGroup.Done().
LEMMA WorkerEnding ==
    ASSUME RunInv, NEW w \in Workers, NEW from, NEW to, NEW J, IsWorkerStep(w, from, to, J),
           \/ /\ deliveryGroup' = deliveryGroup - 1
              /\ from = "reported"
              /\ \/ to = "marking" /\ J = job[w]
                 \/ to = "idle"
           \/ /\ deliveryGroup' = deliveryGroup
              /\ \/ to # "marking" /\ from # "marking" /\ job[w] \in SUBSET J
                 \/ to = "idle" /\ from = "marking"
    PROVE  Ending' /\ deliveryGroup' \in Int
  <1>1. UNCHANGED <<main, closed, cancelled>> /\ worker[w] # "done" /\ worker[w] = from
    BY DEF IsWorkerStep
  <1>2. Done' = (Done \ job[w]) \cup (job[w] \ J) \cup {j \in J : to \in {"marking"}}
    <2>1. Past({"marking"})' =
              (Past({"marking"}) \ job[w]) \cup (job[w] \ J) \cup {j \in J : to \in {"marking"}}
      BY WorkerPast, SMT
    <2>. QED
      BY <2>1 DEF Done
  <1>3. main # "returned"
    BY <1>1 DEF RunInv, Ending
  <1>4. deliveryGroup \in Int
    BY DEF RunInv, RunTypeOK
  <1>5. CASE /\ deliveryGroup' = deliveryGroup - 1
             /\ from = "reported"
             /\ \/ to = "marking" /\ J = job[w]
                \/ to = "idle"
    <2>1. PICK j \in Jobs : job[w] = {j}
      BY <1>1, <1>5 DEF RunInv, Carrying
    <2>2. j \notin Done
      <3>1. job[w] \cap CarriedIn({"marking"}) = {}
        BY <1>1, <1>5, NotInOtherStates DEF RunInv
      <3>2. status[j] = "claimed"
        <4>1. j \in Carried
          BY <2>1, InHand DEF RunInv, Carried, RunTypeOK
        <4>. QED
          BY <4>1 DEF RunInv, OneHand
      <3>. QED
        BY <2>1, <3>1, <3>2 DEF Done, Past, Completed
    <2>3. Done' = Done \cup {j}
      <3>1. CASE to = "marking" /\ J = job[w]
        BY <1>2, <2>1, <2>2, <3>1
      <3>2. CASE to = "idle"
        <4>1. J = {}
          BY <3>2 DEF IsWorkerStep
        <4>. QED
          BY <1>2, <2>1, <2>2, <3>2, <4>1
      <3>. QED
        BY <1>5, <3>1, <3>2
    <2>4. deliveryGroup' = Cardinality(Jobs \ Done') /\ main = "delivering"
      BY <1>5, <2>2, <2>3, GroupStep
    <2>5. deliveryGroup' \in Int
      BY <1>4, <1>5, SMT
    <2>. QED
      BY <1>1, <1>3, <2>4, <2>5 DEF RunInv, Ending
  <1>6. CASE /\ deliveryGroup' = deliveryGroup
             /\ \/ to # "marking" /\ from # "marking" /\ job[w] \in SUBSET J
                \/ to = "idle" /\ from = "marking"
    <2>1. CASE to # "marking" /\ from # "marking" /\ job[w] \in SUBSET J
      <3>1. job[w] \cap CarriedIn({"marking"}) = {}
        BY <1>1, <2>1, NotInOtherStates DEF RunInv
      <3>2. job[w] \cap Completed = {}
        <4>1. job[w] \in SUBSET Carried
          BY InHand DEF RunInv, Carried, RunTypeOK
        <4>. QED
          BY <4>1 DEF RunInv, OneHand, Completed
      <3>. QED
        BY <1>1, <1>2, <1>3, <1>4, <1>6, <2>1, <3>1, <3>2 DEF RunInv, Ending, Done, Past
    <2>2. CASE to = "idle" /\ from = "marking"
      <3>1. J = {}
        BY <2>2 DEF IsWorkerStep
      <3>2. job[w] \in SUBSET Done
        BY <1>1, <2>2, InHand DEF RunInv, Done, Past
      <3>3. Done' = Done
        BY <1>2, <2>2, <3>1, <3>2
      <3>. QED
        BY <1>1, <1>3, <1>4, <1>6, <3>3 DEF RunInv, Ending
    <2>. QED
      BY <1>6, <2>1, <2>2
  <1>. QED
    BY <1>5, <1>6

-----------------------------------------------------------------------------
\* A worker that goes on with its job in hand, without touching queue or scheduler.
LEMMA KeepsJob ==
    ASSUME RunInv, NEW w \in Workers, NEW to \in WorkerStates,
           worker[w] # "done",
           (worker[w] = "idle") <=> (to \in {"idle", "done"}),
           to \in {"reporting", "marking"} => mode = "app",
           worker' = [worker EXCEPT ![w] = to],
           UNCHANGED <<mode, schedulerVars, status, claimed, job, main>>
    PROVE  IsWorkerStep(w, worker[w], to, job[w])
  <1>1. job' = [job EXCEPT ![w] = job[w]]
    BY DEF RunInv, RunTypeOK
  <1>2. mode # "throughput"
    BY DEF RunInv, Carrying
  <1>3. InScheduler' = InScheduler /\ UNCHANGED <<closed, cancelled>>
    BY DEF schedulerVars, vars, queueVars, channelVars, InScheduler, Queued, InChannel
  <1>4. InScheduler \cap job[w] = {}
    <2>1. job[w] \in SUBSET Carried
      BY InHand DEF RunInv, Carried, RunTypeOK
    <2>. QED
      BY <2>1 DEF RunInv, OneHand
  <1>5. status' = [j \in Jobs |-> IF j \in job[w] /\ j \notin job[w] THEN "completed" ELSE status[j]]
    BY DEF RunInv, RunTypeOK
  <1>6. /\ to \in {"idle", "done"} => job[w] = {}
        /\ to \notin {"idle", "done"} => \E j \in Jobs : job[w] = {j}
    BY DEF RunInv, Carrying
  <1>. QED
    BY <1>1, <1>2, <1>3, <1>4, <1>5, <1>6 DEF IsWorkerStep, Hands

\* A worker that completes its job.
LEMMA EndsJob ==
    ASSUME RunInv, NEW w \in Workers, worker[w] \in {"reported", "marking"}, FinishJob(w),
           UNCHANGED <<mode, schedulerVars, claimed, main>>
    PROVE  IsWorkerStep(w, worker[w], "idle", {})
  <1>1. mode # "throughput"
    BY DEF RunInv, Carrying
  <1>2. InScheduler' = InScheduler /\ UNCHANGED <<closed, cancelled>>
    BY DEF schedulerVars, vars, queueVars, channelVars, InScheduler, Queued, InChannel
  <1>3. status' = [j \in Jobs |-> IF j \in job[w] /\ j \notin {} THEN "completed" ELSE status[j]]
    BY DEF FinishJob
  <1>. QED
    BY <1>1, <1>2, <1>3 DEF IsWorkerStep, Hands, FinishJob, WorkerStates

\* A worker that takes a job, from the channel or from the dispatcher's hand.
LEMMA TakesJob ==
    ASSUME RunInv, NEW w \in Workers, TakeJob(w)
    PROVE  \E k \in SUBSET Jobs :
              /\ \/ ReceiveBuffered /\ k = {Head(output)}
                 \/ ReceiveDirectly /\ k = held
              /\ IsWorkerStep(w, "idle", "delivering", k)
              /\ job'[w] = k
  <1>1. PICK k \in SUBSET Jobs :
              /\ \/ ReceiveBuffered /\ k = {Head(output)}
                 \/ ReceiveDirectly /\ k = held
              /\ job' = [job EXCEPT ![w] = k]
    <2>1. CASE ReceiveBuffered /\ job' = [job EXCEPT ![w] = {Head(output)}]
      <3>1. {Head(output)} \in SUBSET Jobs
        BY <2>1, ReceiveEffect DEF RunInv
      <3>. QED
        BY <2>1, <3>1
    <2>2. CASE ReceiveDirectly /\ job' = [job EXCEPT ![w] = held]
      BY <2>2 DEF RunInv, IInv, TypeOK
    <2>. QED
      BY <2>1, <2>2 DEF TakeJob
  <1>2. /\ \E j \in Jobs : k = {j}
        /\ k \in SUBSET InScheduler
        /\ InScheduler' = InScheduler \ k
        /\ UNCHANGED <<closed, cancelled>>
    BY <1>1, ReceiveLeaves DEF RunInv
  <1>3. /\ worker[w] = "idle" /\ worker' = [worker EXCEPT ![w] = "delivering"]
        /\ UNCHANGED <<mode, status, claimed, main>>
    BY DEF TakeJob
  <1>4. mode # "throughput" /\ job[w] = {}
    BY <1>3 DEF RunInv, Carrying
  <1>5. status' = [j \in Jobs |-> IF j \in job[w] /\ j \notin k THEN "completed" ELSE status[j]]
    BY <1>3, <1>4 DEF RunInv, RunTypeOK
  <1>6. job'[w] = k
    BY <1>1 DEF RunInv, RunTypeOK
  <1>. QED
    BY <1>1, <1>2, <1>3, <1>4, <1>5, <1>6 DEF IsWorkerStep, Hands, WorkerStates

-----------------------------------------------------------------------------
\* The clock ticks once for each job.
LEMMA ClockEffect ==
    ASSUME RunInv, NEW w \in Workers, ReadClock(w)
    PROVE  /\ clock' = clock + 1 /\ clock' \in Nat
           /\ stamp' \in [Workers -> Nat] /\ stamp'[w] = clock'
           /\ \A v \in Workers : v # w => stamp'[v] = stamp[v]
           /\ stamps' \in [Customers -> SUBSET Nat]
           /\ \E j \in job[w] :
                 /\ CustomerOf[j] \in Customers
                 /\ stamps'[CustomerOf[j]] = stamps[CustomerOf[j]] \cup {clock'}
                 /\ \A c \in Customers : c # CustomerOf[j] => stamps'[c] = stamps[c]
  <1>1. clock' = clock + 1 /\ clock' \in Nat
    BY SMT DEF ReadClock, RunInv, RunTypeOK
  <1>2. stamp' = [stamp EXCEPT ![w] = clock'] /\ stamp \in [Workers -> Nat]
    BY DEF ReadClock, RunInv, RunTypeOK
  <1>3. PICK j \in job[w] : stamps' = [stamps EXCEPT ![CustomerOf[j]] = @ \cup {clock'}]
    BY DEF ReadClock
  <1>4. CustomerOf[j] \in Customers /\ stamps \in [Customers -> SUBSET Nat]
    BY SchedulerAssumption DEF RunInv, RunTypeOK
  <1>5. stamps' \in [Customers -> SUBSET Nat]
    BY <1>1, <1>3, <1>4
  <1>. QED
    BY <1>1, <1>2, <1>3, <1>4, <1>5

\* The types of what a worker writes.
LEMMA WorkerTypes ==
    ASSUME RunInv, NEW w \in Workers, Worker(w), deliveryGroup' \in Int
    PROVE  RunTypeOK'
  <1> USE DEF RunInv, RunTypeOK
  <1>1. UNCHANGED <<mode, poller, claimed, main>>
    BY DEF Worker, TakeJob, LeaveWorker, Deliver, OnCompletion, DeliveryDone, MarkDelivered
  <1>2. CASE TakeJob(w)
    <2>1. job' \in [Workers -> SUBSET Jobs]
      <3>1. PICK k \in SUBSET Jobs : job' = [job EXCEPT ![w] = k]
        BY <1>2, TakesJob DEF IsWorkerStep, Hands
      <3>. QED
        BY <3>1
    <2>2. worker' \in [Workers -> WorkerStates]
      BY <1>2 DEF TakeJob, WorkerStates
    <2>3. overtaken' \in [Jobs -> Nat]
      <3>1. \A n \in Nat : n + 1 \in Nat
        BY SMT
      <3>. QED
        BY <1>2, <3>1 DEF TakeJob
    <2>. QED
      BY <1>1, <1>2, <2>1, <2>2, <2>3 DEF TakeJob, summaryVars
  <1>3. CASE LeaveWorker(w)
    BY <1>1, <1>3 DEF LeaveWorker, summaryVars, WorkerStates
  <1>4. CASE Deliver(w)
    <2>1. ReadClock(w) /\ worker' \in [Workers -> WorkerStates]
      BY <1>4 DEF Deliver, WorkerStates
    <2>2. clock' \in Nat /\ stamp' \in [Workers -> Nat] /\ stamps' \in [Customers -> SUBSET Nat]
      BY <2>1, ClockEffect
    <2>. QED
      BY <1>1, <1>4, <2>1, <2>2 DEF Deliver, summaryVars
  <1>5. CASE OnCompletion(w)
    <2>1. clock' \in Nat /\ stamp' \in [Workers -> Nat] /\ stamps' \in [Customers -> SUBSET Nat]
      <3>1. CASE ReadClock(w)
        BY <3>1, ClockEffect
      <3>2. CASE UNCHANGED <<clock, stamp, stamps>>
        BY <3>2
      <3>. QED
        BY <1>5, <3>1, <3>2 DEF OnCompletion
    <2>2. \A n \in Nat : n + 1 \in Nat
      BY SMT
    <2>3. stamp'[w] \in Nat
      BY <2>1
    <2>4. PICK c \in {CustomerOf[j] : j \in job[w]} :
             /\ worker' = [worker EXCEPT ![w] = "reported"]
             /\ totalCompleted' = totalCompleted + 1
             /\ completionCounts' = [completionCounts EXCEPT ![c] = @ + 1]
             /\ firstCompletionTimes' =
                   [firstCompletionTimes EXCEPT ![c] = IF IsFirst(c) THEN (stamp')[w] ELSE @]
             /\ earlyCompletionCounts' =
                   [earlyCompletionCounts EXCEPT ![c] =
                       IF totalCompleted + 1 <= EarlyWindow THEN @ + 1 ELSE @]
             /\ finishCompletionTimes' =
                   [finishCompletionTimes EXCEPT ![c] = IF IsLast(c) THEN stamp'[w] ELSE @]
             /\ UNCHANGED <<status, job, overtaken>>
      BY <1>5 DEF OnCompletion
    <2>5. c \in Customers
      <3>1. PICK j \in job[w] : c = CustomerOf[j]
        BY <2>4
      <3>2. job[w] \in SUBSET Jobs
        OBVIOUS
      <3>3. j \in Jobs
        BY <3>1, <3>2
      <3>. QED
        BY <3>1, <3>3, SchedulerAssumption
    <2>6. /\ completionCounts' \in [Customers -> Nat] /\ totalCompleted' \in Nat
          /\ earlyCompletionCounts' \in [Customers -> Nat]
      <3>1. completionCounts[c] + 1 \in Nat /\ earlyCompletionCounts[c] + 1 \in Nat
        BY <2>2, <2>5
      <3>2. completionCounts' \in [Customers -> Nat] /\ totalCompleted' \in Nat
        BY <2>2, <2>4, <2>5, <3>1
      <3>3. earlyCompletionCounts' \in [Customers -> Nat]
        <4>1. PICK n \in Nat : earlyCompletionCounts' = [earlyCompletionCounts EXCEPT ![c] = n]
          BY <2>4, <2>5, <3>1
        <4>. QED
          BY <4>1
      <3>. QED
        BY <3>2, <3>3
    <2>7. /\ firstCompletionTimes' \in [Customers -> Nat]
          /\ finishCompletionTimes' \in [Customers -> Nat]
      BY <2>3, <2>4, <2>5
    <2>8. worker' \in [Workers -> WorkerStates]
      BY <2>4 DEF WorkerStates
    <2>. QED
      BY <1>1, <2>1, <2>4, <2>6, <2>7, <2>8
  <1>6. CASE DeliveryDone(w) \/ MarkDelivered(w)
    <2>1. UNCHANGED <<clock, stamps, overtaken, summaryVars>>
      BY <1>6 DEF DeliveryDone, MarkDelivered
    <2>2. CASE FinishJob(w)
      BY <1>1, <2>1, <2>2 DEF FinishJob, summaryVars, WorkerStates
    <2>3. CASE ~FinishJob(w)
      <3>1. worker' = [worker EXCEPT ![w] = "marking"] /\ UNCHANGED <<status, job, stamp>>
        BY <1>6, <2>3 DEF DeliveryDone, MarkDelivered
      <3>. QED
        BY <1>1, <2>1, <3>1 DEF summaryVars, WorkerStates
    <2>. QED
      BY <2>2, <2>3
  <1>. QED
    BY <1>2, <1>3, <1>4, <1>5, <1>6 DEF Worker

-----------------------------------------------------------------------------
(***************************************************************************)
(* What a step of a worker is: who moves, from which state to which, and   *)
(* with which jobs, and whether it counts for the WaitGroup.               *)
(***************************************************************************)
Moves(w, from, to, J) ==
    /\ IsWorkerStep(w, from, to, J)
    /\ \/ /\ deliveryGroup' = deliveryGroup - 1
          /\ from = "reported"
          /\ \/ to = "marking" /\ J = job[w]
             \/ to = "idle"
       \/ /\ deliveryGroup' = deliveryGroup
          /\ \/ to # "marking" /\ from # "marking" /\ job[w] \in SUBSET J
             \/ to = "idle" /\ from = "marking"

\* Taking a job.
LEMMA TakeJobMoves ==
    ASSUME RunInv, NEW w \in Workers, TakeJob(w)
    PROVE  Moves(w, "idle", "delivering", job'[w])
  <1>1. IsWorkerStep(w, "idle", "delivering", job'[w])
    BY TakesJob
  <1>2. job[w] \in SUBSET job'[w] /\ deliveryGroup' = deliveryGroup
    BY DEF TakeJob, RunInv, Carrying
  <1>. QED
    BY <1>1, <1>2 DEF Moves

\* Leaving.
LEMMA LeaveWorkerMoves ==
    ASSUME RunInv, NEW w \in Workers, LeaveWorker(w)
    PROVE  Moves(w, "idle", "done", job[w])
  <1>1. /\ worker[w] = "idle" /\ worker' = [worker EXCEPT ![w] = "done"]
        /\ UNCHANGED <<mode, schedulerVars, status, claimed, job, main, deliveryGroup>>
    BY DEF LeaveWorker
  <1>2. IsWorkerStep(w, worker[w], "done", job[w])
    BY <1>1, KeepsJob DEF WorkerStates
  <1>. QED
    BY <1>1, <1>2 DEF Moves

\* Delivering, which only the workers of mode "app" do in a step of its own.
LEMMA DeliverMoves ==
    ASSUME RunInv, NEW w \in Workers, Deliver(w)
    PROVE  Moves(w, "delivering", "reporting", job[w])
  <1>1. /\ worker[w] = "delivering" /\ worker' = [worker EXCEPT ![w] = "reporting"]
        /\ UNCHANGED <<mode, schedulerVars, status, claimed, job, main, deliveryGroup>>
        /\ mode = "app"
    BY DEF Deliver
  <1>2. IsWorkerStep(w, worker[w], "reporting", job[w])
    BY <1>1, KeepsJob DEF WorkerStates
  <1>. QED
    BY <1>1, <1>2 DEF Moves

\* Reporting the completion.
LEMMA OnCompletionMoves ==
    ASSUME RunInv, NEW w \in Workers, OnCompletion(w)
    PROVE  /\ worker[w] \in {"delivering", "reporting"}
           /\ Moves(w, worker[w], "reported", job[w])
  <1>1. /\ worker[w] \in {"delivering", "reporting"} /\ worker' = [worker EXCEPT ![w] = "reported"]
        /\ UNCHANGED <<mode, schedulerVars, status, claimed, job, main, deliveryGroup>>
    BY DEF OnCompletion
  <1>2. IsWorkerStep(w, worker[w], "reported", job[w])
    BY <1>1, KeepsJob DEF WorkerStates
  <1>. QED
    BY <1>1, <1>2 DEF Moves

\* deliveryGroup.Done(), after which mode "app" still marks the item.
LEMMA DeliveryDoneMoves ==
    ASSUME RunInv, NEW w \in Workers, DeliveryDone(w)
    PROVE  Moves(w, "reported", "marking", job[w]) \/ Moves(w, "reported", "idle", {})
  <1>1. /\ worker[w] = "reported" /\ deliveryGroup' = deliveryGroup - 1
        /\ UNCHANGED <<mode, schedulerVars, claimed, main>>
    BY DEF DeliveryDone
  <1>2. CASE mode = "app" /\ worker' = [worker EXCEPT ![w] = "marking"] /\ UNCHANGED <<status, job>>
    <2>1. IsWorkerStep(w, worker[w], "marking", job[w])
      BY <1>1, <1>2, KeepsJob DEF WorkerStates
    <2>. QED
      BY <1>1, <2>1 DEF Moves
  <1>3. CASE FinishJob(w)
    <2>1. IsWorkerStep(w, worker[w], "idle", {})
      BY <1>1, <1>3, EndsJob
    <2>. QED
      BY <1>1, <2>1 DEF Moves
  <1>. QED
    BY <1>2, <1>3 DEF DeliveryDone

\* Marking the item.
LEMMA MarkDeliveredMoves ==
    ASSUME RunInv, NEW w \in Workers, MarkDelivered(w)
    PROVE  Moves(w, "marking", "idle", {})
  <1>1. /\ worker[w] = "marking" /\ deliveryGroup' = deliveryGroup /\ FinishJob(w)
        /\ UNCHANGED <<mode, schedulerVars, claimed, main>>
    BY DEF MarkDelivered
  <1>2. IsWorkerStep(w, worker[w], "idle", {})
    BY <1>1, EndsJob
  <1>. QED
    BY <1>1, <1>2 DEF Moves

\* A step of a worker keeps the invariant.
LEMMA WorkerStep ==
    ASSUME RunInv, NEW w \in Workers, Worker(w)
    PROVE  RunTypeOK' /\ Carrying' /\ OneHand' /\ Ending'
  <1>1. PICK from, to, J : Moves(w, from, to, J)
    BY TakeJobMoves, LeaveWorkerMoves, DeliverMoves, OnCompletionMoves, DeliveryDoneMoves,
       MarkDeliveredMoves DEF Worker
  <1>2. Carrying' /\ OneHand'
    BY <1>1, WorkerPlaces DEF Moves
  <1>3. Ending' /\ deliveryGroup' \in Int
    BY <1>1, WorkerEnding DEF Moves
  <1>4. RunTypeOK'
    BY <1>3, WorkerTypes
  <1>. QED
    BY <1>2, <1>3, <1>4

-----------------------------------------------------------------------------
\* The invariant holds when a run starts.
LEMMA InitRunInv == RunInit => RunInv
  <1> SUFFICES ASSUME RunInit PROVE RunInv
    OBVIOUS
  <1>1. IInv
    BY InitInv DEF RunInit
  <1>2. InScheduler = {} /\ ~closed /\ ~cancelled
    BY SMT DEF RunInit, Init, InScheduler, Queued, InChannel
  <1>3. Cardinality(Jobs) \in Nat
    BY FairnessRunAssumption, FS_CardinalityType
  <1>4. RunTypeOK
    <2>1. 0 \in Nat /\ Cardinality(Jobs) \in Int
      BY <1>3, SMT
    <2>2. status \in [Jobs -> {"pending", "claimed", "completed"}]
      BY DEF RunInit
    <2>3. worker \in [Workers -> WorkerStates]
      BY DEF RunInit, WorkerStates
    <2>. QED
      BY <2>1, <2>2, <2>3 DEF RunInit, RunTypeOK, SummaryInit, TotalJobCount
  <1>5. Carrying
    BY DEF RunInit, Carrying
  <1>6. \A S : CarriedIn(S) = {}
    BY DEF CarriedIn, RunInit
  <1>7. OneHand
    <2>1. \A j \in Jobs : status[j] = "claimed" <=> mode # "app"
      BY DEF RunInit
    <2>2. \A j \in Jobs : j \in claimed <=> mode # "app"
      BY DEF RunInit
    <2>3. \A v, w \in Workers : job[v] \cap job[w] = {}
      BY DEF RunInit
    <2>. QED
      BY <1>2, <1>6, <2>1, <2>2, <2>3 DEF OneHand, Carried
  <1>8. Ending
    <2>1. Completed = {}
      BY DEF RunInit, Completed
    <2>2. Jobs \ Done = Jobs
      BY <1>6, <2>1 DEF Done, Past
    <2>. QED
      BY <1>2, <2>2 DEF RunInit, SummaryInit, TotalJobCount, Ending
  <1>. QED
    BY <1>1, <1>4, <1>5, <1>7, <1>8 DEF RunInv

\* Every step of a run keeps it.
LEMMA RunInductiveStep == RunInv /\ [RunNext]_runVars => RunInv'
  <1> SUFFICES ASSUME RunInv, [RunNext]_runVars PROVE RunInv'
    OBVIOUS
  <1>1. IInv'
    <2>1. [Next]_vars
      BY RunStep DEF RunInv, RunTypeOK
    <2>. QED
      BY <2>1, InductiveStep DEF RunInv
  <1>2. RunTypeOK' /\ Carrying' /\ OneHand' /\ Ending'
    BY QuietStep, ClaimStep, EnqueueNextStep, ReceiveJobStep, WorkerStep DEF RunNext, Poller, Main
  <1>. QED
    BY <1>1, <1>2 DEF RunInv

\* So it holds throughout.
LEMMA RunInvariance == RunSpec => []RunInv
  BY InitRunInv, RunInductiveStep, PTL DEF RunSpec

\* A run never changes its mode.
LEMMA ModeIsFixed ==
    ASSUME [RunNext]_runVars
    PROVE  mode' = mode
  BY DEF RunNext, Poller, Main, Worker, SchedulerStep, ClaimAvailableDeliveries, EnqueueNext, StopPoller,
         TakeJob, LeaveWorker, Deliver, OnCompletion, DeliveryDone, MarkDelivered, ReceiveJob,
         EndDeliveries, EndScheduler, WaitForGroup, runVars

-----------------------------------------------------------------------------
(***************************************************************************)
(* Fairness from the queue to the workers.  Before(S, c) jobs of S will    *)
(* overtake a job of c that is behind them.  Each time the dispatcher      *)
(* serves c the bypasses it has seen, at most one per other customer, are  *)
(* paid for by the position its jobs gain in the queue.                    *)
(***************************************************************************)
OfCustomer(c) == {j \in Jobs : CustomerOf[j] = c}

Before(S, c) == Cardinality({k \in S : CustomerOf[k] # c})

OtherCustomers == Cardinality(Customers) - 1

Limit(c, p) == OutputCapacity + 1 + (EventsPerCustomer[c] - p) * OtherCustomers

QueuedFair ==
    \A c \in DOMAIN customerQueues : \A p \in DOMAIN customerQueues[c] :
        overtaken[customerQueues[c][p]] + Before(held \cup InChannel, c) <= Limit(c, p) + bypassed[c]

HeldFair ==
    \A j \in held : overtaken[j] + Before(InChannel, CustomerOf[j]) <= Limit(CustomerOf[j], 0)

InFront(p) == {output[i] : i \in 1 .. p - 1}

ChannelFair ==
    \A p \in DOMAIN output :
        overtaken[output[p]] + Before(InFront(p), CustomerOf[output[p]]) <= Limit(CustomerOf[output[p]], 0)

OvertakenFair == \A j \in Jobs : overtaken[j] <= Limit(CustomerOf[j], 0)

\* A job that has not been enqueued has not been overtaken.
NotYetEnqueued == \A j \in Jobs : status[j] = "pending" \/ j \in claimed => overtaken[j] = 0

FairInv ==
    /\ Len(output) <= OutputCapacity
    /\ NotYetEnqueued
    /\ QueuedFair
    /\ HeldFair
    /\ ChannelFair
    /\ OvertakenFair

-----------------------------------------------------------------------------
\* Sets of jobs, and what Before counts in them.
LEMMA BeforeType ==
    ASSUME NEW S \in SUBSET Jobs, NEW c
    PROVE  IsFiniteSet(S) /\ IsFiniteSet({k \in S : CustomerOf[k] # c}) /\ Before(S, c) \in Nat
  <1>1. IsFiniteSet(Jobs)
    BY FairnessRunAssumption
  <1>2. IsFiniteSet(S)
    BY <1>1, FS_Subset
  <1>3. IsFiniteSet({k \in S : CustomerOf[k] # c})
    BY <1>2, FS_Subset
  <1>. QED
    BY <1>2, <1>3, FS_CardinalityType DEF Before

\* Fewer jobs overtake less.
LEMMA BeforeSubset ==
    ASSUME NEW T \in SUBSET Jobs, NEW S \in SUBSET T, NEW c
    PROVE  /\ Before(S, c) \in Nat /\ Before(T, c) \in Nat
           /\ Before(S, c) <= Before(T, c)
           /\ Before(T, c) <= Cardinality(T)
  <1>1. S \in SUBSET Jobs
    OBVIOUS
  <1>2. Before(S, c) \in Nat /\ Before(T, c) \in Nat
    BY <1>1, BeforeType
  <1>3. IsFiniteSet(T) /\ IsFiniteSet({k \in T : CustomerOf[k] # c})
    BY BeforeType
  <1>4. {k \in S : CustomerOf[k] # c} \in SUBSET {k \in T : CustomerOf[k] # c}
    OBVIOUS
  <1>5. Before(S, c) <= Before(T, c)
    BY <1>3, <1>4, FS_Subset DEF Before
  <1>6. {k \in T : CustomerOf[k] # c} \in SUBSET T
    OBVIOUS
  <1>7. Before(T, c) <= Cardinality(T)
    BY <1>3, <1>6, FS_Subset DEF Before
  <1>. QED
    BY <1>2, <1>5, <1>7

\* Taking one job out counts one less, if it is another customer's.
LEMMA BeforeRemove ==
    ASSUME NEW S \in SUBSET Jobs, NEW k \in S, NEW c
    PROVE  /\ Before(S, c) \in Nat /\ Before(S \ {k}, c) \in Nat
           /\ Before(S \ {k}, c) = IF CustomerOf[k] # c THEN Before(S, c) - 1 ELSE Before(S, c)
  <1> DEFINE T == {i \in S : CustomerOf[i] # c}
  <1>1. IsFiniteSet(T) /\ Before(S, c) \in Nat
    BY BeforeType
  <1>2. S \ {k} \in SUBSET Jobs
    OBVIOUS
  <1>3. Before(S \ {k}, c) \in Nat
    BY <1>2, BeforeType
  <1>4. {i \in S \ {k} : CustomerOf[i] # c} = T \ {k}
    OBVIOUS
  <1>5. k \in T <=> CustomerOf[k] # c
    OBVIOUS
  <1>6. Cardinality(T \ {k}) = IF k \in T THEN Cardinality(T) - 1 ELSE Cardinality(T)
    BY <1>1, FS_RemoveElement
  <1>. HIDE DEF T
  <1>7. Before(S \ {k}, c) = IF CustomerOf[k] # c THEN Cardinality(T) - 1 ELSE Cardinality(T)
    BY <1>4, <1>5, <1>6 DEF Before
  <1>. QED
    BY <1>1, <1>3, <1>7 DEF Before, T

-----------------------------------------------------------------------------
\* The limits: types and arithmetic.
LEMMA LimitFacts ==
    ASSUME mode \in Modes, NEW c \in Customers
    PROVE  /\ OutputCapacity \in Nat /\ EventsPerCustomer[c] \in Nat /\ OtherCustomers \in Nat
           /\ \A p \in Int : Limit(c, p) \in Int
           /\ \A p \in Int : Limit(c, p - 1) = Limit(c, p) + OtherCustomers
           /\ \A p \in 1 .. EventsPerCustomer[c] :
                 OutputCapacity + 1 <= Limit(c, p) /\ Limit(c, p) + OtherCustomers <= Limit(c, 0)
  <1>1. OutputCapacity \in Nat
    <2>1. AppBufferSize \in Nat /\ BufferSize \in Nat
      BY FairnessRunAssumption, SchedulerAssumption, SMT
    <2>. QED
      BY <2>1 DEF OutputCapacity
  <1>2. EventsPerCustomer[c] \in Nat
    <2>1. IsFiniteSet({j \in Jobs : CustomerOf[j] = c})
      BY FairnessRunAssumption, FS_Subset
    <2>. QED
      BY <2>1, FS_CardinalityType DEF EventsPerCustomer
  <1>3. OtherCustomers \in Nat
    <2>1. IsFiniteSet(Customers) /\ Customers # {}
      BY FairnessRunAssumption
    <2>2. Cardinality(Customers) \in Nat /\ Cardinality(Customers) # 0
      BY <2>1, FS_CardinalityType, FS_EmptySet
    <2>. QED
      BY <2>2, SMT DEF OtherCustomers
  <1> DEFINE C == OutputCapacity
             E == EventsPerCustomer[c]
             K == OtherCustomers
  <1>4. \A p \in Int : Limit(c, p) = C + 1 + (E - p) * K
    BY DEF Limit
  <1>. HIDE DEF C, E, K
  <1>5. C \in Nat /\ E \in Nat /\ K \in Nat
    BY <1>1, <1>2, <1>3 DEF C, E, K
  <1>6. \A p \in Int : (E - p) * K \in Int /\ (E - (p - 1)) * K = (E - p) * K + K
    BY <1>5, SMT
  <1>7. \A p \in 1 .. E : 0 <= (E - p) * K /\ (E - p) * K + K <= (E - 0) * K
    BY <1>5, SMT
  <1>8. /\ \A p \in Int : Limit(c, p) \in Int
        /\ \A p \in Int : Limit(c, p - 1) = Limit(c, p) + K
    <2> SUFFICES ASSUME NEW p \in Int
                 PROVE  Limit(c, p) \in Int /\ Limit(c, p - 1) = Limit(c, p) + K
      OBVIOUS
    <2>1. p - 1 \in Int
      BY SMT
    <2>2. Limit(c, p) = C + 1 + (E - p) * K /\ Limit(c, p - 1) = C + 1 + (E - (p - 1)) * K
      BY <1>4, <2>1
    <2>3. (E - p) * K \in Int /\ (E - (p - 1)) * K = (E - p) * K + K
      BY <1>6
    <2>. QED
      BY <1>5, <2>2, <2>3, SMT
  <1>9. \A p \in 1 .. E : C + 1 <= Limit(c, p) /\ Limit(c, p) + K <= Limit(c, 0)
    <2> SUFFICES ASSUME NEW p \in 1 .. E
                 PROVE  C + 1 <= Limit(c, p) /\ Limit(c, p) + K <= Limit(c, 0)
      OBVIOUS
    <2>1. p \in Int /\ 0 \in Int
      BY <1>5, SMT
    <2>2. Limit(c, p) = C + 1 + (E - p) * K /\ Limit(c, 0) = C + 1 + (E - 0) * K
      BY <1>4, <2>1
    <2>3. /\ 0 <= (E - p) * K /\ (E - p) * K + K <= (E - 0) * K
          /\ (E - p) * K \in Int /\ (E - 0) * K \in Int
      BY <1>6, <1>7, <2>1
    <2>. QED
      BY <1>5, <2>2, <2>3, SMT
  <1>. QED
    BY <1>1, <1>2, <1>3, <1>8, <1>9 DEF C, E, K

-----------------------------------------------------------------------------
\* A sequence without repetitions is not longer than the set it is drawn from.
LEMMA DistinctLength ==
    ASSUME NEW S, IsFiniteSet(S), NEW q \in Seq(S),
           \A i, k \in DOMAIN q : q[i] = q[k] => i = k
    PROVE  Len(q) \in Nat /\ Len(q) <= Cardinality(S)
  <1>1. Len(q) \in Nat /\ DOMAIN q = 1 .. Len(q) /\ q \in [1 .. Len(q) -> S]
    BY SMT
  <1>2. q \in Injection(1 .. Len(q), S)
    BY <1>1 DEF Injection, IsInjective
  <1>3. Cardinality(1 .. Len(q)) <= Cardinality(S)
    BY <1>2, FS_Injection
  <1>4. Cardinality(1 .. Len(q)) = Len(q)
    <2>1. Cardinality(1 .. Len(q)) = IF 1 > Len(q) THEN 0 ELSE Len(q) - 1 + 1
      BY <1>1, FS_Interval, SMT
    <2>. QED
      BY <1>1, <2>1, SMT
  <1>. QED
    BY <1>1, <1>3, <1>4

\* A waiting customer is passed over at most once by every other customer.
LEMMA BypassedOnce ==
    ASSUME IInv, NEW c \in DOMAIN customerQueues, HasJobs(c)
    PROVE  bypassed[c] \in Nat /\ bypassed[c] <= OtherCustomers
  <1>1. /\ customerOrder \in Seq(Customers) /\ c \in Customers /\ bypassed \in [Customers -> Nat]
        /\ \A i, k \in DOMAIN customerOrder : customerOrder[i] = customerOrder[k] => i = k
    BY DEF IInv, TypeOK, RotationMatchesQueues
  <1>2. IsFiniteSet(Customers) /\ Cardinality(Customers) \in Nat
    BY FairnessRunAssumption, FS_CardinalityType
  <1>3. Len(customerOrder) \in Nat /\ Len(customerOrder) <= Cardinality(Customers)
    BY <1>1, <1>2, DistinctLength
  <1>4. bypassed[c] <= Len(customerOrder) - 1
    BY BypassBound DEF BoundedBypass
  <1>5. bypassed[c] \in Nat
    BY <1>1
  <1>. QED
    BY <1>2, <1>3, <1>4, <1>5, SMT DEF OtherCustomers

\* A queue holds jobs of its customer, each once.
LEMMA QueuePositions ==
    ASSUME IInv, NEW c \in DOMAIN customerQueues
    PROVE  /\ c \in Customers /\ customerQueues[c] \in Seq(Jobs)
           /\ Len(customerQueues[c]) \in Nat /\ DOMAIN customerQueues[c] = 1 .. Len(customerQueues[c])
           /\ EventsPerCustomer[c] \in Nat
           /\ Len(customerQueues[c]) <= EventsPerCustomer[c]
  <1> DEFINE q == customerQueues[c]
  <1>1. c \in Customers /\ q \in Seq(Jobs)
    BY DEF IInv, TypeOK
  <1>2. /\ \A i \in DOMAIN q : CustomerOf[q[i]] = c
        /\ \A i, k \in DOMAIN q : q[i] = q[k] => i = k
    BY DEF IInv, OnePlace
  <1>. HIDE DEF q
  <1>3. Len(q) \in Nat /\ DOMAIN q = 1 .. Len(q) /\ \A i \in DOMAIN q : q[i] \in Jobs
    BY <1>1, SMT
  <1>4. q \in Seq(OfCustomer(c))
    <2>1. \A i \in 1 .. Len(q) : q[i] \in OfCustomer(c)
      BY <1>2, <1>3 DEF OfCustomer
    <2>2. q = [i \in 1 .. Len(q) |-> q[i]]
      BY <1>1, SMT
    <2>. QED
      BY <1>3, <2>1, <2>2, SMT
  <1>5. IsFiniteSet(OfCustomer(c))
    BY FairnessRunAssumption, FS_Subset DEF OfCustomer
  <1>6. EventsPerCustomer[c] = Cardinality(OfCustomer(c))
    BY <1>1 DEF EventsPerCustomer, OfCustomer
  <1>7. Len(q) <= Cardinality(OfCustomer(c)) /\ Cardinality(OfCustomer(c)) \in Nat
    BY <1>2, <1>4, <1>5, DistinctLength, FS_CardinalityType
  <1>. QED
    BY <1>1, <1>3, <1>6, <1>7 DEF q

\* The dispatcher's hand and the channel hold few jobs.
LEMMA AheadIsSmall ==
    ASSUME IInv, mode \in Modes, Len(output) <= OutputCapacity, NEW c \in Customers
    PROVE  /\ held \cup InChannel \in SUBSET Jobs
           /\ Before(held \cup InChannel, c) \in Nat
           /\ Before(held \cup InChannel, c) <= OutputCapacity + 1
  <1>1. held \in SUBSET Jobs /\ InChannel \in SUBSET Jobs
    <2>1. output \in Seq(Jobs)
      BY DEF IInv, TypeOK
    <2>2. InChannel \in SUBSET Jobs
      BY <2>1, SMT DEF InChannel
    <2>. QED
      BY <2>2 DEF IInv, TypeOK
  <1>2. /\ held \cup InChannel \in SUBSET Jobs
        /\ Before(held \cup InChannel, c) \in Nat
        /\ Before(held \cup InChannel, c) <= Cardinality(held \cup InChannel)
    BY <1>1, BeforeSubset
  <1>3. IsFiniteSet(InChannel) /\ Cardinality(InChannel) <= Len(output)
    BY ChannelCardinality
  <1>4. Cardinality(InChannel) \in Nat /\ Len(output) \in Nat /\ OutputCapacity \in Nat
    <2>1. output \in Seq(Jobs)
      BY DEF IInv, TypeOK
    <2>2. Len(output) \in Nat
      BY <2>1, SMT
    <2>. QED
      BY <1>3, <2>2, FS_CardinalityType, LimitFacts
  <1>5. /\ Cardinality(held \cup InChannel) \in Nat
        /\ Cardinality(held \cup InChannel) <= Cardinality(InChannel) + 1
    <2>1. CASE held = {}
      <3>1. held \cup InChannel = InChannel
        BY <2>1
      <3>2. Cardinality(InChannel) <= Cardinality(InChannel) + 1
        BY <1>4, SMT
      <3>. QED
        BY <1>4, <3>1, <3>2
    <2>2. ASSUME NEW j \in Jobs, held = {j}
          PROVE  /\ Cardinality(held \cup InChannel) \in Nat
                 /\ Cardinality(held \cup InChannel) <= Cardinality(InChannel) + 1
      <3>1. j \notin InChannel /\ held \cup InChannel = InChannel \cup {j}
        BY <2>2 DEF IInv, OnePlace
      <3>2. Cardinality(InChannel \cup {j}) = Cardinality(InChannel) + 1
        BY <1>3, <3>1, FS_AddElement
      <3>3. Cardinality(InChannel) + 1 \in Nat /\ Cardinality(InChannel) + 1 <= Cardinality(InChannel) + 1
        BY <1>4, SMT
      <3>. QED
        BY <3>1, <3>2, <3>3
    <2>. QED
      BY <2>1, <2>2 DEF IInv, HandAndChannel
  <1>6. Before(held \cup InChannel, c) <= OutputCapacity + 1
    BY <1>2, <1>3, <1>4, <1>5, SMT
  <1>. QED
    BY <1>2, <1>6

-----------------------------------------------------------------------------
PositionsBounded ==
    \A c \in DOMAIN customerQueues : Len(customerQueues[c]) <= EventsPerCustomer[c]

\* The same for the next state.
LEMMA PositionsNext == IInv' => PositionsBounded'
  <1>1. IInv => PositionsBounded
    BY QueuePositions DEF PositionsBounded
  <1>. QED
    BY <1>1, PTL

\* What is said of the three places bounds every job in the scheduler.
LEMMA PlacesBound ==
    ASSUME IInv, mode \in Modes, Len(output) <= OutputCapacity, overtaken \in [Jobs -> Nat],
           QueuedFair, HeldFair, ChannelFair, NEW j \in InScheduler
    PROVE  overtaken[j] <= Limit(CustomerOf[j], 0)
  <1>1. InScheduler \in SUBSET Jobs
    <2>1. output \in Seq(Jobs) /\ held \in SUBSET Jobs
      BY DEF IInv, TypeOK
    <2>2. InChannel \in SUBSET Jobs
      BY <2>1, SMT DEF InChannel
    <2>. QED
      BY <2>1, <2>2 DEF InScheduler, Queued
  <1>2. j \in Jobs /\ CustomerOf[j] \in Customers /\ overtaken[j] \in Nat
    BY <1>1, SchedulerAssumption
  <1>3. Limit(CustomerOf[j], 0) \in Int
    <2>1. 0 \in Int
      BY SMT
    <2>. QED
      BY <1>2, <2>1, LimitFacts
  <1>4. ASSUME NEW S \in SUBSET Jobs, overtaken[j] + Before(S, CustomerOf[j]) <= Limit(CustomerOf[j], 0)
        PROVE  overtaken[j] <= Limit(CustomerOf[j], 0)
    <2>1. Before(S, CustomerOf[j]) \in Nat
      BY BeforeType
    <2>. QED
      BY <1>2, <1>3, <1>4, <2>1, SMT
  <1>5. InChannel \in SUBSET Jobs /\ held \cup InChannel \in SUBSET Jobs
    BY <1>1 DEF InScheduler
  <1>6. CASE j \in Queued
    <2>1. PICK c \in DOMAIN customerQueues : \E i \in DOMAIN customerQueues[c] : customerQueues[c][i] = j
      BY <1>6 DEF Queued
    <2>2. PICK p \in DOMAIN customerQueues[c] : customerQueues[c][p] = j
      BY <2>1
    <2>3. CustomerOf[j] = c
      BY <2>2 DEF IInv, OnePlace
    <2>4. overtaken[j] + Before(held \cup InChannel, c) <= Limit(c, p) + bypassed[c]
      BY <2>2 DEF QueuedFair
    <2>5. /\ Len(customerQueues[c]) \in Nat /\ DOMAIN customerQueues[c] = 1 .. Len(customerQueues[c])
          /\ EventsPerCustomer[c] \in Nat /\ Len(customerQueues[c]) <= EventsPerCustomer[c]
          /\ c \in Customers
      BY QueuePositions
    <2>6. p \in 1 .. EventsPerCustomer[c] /\ p \in Int
      BY <2>5, SMT
    <2>7. HasJobs(c)
      BY SMT DEF HasJobs
    <2>8. bypassed[c] \in Nat /\ bypassed[c] <= OtherCustomers
      BY <2>7, BypassedOnce
    <2>9. /\ Limit(c, p) \in Int /\ Limit(c, p) + OtherCustomers <= Limit(c, 0)
          /\ OtherCustomers \in Nat
      BY <2>5, <2>6, LimitFacts
    <2>10. Before(held \cup InChannel, c) \in Nat
      BY <1>5, BeforeType
    <2>11. overtaken[j] <= Limit(c, 0)
      BY <1>2, <1>3, <2>3, <2>4, <2>8, <2>9, <2>10, SMT
    <2>. QED
      BY <2>3, <2>11
  <1>7. CASE j \in held
    BY <1>4, <1>5, <1>7 DEF HeldFair
  <1>8. CASE j \in InChannel
    <2>1. PICK p \in DOMAIN output : output[p] = j
      BY <1>8 DEF InChannel
    <2>2. InFront(p) \in SUBSET Jobs
      <3>1. output \in Seq(Jobs)
        BY DEF IInv, TypeOK
      <3>. QED
        BY <3>1, SMT DEF InFront
    <2>. QED
      BY <1>4, <2>1, <2>2 DEF ChannelFair
  <1>. QED
    BY <1>6, <1>7, <1>8 DEF InScheduler

\* The same for the next state.
LEMMA PlacesBoundNext ==
    /\ IInv' /\ (mode \in Modes)' /\ (Len(output) <= OutputCapacity)' /\ (overtaken \in [Jobs -> Nat])'
    /\ QueuedFair' /\ HeldFair' /\ ChannelFair'
    => (\A j \in InScheduler : overtaken[j] <= Limit(CustomerOf[j], 0))'
  <1>1. /\ IInv /\ mode \in Modes /\ Len(output) <= OutputCapacity /\ overtaken \in [Jobs -> Nat]
        /\ QueuedFair /\ HeldFair /\ ChannelFair
        => \A j \in InScheduler : overtaken[j] <= Limit(CustomerOf[j], 0)
    BY PlacesBound
  <1>. QED
    BY <1>1, PTL

-----------------------------------------------------------------------------
\* No step makes a job pending again, or claims one that was not pending.
NoneReturned ==
    \A j \in Jobs : status'[j] = "pending" \/ j \in claimed' => status[j] = "pending" \/ j \in claimed

\* A step that leaves the scheduler's jobs where they are keeps the invariant.
LEMMA FairQuiet ==
    ASSUME FairInv, NoneReturned, mode' = mode,
           UNCHANGED <<customerQueues, bypassed, held, output, overtaken>>
    PROVE  FairInv'
  <1>1. OutputCapacity' = OutputCapacity /\ \A c, p : Limit(c, p)' = Limit(c, p)
    BY DEF OutputCapacity, Limit
  <1>2. InChannel' = InChannel /\ \A p : InFront(p)' = InFront(p)
    BY DEF InChannel, InFront
  <1>3. QueuedFair'
    BY <1>1, <1>2 DEF FairInv, QueuedFair
  <1>4. HeldFair' /\ ChannelFair' /\ OvertakenFair'
    BY <1>1, <1>2 DEF FairInv, HeldFair, ChannelFair, OvertakenFair
  <1>5. NotYetEnqueued'
    BY DEF FairInv, NotYetEnqueued, NoneReturned
  <1>. QED
    BY <1>1, <1>3, <1>4, <1>5 DEF FairInv

-----------------------------------------------------------------------------
\* What the invariant says of the channel in terms of positions.
LEMMA ChannelFacts ==
    ASSUME IInv
    PROVE  /\ output \in Seq(Jobs) /\ Len(output) \in Nat /\ DOMAIN output = 1 .. Len(output)
           /\ held \in SUBSET Jobs /\ InChannel \in SUBSET Jobs /\ held \cup InChannel \in SUBSET Jobs
           /\ \A p \in DOMAIN output : output[p] \in Jobs /\ InFront(p) \in SUBSET Jobs
  <1>1. output \in Seq(Jobs) /\ held \in SUBSET Jobs
    BY DEF IInv, TypeOK
  <1>2. Len(output) \in Nat /\ DOMAIN output = 1 .. Len(output) /\ \A p \in DOMAIN output : output[p] \in Jobs
    BY <1>1, SMT
  <1>3. InChannel \in SUBSET Jobs
    BY <1>2 DEF InChannel
  <1>4. ASSUME NEW p \in DOMAIN output PROVE InFront(p) \in SUBSET Jobs
    <2>1. \A i \in 1 .. p - 1 : i \in DOMAIN output
      BY <1>2, SMT
    <2>. QED
      BY <1>2, <2>1 DEF InFront
  <1>. QED
    BY <1>1, <1>2, <1>3, <1>4

\* The send of the dispatcher's select: the job is behind all of the channel.
LEMMA FairSend ==
    ASSUME IInv, FairInv, NoneReturned, mode' = mode, SendJob, UNCHANGED overtaken,
           (Len(output) <= OutputCapacity)'
    PROVE  FairInv'
  <1>1. PICK j \in Jobs : /\ held = {j} /\ held' = {}
                          /\ output' = Append(output, j)
                          /\ InChannel' = InChannel \cup {j}
    BY SendEffect
  <1>2. UNCHANGED <<customerQueues, bypassed>>
    BY DEF SendJob, queueVars
  <1>3. OutputCapacity' = OutputCapacity /\ \A c, p : Limit(c, p)' = Limit(c, p)
    BY DEF OutputCapacity, Limit
  <1>4. (held \cup InChannel)' = held \cup InChannel
    BY <1>1
  <1>5. QueuedFair'
    BY <1>2, <1>3, <1>4 DEF FairInv, QueuedFair
  <1>6. HeldFair'
    BY <1>1 DEF HeldFair
  <1>7. ChannelFair'
    <2>1. /\ output \in Seq(Jobs) /\ Len(output) \in Nat /\ DOMAIN output = 1 .. Len(output)
      BY ChannelFacts
    <2>2. /\ DOMAIN output' = 1 .. Len(output) + 1
          /\ (output')[Len(output) + 1] = j
          /\ \A i \in 1 .. Len(output) : (output')[i] = output[i]
      BY <1>1, <2>1, SMT
    <2>3. ASSUME NEW p \in 1 .. Len(output) + 1 PROVE InFront(p)' = {output[i] : i \in 1 .. p - 1}
      <3>1. \A i \in 1 .. p - 1 : i \in 1 .. Len(output)
        BY <2>1, SMT
      <3>. QED
        BY <2>2, <3>1 DEF InFront
    <2> SUFFICES ASSUME NEW p \in 1 .. Len(output) + 1
                 PROVE  overtaken[output'[p]] + Before(InFront(p)', CustomerOf[output'[p]])
                           <= Limit(CustomerOf[output'[p]], 0)
      BY <1>3, <2>2 DEF ChannelFair
    <2>4. CASE p \in 1 .. Len(output)
      <3>1. InFront(p)' = InFront(p) /\ output'[p] = output[p] /\ p \in DOMAIN output
        BY <2>1, <2>2, <2>3, <2>4 DEF InFront
      <3>. QED
        BY <3>1 DEF FairInv, ChannelFair
    <2>5. CASE p = Len(output) + 1
      <3>1. 1 .. p - 1 = DOMAIN output
        BY <2>1, <2>5, SMT
      <3>2. InFront(p)' = InChannel /\ output'[p] = j
        BY <2>2, <2>3, <2>5, <3>1 DEF InChannel
      <3>. QED
        BY <1>1, <3>2 DEF FairInv, HeldFair
    <2>. QED
      BY <2>1, <2>4, <2>5, SMT
  <1>8. NotYetEnqueued' /\ OvertakenFair'
    BY <1>3 DEF FairInv, NotYetEnqueued, NoneReturned, OvertakenFair
  <1>. QED
    BY <1>5, <1>6, <1>7, <1>8 DEF FairInv

\* A customer's queued jobs profit when fewer jobs are ahead.
LEMMA FairAbandon ==
    ASSUME IInv, FairInv, RunTypeOK, NoneReturned, mode' = mode, AbandonJob, UNCHANGED overtaken
    PROVE  FairInv'
  <1>1. held' = {} /\ UNCHANGED <<customerQueues, bypassed, output>>
    BY DEF AbandonJob, queueVars
  <1>2. OutputCapacity' = OutputCapacity /\ \A c, p : Limit(c, p)' = Limit(c, p)
    BY DEF OutputCapacity, Limit
  <1>3. InChannel' = InChannel /\ \A p : InFront(p)' = InFront(p)
    BY <1>1 DEF InChannel, InFront
  <1>4. QueuedFair'
    <2> SUFFICES ASSUME NEW c \in DOMAIN customerQueues, NEW p \in DOMAIN customerQueues[c]
                 PROVE  overtaken[customerQueues[c][p]] + Before(InChannel, c) <= Limit(c, p) + bypassed[c]
      <3>1. (held \cup InChannel)' = InChannel
        BY <1>1, <1>3
      <3>. QED
        BY <1>1, <1>2, <3>1 DEF QueuedFair
    <2>1. overtaken[customerQueues[c][p]] + Before(held \cup InChannel, c) <= Limit(c, p) + bypassed[c]
      BY DEF FairInv, QueuedFair
    <2>2. /\ c \in Customers /\ customerQueues[c][p] \in Jobs /\ p \in Int
      <3>1. /\ c \in Customers /\ customerQueues[c] \in Seq(Jobs)
        BY QueuePositions
      <3>. QED
        BY <3>1, SMT
    <2>3. overtaken[customerQueues[c][p]] \in Nat /\ Limit(c, p) \in Int /\ bypassed[c] \in Nat
      BY <2>2, LimitFacts DEF RunTypeOK, IInv, TypeOK
    <2>4. /\ Before(InChannel, c) \in Nat /\ Before(held \cup InChannel, c) \in Nat
          /\ Before(InChannel, c) <= Before(held \cup InChannel, c)
      <3>1. held \cup InChannel \in SUBSET Jobs /\ InChannel \in SUBSET (held \cup InChannel)
        BY ChannelFacts
      <3>. QED
        BY <3>1, BeforeSubset
    <2>. QED
      BY <2>1, <2>3, <2>4, SMT
  <1>5. HeldFair' /\ ChannelFair' /\ OvertakenFair'
    BY <1>1, <1>2, <1>3 DEF FairInv, HeldFair, ChannelFair, OvertakenFair
  <1>6. NotYetEnqueued'
    BY DEF FairInv, NotYetEnqueued, NoneReturned
  <1>. QED
    BY <1>1, <1>2, <1>4, <1>5, <1>6 DEF FairInv

-----------------------------------------------------------------------------
(***************************************************************************)
(* Job k is taken out of the scheduler, and the waiting jobs of other      *)
(* customers may count it.                                                 *)
(***************************************************************************)
CountsTaken(k) ==
    /\ overtaken' \in [Jobs -> Nat]
    /\ \A j \in Jobs : overtaken'[j] <= overtaken[j] + (IF CustomerOf[k] # CustomerOf[j] THEN 1 ELSE 0)
    /\ \A j \in Jobs \ InScheduler' : overtaken'[j] = overtaken[j]

\* A job that counts k has k no longer before it.
LEMMA CountedOnce ==
    ASSUME overtaken \in [Jobs -> Nat], NEW k, CountsTaken(k),
           NEW j \in Jobs, NEW S \in SUBSET Jobs, k \in S, NEW bound \in Int,
           overtaken[j] + Before(S, CustomerOf[j]) <= bound
    PROVE  overtaken'[j] + Before(S \ {k}, CustomerOf[j]) <= bound
  <1> DEFINE c == CustomerOf[j]
  <1>1. /\ overtaken[j] \in Nat /\ overtaken'[j] \in Nat
        /\ overtaken'[j] <= overtaken[j] + (IF CustomerOf[k] # c THEN 1 ELSE 0)
    BY DEF CountsTaken
  <1>2. /\ Before(S, c) \in Nat /\ Before(S \ {k}, c) \in Nat
        /\ Before(S \ {k}, c) = IF CustomerOf[k] # c THEN Before(S, c) - 1 ELSE Before(S, c)
    BY BeforeRemove
  <1>. HIDE DEF c
  <1>3. overtaken[j] + Before(S, c) <= bound
    BY DEF c
  <1>4. overtaken'[j] + Before(S \ {k}, c) <= bound
    BY <1>1, <1>2, <1>3, SMT
  <1>. QED
    BY <1>4 DEF c

\* A worker, or the main goroutine, receives job k.
LEMMA FairTaken ==
    ASSUME IInv, IInv', RunTypeOK, FairInv, NoneReturned, mode' = mode, NEW k \in Jobs, CountsTaken(k),
           \/ ReceiveBuffered /\ {k} = {Head(output)}
           \/ ReceiveDirectly /\ {k} = held,
           \A j \in Jobs : status[j] = "pending" \/ j \in claimed => j \notin InScheduler
    PROVE  FairInv'
  <1>1. UNCHANGED <<customerQueues, bypassed>>
    BY DEF ReceiveBuffered, ReceiveDirectly, queueVars
  <1>2. /\ OutputCapacity' = OutputCapacity /\ \A c, p : Limit(c, p)' = Limit(c, p)
        /\ \A j \in Jobs : Limit(CustomerOf[j], 0) \in Int
    <2>1. 0 \in Int
      BY SMT
    <2>2. \A j \in Jobs : CustomerOf[j] \in Customers
      BY SchedulerAssumption
    <2>3. \A j \in Jobs : Limit(CustomerOf[j], 0) \in Int
      BY <2>1, <2>2, LimitFacts DEF RunTypeOK
    <2>. QED
      BY <2>3 DEF OutputCapacity, Limit
  <1>3. /\ InScheduler' \in SUBSET InScheduler
        /\ k \in held \cup InChannel
        /\ (held \cup InChannel)' = (held \cup InChannel) \ {k}
    <2>1. Queued' = Queued
      BY <1>1 DEF Queued
    <2>2. held \cap InChannel = {}
      BY DEF IInv, OnePlace
    <2>3. CASE ReceiveBuffered /\ {k} = {Head(output)}
      <3>1. held' = held /\ k \in InChannel /\ InChannel' = InChannel \ {k}
        BY <2>3, ReceiveEffect DEF ReceiveBuffered
      <3>. QED
        BY <2>1, <2>2, <3>1 DEF InScheduler
    <2>4. CASE ReceiveDirectly /\ {k} = held
      <3>1. held' = {} /\ InChannel' = InChannel
        BY <2>4 DEF ReceiveDirectly, channelVars, InChannel
      <3>. QED
        BY <2>1, <2>2, <2>4, <3>1 DEF InScheduler
    <2>. QED
      BY <2>3, <2>4
  <1>4. overtaken \in [Jobs -> Nat] /\ held \cup InChannel \in SUBSET Jobs /\ InChannel \in SUBSET Jobs
    BY ChannelFacts DEF RunTypeOK
  <1>5. QueuedFair'
    <2> SUFFICES ASSUME NEW c \in DOMAIN customerQueues, NEW p \in DOMAIN customerQueues[c]
                 PROVE  overtaken'[customerQueues[c][p]] + Before((held \cup InChannel) \ {k}, c)
                           <= Limit(c, p) + bypassed[c]
      BY <1>1, <1>2, <1>3 DEF QueuedFair
    <2>1. overtaken[customerQueues[c][p]] + Before(held \cup InChannel, c) <= Limit(c, p) + bypassed[c]
      BY DEF FairInv, QueuedFair
    <2>2. c \in Customers /\ customerQueues[c][p] \in Jobs /\ p \in Int
      <3>1. c \in Customers /\ customerQueues[c] \in Seq(Jobs)
        BY QueuePositions
      <3>. QED
        BY <3>1, SMT
    <2>3. CustomerOf[customerQueues[c][p]] = c
      BY DEF IInv, OnePlace
    <2>4. Limit(c, p) + bypassed[c] \in Int
      <3>1. Limit(c, p) \in Int /\ bypassed[c] \in Nat
        BY <2>2, LimitFacts DEF RunTypeOK, IInv, TypeOK
      <3>. QED
        BY <3>1, SMT
    <2>. QED
      BY <1>3, <1>4, <2>1, <2>2, <2>3, <2>4, CountedOnce
  <1>6. HeldFair' /\ ChannelFair' /\ (Len(output) <= OutputCapacity)'
    <2>1. CASE ReceiveBuffered /\ {k} = {Head(output)}
      <3>1. /\ held' = held /\ k \in InChannel /\ InChannel' = InChannel \ {k} /\ k = output[1]
            /\ Len(output) \in Nat \ {0} /\ DOMAIN output = 1 .. Len(output)
            /\ DOMAIN output' = 1 .. Len(output) - 1
            /\ \A i \in 1 .. Len(output) - 1 : (output')[i] = output[i + 1]
        BY <2>1, ReceiveEffect DEF ReceiveBuffered
      <3>2. HeldFair'
        <4> SUFFICES ASSUME NEW j \in held
                     PROVE  overtaken'[j] + Before(InChannel \ {k}, CustomerOf[j]) <= Limit(CustomerOf[j], 0)
          BY <1>2, <3>1 DEF HeldFair
        <4>1. j \in Jobs /\ overtaken[j] + Before(InChannel, CustomerOf[j]) <= Limit(CustomerOf[j], 0)
          BY ChannelFacts DEF FairInv, HeldFair
        <4>2. Limit(CustomerOf[j], 0) \in Int
          BY <1>2, <4>1
        <4>. QED
          BY <1>4, <3>1, <4>1, <4>2, CountedOnce
      <3>3. ChannelFair'
        <4> SUFFICES ASSUME NEW p \in 1 .. Len(output) - 1
                     PROVE  overtaken'[output'[p]] + Before(InFront(p)', CustomerOf[output'[p]])
                               <= Limit(CustomerOf[output'[p]], 0)
          BY <1>2, <3>1 DEF ChannelFair
        <4>1. p + 1 \in DOMAIN output /\ output'[p] = output[p + 1]
          BY <3>1, SMT
        <4>2. k \in InFront(p + 1) /\ InFront(p)' = InFront(p + 1) \ {k}
          <5>1. /\ 1 \in 1 .. (p + 1) - 1 /\ p - 1 \in Nat
                /\ \A i \in 1 .. p - 1 : /\ i \in 1 .. Len(output) - 1
                                         /\ i + 1 \in 1 .. (p + 1) - 1
                                         /\ i + 1 \in DOMAIN output /\ i + 1 # 1
                /\ \A i \in 1 .. (p + 1) - 1 : /\ i # 1 => i - 1 \in 1 .. p - 1 /\ (i - 1) + 1 = i
                                               /\ i \in DOMAIN output
                /\ 1 \in DOMAIN output
            BY <3>1, SMT
          <5>2. k \in InFront(p + 1)
            BY <3>1, <5>1 DEF InFront
          <5>3. ASSUME NEW i \in 1 .. p - 1 PROVE output'[i] \in InFront(p + 1) \ {k}
            <6>1. output'[i] = output[i + 1] /\ output[i + 1] \in InFront(p + 1)
              BY <3>1, <5>1 DEF InFront
            <6>2. output[i + 1] # output[1]
              BY <5>1 DEF IInv, OnePlace
            <6>. QED
              BY <3>1, <6>1, <6>2
          <5>4. ASSUME NEW i \in 1 .. (p + 1) - 1, output[i] # k PROVE output[i] \in InFront(p)'
            <6>1. i # 1
              BY <3>1, <5>4
            <6>2. i - 1 \in 1 .. p - 1 /\ output'[i - 1] = output[i]
              BY <3>1, <5>1, <6>1
            <6>. QED
              BY <6>2 DEF InFront
          <5>. QED
            BY <5>2, <5>3, <5>4 DEF InFront
        <4>3. /\ overtaken[output[p + 1]] + Before(InFront(p + 1), CustomerOf[output[p + 1]])
                    <= Limit(CustomerOf[output[p + 1]], 0)
              /\ output[p + 1] \in Jobs /\ InFront(p + 1) \in SUBSET Jobs
          BY <4>1, ChannelFacts DEF FairInv, ChannelFair
        <4>4. Limit(CustomerOf[output[p + 1]], 0) \in Int
          BY <1>2, <4>3
        <4>5. overtaken'[output[p + 1]] + Before(InFront(p + 1) \ {k}, CustomerOf[output[p + 1]])
                    <= Limit(CustomerOf[output[p + 1]], 0)
          BY <1>4, <4>2, <4>3, <4>4, CountedOnce
        <4>. QED
          BY <4>1, <4>2, <4>5
      <3>4. (Len(output) <= OutputCapacity)'
        <4>1. Len(output') = Len(output) - 1
          BY <2>1, ChannelFacts, SMT DEF ReceiveBuffered
        <4>2. OutputCapacity \in Nat
          BY SchedulerAssumption, LimitFacts DEF RunTypeOK
        <4>. QED
          BY <1>2, <3>1, <4>1, <4>2, SMT DEF FairInv
      <3>. QED
        BY <3>2, <3>3, <3>4
    <2>2. CASE ReceiveDirectly /\ {k} = held
      <3>1. held' = {} /\ output' = output /\ output = <<>>
        BY <2>2 DEF ReceiveDirectly, channelVars
      <3>2. DOMAIN output' = {}
        BY <3>1, SMT
      <3>. QED
        BY <1>2, <3>1, <3>2 DEF HeldFair, ChannelFair, FairInv
    <2>. QED
      BY <2>1, <2>2
  <1>7. NotYetEnqueued'
    BY <1>3 DEF FairInv, NotYetEnqueued, NoneReturned, CountsTaken
  <1>8. OvertakenFair'
    <2>1. (\A j \in InScheduler : overtaken[j] <= Limit(CustomerOf[j], 0))'
      <3>1. mode' \in Modes /\ overtaken' \in [Jobs -> Nat]
        BY DEF RunTypeOK, CountsTaken
      <3>. QED
        BY <1>5, <1>6, <3>1, PlacesBoundNext
    <2>2. \A j \in Jobs \ InScheduler' : overtaken'[j] <= Limit(CustomerOf[j], 0)
      BY DEF CountsTaken, FairInv, OvertakenFair
    <2>. QED
      BY <1>2, <2>1, <2>2 DEF OvertakenFair
  <1>. QED
    BY <1>5, <1>6, <1>7, <1>8 DEF FairInv

-----------------------------------------------------------------------------
\* One more job ahead.
LEMMA BeforeAdd ==
    ASSUME NEW S \in SUBSET Jobs, NEW k \in Jobs, k \notin S, NEW c
    PROVE  /\ Before(S, c) \in Nat /\ Before({k} \cup S, c) \in Nat
           /\ Before({k} \cup S, c) = IF CustomerOf[k] # c THEN Before(S, c) + 1 ELSE Before(S, c)
  <1> DEFINE T == {i \in S : CustomerOf[i] # c}
             U == {i \in {k} \cup S : CustomerOf[i] # c}
  <1>1. IsFiniteSet(T) /\ Before(S, c) \in Nat
    BY BeforeType
  <1>2. {k} \cup S \in SUBSET Jobs
    OBVIOUS
  <1>3. Before({k} \cup S, c) \in Nat
    BY <1>2, BeforeType
  <1>4. k \notin T
    OBVIOUS
  <1>5. U = IF CustomerOf[k] # c THEN T \cup {k} ELSE T
    OBVIOUS
  <1>6. Before(S, c) = Cardinality(T) /\ Before({k} \cup S, c) = Cardinality(U)
    BY DEF Before
  <1>. HIDE DEF T, U
  <1>7. Cardinality(T \cup {k}) = Cardinality(T) + 1
    BY <1>1, <1>4, FS_AddElement
  <1>. QED
    BY <1>1, <1>3, <1>5, <1>6, <1>7

\* One more on both sides.
LEMMA OneEach ==
    ASSUME NEW a \in Nat, NEW b \in Nat, NEW m \in Int, NEW n \in Nat, a + b <= m + n
    PROVE  a + (b + 1) <= m + (n + 1)
  BY SMT

\* What the queue of a customer says of one of its jobs.
LEMMA QueuedJob ==
    ASSUME IInv, RunTypeOK, QueuedFair, NEW c \in DOMAIN customerQueues, NEW p \in DOMAIN customerQueues[c]
    PROVE  LET j == customerQueues[c][p] IN
           /\ j \in Jobs /\ CustomerOf[j] = c /\ c \in Customers
           /\ p \in 1 .. EventsPerCustomer[c] /\ p \in Int
           /\ overtaken[j] \in Nat /\ bypassed[c] \in Nat /\ bypassed[c] <= OtherCustomers
           /\ OtherCustomers \in Nat
           /\ Limit(c, p) \in Int /\ Limit(c, p - 1) \in Int /\ Limit(c, 0) \in Int
           /\ Limit(c, p - 1) = Limit(c, p) + OtherCustomers
           /\ overtaken[j] + Before(held \cup InChannel, c) <= Limit(c, p) + bypassed[c]
  <1> DEFINE j == customerQueues[c][p]
  <1>1. /\ c \in Customers /\ customerQueues[c] \in Seq(Jobs)
        /\ Len(customerQueues[c]) \in Nat /\ DOMAIN customerQueues[c] = 1 .. Len(customerQueues[c])
        /\ EventsPerCustomer[c] \in Nat
        /\ Len(customerQueues[c]) <= EventsPerCustomer[c]
    BY QueuePositions
  <1>2. j \in Jobs /\ p \in 1 .. EventsPerCustomer[c] /\ p \in Int /\ p - 1 \in Int /\ 0 \in Int /\ HasJobs(c)
    BY <1>1, SMT DEF HasJobs
  <1>3. CustomerOf[j] = c
    BY DEF IInv, OnePlace
  <1>4. overtaken[j] + Before(held \cup InChannel, c) <= Limit(c, p) + bypassed[c]
    BY DEF QueuedFair
  <1>5. overtaken[j] \in Nat
    BY <1>2 DEF RunTypeOK
  <1>6. bypassed[c] \in Nat /\ bypassed[c] <= OtherCustomers
    BY <1>2, BypassedOnce
  <1>. HIDE DEF j
  <1>7. /\ Limit(c, p) \in Int /\ Limit(c, p - 1) \in Int /\ Limit(c, 0) \in Int
        /\ Limit(c, p - 1) = Limit(c, p) + OtherCustomers /\ OtherCustomers \in Nat
    BY <1>1, <1>2, LimitFacts DEF RunTypeOK
  <1>. QED
    BY <1>1, <1>2, <1>3, <1>4, <1>5, <1>6, <1>7 DEF j

\* The dispatcher serves customer c: the others count a bypass, and the jobs
\* of c move up by one position, which is worth one job of each other customer.
LEMMA FairDequeue ==
    ASSUME IInv, RunTypeOK, FairInv, NoneReturned, mode' = mode, UNCHANGED overtaken, DequeueNextJob
    PROVE  FairInv'
  <1>1. PICK offset \in 0 .. Len(customerOrder) - 1 : IsServed(offset, ScannedCustomer(offset))
    BY DequeueEffect DEF IInv
  <1> DEFINE c == ScannedCustomer(offset)
             q == customerQueues[c]
             j == Head(q)
  <1>2. /\ c \in DOMAIN customerQueues /\ c \in Customers /\ HasJobs(c)
        /\ held' = {j} /\ j \in Queued
        /\ DOMAIN customerQueues' = DOMAIN customerQueues
        /\ (customerQueues')[c] = Tail(q)
        /\ \A d \in DOMAIN customerQueues : d # c => (customerQueues')[d] = customerQueues[d]
        /\ bypassed' = [d \in Customers |-> IF d # c /\ QueueOf(d) # <<>> THEN bypassed[d] + 1 ELSE 0]
    BY <1>1 DEF IsServed, FirstWithJobs
  <1>. HIDE DEF c
  <1>3. /\ q \in Seq(Jobs) /\ Len(q) \in Nat \ {0} /\ DOMAIN q = 1 .. Len(q) /\ 1 \in DOMAIN q /\ j = q[1]
        /\ DOMAIN (customerQueues')[c] = 1 .. Len(q) - 1
        /\ \A p \in 1 .. Len(q) - 1 : (customerQueues')[c][p] = q[p + 1] /\ p + 1 \in DOMAIN q /\ (p + 1) - 1 = p
    <2>1. q \in Seq(Jobs)
      BY <1>2, QueuePositions
    <2>. QED
      BY <1>2, <2>1, SMT DEF HasJobs
  <1>4. CustomerOf[j] = c /\ j \in Jobs
    <2>1. j \in Jobs
      BY <1>2 DEF Queued
    <2>2. 1 \in DOMAIN customerQueues[c] /\ j = customerQueues[c][1]
      BY <1>3
    <2>. HIDE DEF j
    <2>3. CustomerOf[customerQueues[c][1]] = c
      BY <1>2, <2>2 DEF IInv, OnePlace
    <2>. QED
      BY <2>1, <2>2, <2>3
  <1>. HIDE DEF q
  <1>5. held = {} /\ output' = output /\ InChannel' = InChannel /\ \A p : InFront(p)' = InFront(p)
    BY DEF DequeueNextJob, channelVars, IInv, HandAndChannel, InChannel, InFront
  <1>6. InChannel \in SUBSET Jobs /\ held \cup InChannel = InChannel /\ (held \cup InChannel)' = {j} \cup InChannel
    BY <1>2, <1>5, ChannelFacts
  <1>7. j \notin InChannel
    BY <1>2 DEF IInv, OnePlace
  <1>. HIDE DEF j
  <1>8. OutputCapacity' = OutputCapacity /\ \A d, p : Limit(d, p)' = Limit(d, p)
    BY DEF OutputCapacity, Limit
  <1>9. QueuedFair'
    <2> SUFFICES ASSUME NEW d \in DOMAIN customerQueues, NEW p \in DOMAIN (customerQueues')[d]
                 PROVE  overtaken[(customerQueues')[d][p]] + Before({j} \cup InChannel, d)
                           <= Limit(d, p) + (bypassed')[d]
      BY <1>2, <1>6, <1>8 DEF QueuedFair
    <2>1. /\ Before(InChannel, d) \in Nat /\ Before({j} \cup InChannel, d) \in Nat
          /\ Before({j} \cup InChannel, d) = IF CustomerOf[j] # d THEN Before(InChannel, d) + 1
                                                                 ELSE Before(InChannel, d)
      <3>1. j \in Jobs /\ InChannel \in SUBSET Jobs
        BY <1>4, <1>6
      <3>. QED
        BY <1>7, <3>1, BeforeAdd
    <2>2. CASE d # c
      <3>1. (customerQueues')[d] = customerQueues[d]
        BY <1>2, <2>2
      <3>2. /\ d \in Customers /\ overtaken[customerQueues[d][p]] \in Nat /\ bypassed[d] \in Nat
            /\ Limit(d, p) \in Int
            /\ overtaken[customerQueues[d][p]] + Before(InChannel, d) <= Limit(d, p) + bypassed[d]
        BY <1>6, <3>1, QueuedJob DEF FairInv
      <3>3. QueueOf(d) # <<>>
        BY <3>1, SMT DEF QueueOf
      <3>4. (bypassed')[d] = bypassed[d] + 1
        BY <1>2, <2>2, <3>2, <3>3
      <3>5. Before({j} \cup InChannel, d) = Before(InChannel, d) + 1
        BY <1>4, <2>1, <2>2
      <3>6. overtaken[customerQueues[d][p]] + (Before(InChannel, d) + 1) <= Limit(d, p) + (bypassed[d] + 1)
        BY <2>1, <3>2, OneEach
      <3>. QED
        BY <3>1, <3>4, <3>5, <3>6
    <2>3. CASE d = c
      <3>1. p \in 1 .. Len(q) - 1 /\ (customerQueues')[c][p] = q[p + 1] /\ p + 1 \in DOMAIN q /\ (p + 1) - 1 = p
        BY <1>3, <2>3
      <3>2. /\ overtaken[q[p + 1]] \in Nat /\ bypassed[c] \in Nat /\ bypassed[c] <= OtherCustomers
            /\ OtherCustomers \in Nat
            /\ Limit(c, p + 1) \in Int /\ Limit(c, p) \in Int
            /\ Limit(c, p) = Limit(c, p + 1) + OtherCustomers
            /\ overtaken[q[p + 1]] + Before(InChannel, c) <= Limit(c, p + 1) + bypassed[c]
        BY <1>2, <1>6, <3>1, QueuedJob DEF FairInv, q
      <3>3. (bypassed')[c] = 0
        BY <1>2
      <3>4. Before({j} \cup InChannel, c) = Before(InChannel, c) /\ Before(InChannel, c) \in Nat
        BY <1>4, <2>1, <2>3
      <3>5. overtaken[q[p + 1]] + Before(InChannel, c) <= Limit(c, p) + 0
        BY <3>2, <3>4, SMT
      <3>. QED
        BY <2>3, <3>1, <3>3, <3>4, <3>5
    <2>. QED
      BY <2>2, <2>3
  <1>10. HeldFair'
    <2>1. /\ overtaken[j] \in Nat /\ bypassed[c] \in Nat /\ bypassed[c] <= OtherCustomers
          /\ OtherCustomers \in Nat
          /\ Limit(c, 1) \in Int /\ Limit(c, 1 - 1) = Limit(c, 1) + OtherCustomers
          /\ overtaken[j] + Before(InChannel, c) <= Limit(c, 1) + bypassed[c]
      <3>1. 1 \in DOMAIN customerQueues[c] /\ j = customerQueues[c][1] /\ QueuedFair
        BY <1>3 DEF FairInv, q
      <3>. QED
        BY <1>2, <1>6, <3>1, QueuedJob
    <2>2. 1 - 1 = 0
      BY SMT
    <2>3. Before(InChannel, c) \in Nat
      BY <1>6, BeforeType
    <2>4. Limit(c, 0) = Limit(c, 1) + OtherCustomers
      BY <2>1, <2>2
    <2>5. overtaken[j] + Before(InChannel, c) <= Limit(c, 0)
      BY <2>1, <2>3, <2>4, SMT
    <2>. QED
      BY <1>2, <1>4, <1>5, <1>8, <2>5 DEF HeldFair
  <1>11. ChannelFair' /\ OvertakenFair'
    BY <1>5, <1>8 DEF FairInv, ChannelFair, OvertakenFair
  <1>12. NotYetEnqueued'
    BY DEF FairInv, NotYetEnqueued, NoneReturned
  <1>. QED
    BY <1>5, <1>8, <1>9, <1>10, <1>11, <1>12 DEF FairInv

-----------------------------------------------------------------------------
\* Enqueue: a new job has not been overtaken, and little is ahead of it but its own queue.
LEMMA FairEnqueue ==
    ASSUME IInv, IInv', RunTypeOK, FairInv, NoneReturned, mode' = mode, UNCHANGED overtaken,
           NEW j \in Jobs, j \in claimed, Enqueue(j)
    PROVE  FairInv'
  <1> DEFINE c == CustomerOf[j]
             q == QueueOf(c)
  <1>1. IsEnqueued(j, c)
    BY EnqueueEffect DEF IInv
  <1>2. UNCHANGED <<held, output, bypassed>>
    BY DEF Enqueue, channelVars
  <1>3. OutputCapacity' = OutputCapacity /\ \A d, p : Limit(d, p)' = Limit(d, p)
    BY DEF OutputCapacity, Limit
  <1>4. InChannel' = InChannel /\ \A p : InFront(p)' = InFront(p)
    BY <1>2 DEF InChannel, InFront
  <1>. HIDE DEF c
  <1>5. /\ c \in Customers
        /\ q \in Seq(Jobs) /\ Len(q) \in Nat /\ DOMAIN q = 1 .. Len(q)
        /\ DOMAIN (customerQueues')[c] = 1 .. Len(q) + 1 /\ Len((customerQueues')[c]) = Len(q) + 1
        /\ \A p \in 1 .. Len(q) : (customerQueues')[c][p] = q[p]
        /\ (customerQueues')[c][Len(q) + 1] = j
    <2>1. c \in Customers /\ q \in Seq(Jobs) /\ (customerQueues')[c] = Append(q, j)
      BY <1>1 DEF IsEnqueued
    <2>. HIDE DEF q
    <2>. QED
      BY <2>1, SMT
  <1>6. QueuedFair'
    <2> SUFFICES ASSUME NEW d \in DOMAIN customerQueues', NEW p \in DOMAIN (customerQueues')[d]
                 PROVE  overtaken[(customerQueues')[d][p]] + Before(held \cup InChannel, d)
                           <= Limit(d, p) + bypassed[d]
      BY <1>2, <1>3, <1>4 DEF QueuedFair
    <2>1. CASE d # c
      <3>1. d \in DOMAIN customerQueues /\ (customerQueues')[d] = customerQueues[d]
        BY <1>1, <2>1 DEF IsEnqueued
      <3>. QED
        BY <3>1 DEF FairInv, QueuedFair
    <2>2. CASE d = c /\ p \in 1 .. Len(q)
      <3>1. c \in DOMAIN customerQueues /\ customerQueues[c] = q
        <4>1. q # <<>>
          BY <1>5, <2>2, SMT
        <4>. QED
          BY <4>1 DEF QueueOf
      <3>2. (customerQueues')[c][p] = customerQueues[c][p] /\ p \in DOMAIN customerQueues[c]
        BY <1>5, <2>2, <3>1
      <3>. QED
        BY <2>2, <3>1, <3>2 DEF FairInv, QueuedFair
    <2>3. CASE d = c /\ p = Len(q) + 1
      <3>1. overtaken[(customerQueues')[d][p]] = 0
        BY <1>5, <2>3 DEF FairInv, NotYetEnqueued
      <3>2. /\ Before(held \cup InChannel, c) \in Nat
            /\ Before(held \cup InChannel, c) <= OutputCapacity + 1
        BY <1>5, AheadIsSmall DEF RunTypeOK, FairInv
      <3>3. c \in DOMAIN customerQueues'
        BY <2>3
      <3>4. Len((customerQueues')[c]) <= EventsPerCustomer[c]
        BY <3>3, PositionsNext DEF PositionsBounded
      <3>5. EventsPerCustomer[c] \in Nat /\ OutputCapacity \in Nat
        BY <1>5, LimitFacts DEF RunTypeOK
      <3>6. p \in 1 .. EventsPerCustomer[c] /\ p \in Int
        <4>1. Len(q) + 1 <= EventsPerCustomer[c] /\ Len(q) \in Nat /\ p = Len(q) + 1
          BY <1>5, <2>3, <3>4
        <4>. QED
          BY <3>5, <4>1, SMT
      <3>7. Limit(c, p) \in Int /\ OutputCapacity + 1 <= Limit(c, p)
        BY <1>5, <3>6, LimitFacts DEF RunTypeOK
      <3>8. bypassed[c] \in Nat
        BY <1>5 DEF IInv, TypeOK
      <3>9. 0 + Before(held \cup InChannel, c) <= Limit(c, p) + bypassed[c]
        BY <3>2, <3>5, <3>7, <3>8, SMT
      <3>. QED
        BY <2>3, <3>1, <3>9
    <2>4. d = c => p \in 1 .. Len(q) \/ p = Len(q) + 1
      <3>1. Len(q) \in Nat /\ (d = c => p \in 1 .. Len(q) + 1)
        BY <1>5
      <3>. QED
        BY <3>1, SMT
    <2>. QED
      BY <2>1, <2>2, <2>3, <2>4
  <1>7. HeldFair' /\ ChannelFair' /\ OvertakenFair'
    BY <1>2, <1>3, <1>4 DEF FairInv, HeldFair, ChannelFair, OvertakenFair
  <1>8. NotYetEnqueued'
    BY DEF FairInv, NotYetEnqueued, NoneReturned
  <1>. QED
    BY <1>2, <1>3, <1>6, <1>7, <1>8 DEF FairInv

-----------------------------------------------------------------------------
\* A step of a run makes no job pending or claimed that was past that.
LEMMA RunReturnsNone ==
    ASSUME RunInv, [RunNext]_runVars
    PROVE  NoneReturned
  <1>1. CASE UNCHANGED <<status, claimed>>
    BY <1>1 DEF NoneReturned
  <1>2. CASE ClaimAvailableDeliveries
    BY <1>2 DEF ClaimAvailableDeliveries, MarkClaimed, ClaimedDeliveries, Claimable, NoneReturned
  <1>3. CASE EnqueueNext
    BY <1>3 DEF EnqueueNext, NoneReturned
  <1>4. ASSUME NEW w \in Workers, FinishJob(w), UNCHANGED claimed PROVE NoneReturned
    BY <1>4 DEF FinishJob, NoneReturned
  <1>5. CASE ReceiveJob
    <2>1. UNCHANGED claimed
      BY <1>5 DEF ReceiveJob
    <2>2. \A j \in Jobs : status'[j] = status[j] \/ status'[j] = "completed"
      BY <1>5 DEF ReceiveJob, RunInv, RunTypeOK
    <2>. QED
      BY <2>1, <2>2 DEF NoneReturned
  <1>6. \/ UNCHANGED <<status, claimed>> \/ ClaimAvailableDeliveries \/ EnqueueNext \/ ReceiveJob
        \/ \E w \in Workers : FinishJob(w) /\ UNCHANGED claimed
    BY DEF RunNext, Poller, Main, Worker, SchedulerStep, StopPoller, TakeJob, LeaveWorker, Deliver,
           OnCompletion, DeliveryDone, MarkDelivered, EndDeliveries, EndScheduler, WaitForGroup, runVars
  <1>. QED
    BY <1>1, <1>2, <1>3, <1>4, <1>5, <1>6

\* Jobs that are pending or claimed are not in the scheduler.
LEMMA NotEnqueuedYet ==
    ASSUME RunInv
    PROVE  \A j \in Jobs : status[j] = "pending" \/ j \in claimed => j \notin InScheduler
  BY DEF RunInv, OneHand

\* A worker takes a job.
LEMMA FairTakeJob ==
    ASSUME RunInv, IInv', FairInv, NoneReturned, NEW w \in Workers, TakeJob(w)
    PROVE  FairInv'
  <1>1. PICK J \in SUBSET Jobs :
              /\ \/ ReceiveBuffered /\ J = {Head(output)}
                 \/ ReceiveDirectly /\ J = held
              /\ IsWorkerStep(w, "idle", "delivering", J)
              /\ job'[w] = J
    BY TakesJob
  <1>2. PICK k \in Jobs : J = {k}
    BY <1>1 DEF IsWorkerStep
  <1>3. InScheduler' = InScheduler \ {k}
    BY <1>1, <1>2 DEF IsWorkerStep
  <1>4. \A j \in Jobs : overtaken'[j] = IF j \in InScheduler /\ CustomerOf[k] # CustomerOf[j]
                                          THEN overtaken[j] + 1 ELSE overtaken[j]
    BY <1>1, <1>2 DEF TakeJob
  <1>5. overtaken \in [Jobs -> Nat]
    BY DEF RunInv, RunTypeOK
  <1>6. overtaken' \in [Jobs -> Nat]
    <2>1. \A n \in Nat : n + 1 \in Nat
      BY SMT
    <2>. QED
      BY <1>5, <2>1 DEF TakeJob
  <1>7. CountsTaken(k)
    <2>1. ASSUME NEW j \in Jobs
          PROVE  overtaken'[j] <= overtaken[j] + (IF CustomerOf[k] # CustomerOf[j] THEN 1 ELSE 0)
      <3>1. overtaken[j] \in Nat
        BY <1>5
      <3>2. overtaken[j] <= overtaken[j] + 0 /\ overtaken[j] <= overtaken[j] + 1
            /\ overtaken[j] + 1 <= overtaken[j] + 1
        BY <3>1, SMT
      <3>. QED
        BY <1>4, <3>2
    <2>2. \A j \in Jobs \ InScheduler' : overtaken'[j] = overtaken[j]
      BY <1>3, <1>4
    <2>. QED
      BY <1>6, <2>1, <2>2 DEF CountsTaken
  <1>8. \/ ReceiveBuffered /\ {k} = {Head(output)}
        \/ ReceiveDirectly /\ {k} = held
    BY <1>1, <1>2
  <1>9. mode' = mode
    BY DEF TakeJob
  <1>. QED
    BY <1>7, <1>8, <1>9, FairTaken, NotEnqueuedYet DEF RunInv

-----------------------------------------------------------------------------
\* The main goroutine of mode "throughput" receives a job, which nobody counts.
LEMMA FairReceiveJob ==
    ASSUME RunInv, IInv', FairInv, NoneReturned, ReceiveJob
    PROVE  FairInv'
  <1>1. PICK k \in Jobs : \/ ReceiveBuffered /\ {k} = {Head(output)}
                          \/ ReceiveDirectly /\ {k} = held
    <2>1. CASE ReceiveBuffered
      <3>1. Head(output) \in Jobs
        BY <2>1, ReceiveEffect DEF RunInv
      <3>. QED
        BY <2>1, <3>1
    <2>2. CASE ReceiveDirectly
      <3>1. PICK k \in Jobs : held = {k}
        BY <2>2 DEF ReceiveDirectly, RunInv, IInv, HandAndChannel
      <3>. QED
        BY <2>2, <3>1
    <2>. QED
      BY <2>1, <2>2 DEF ReceiveJob
  <1>2. mode' = mode /\ overtaken' = overtaken
    BY DEF ReceiveJob, workerVars
  <1>3. CountsTaken(k)
    <2>1. overtaken \in [Jobs -> Nat]
      BY DEF RunInv, RunTypeOK
    <2>2. \A n \in Nat : n <= n + 0 /\ n <= n + 1
      BY SMT
    <2>. QED
      BY <1>2, <2>1, <2>2 DEF CountsTaken
  <1>. QED
    BY <1>1, <1>2, <1>3, FairTaken, NotEnqueuedYet DEF RunInv

\* A step of the dispatcher or of the watcher.
LEMMA FairSchedulerStep ==
    ASSUME RunInv, FairInv, NoneReturned, SchedulerStep
    PROVE  FairInv'
  <1>1. mode' = mode /\ UNCHANGED overtaken /\ (Len(output) <= OutputCapacity)'
    <2>1. mode' = mode /\ UNCHANGED overtaken /\ Len(output') <= OutputCapacity
      BY DEF SchedulerStep, workerVars
    <2>2. OutputCapacity' = OutputCapacity
      BY <2>1 DEF OutputCapacity
    <2>. QED
      BY <2>1, <2>2
  <1>2. CASE DequeueNextJob
    BY <1>1, <1>2, FairDequeue DEF RunInv
  <1>3. CASE SendJob
    BY <1>1, <1>3, FairSend DEF RunInv
  <1>4. CASE AbandonJob
    BY <1>1, <1>4, FairAbandon DEF RunInv
  <1>5. CASE ~(DequeueNextJob \/ SendJob \/ AbandonJob)
    <2>1. UNCHANGED <<customerQueues, bypassed, held, output>>
      BY <1>5 DEF SchedulerStep, Dispatcher, FindNothing, ConditionWait, StopDispatcher,
                  WatcherBroadcast, queueVars, channelVars
    <2>. QED
      BY <1>1, <2>1, FairQuiet
  <1>. QED
    BY <1>2, <1>3, <1>4, <1>5

\* FairInv holds when a run starts: nothing is queued and nothing overtaken.
LEMMA InitFair == RunInit => FairInv
  <1> SUFFICES ASSUME RunInit PROVE FairInv
    OBVIOUS
  <1>1. mode \in Modes /\ DOMAIN customerQueues = {} /\ held = {} /\ output = <<>>
        /\ overtaken = [j \in Jobs |-> 0]
    BY DEF RunInit, Init
  <1>2. OutputCapacity \in Nat
    BY FairnessRunAssumption, SchedulerAssumption, SMT DEF OutputCapacity
  <1>3. Len(output) <= OutputCapacity /\ DOMAIN output = {}
    BY <1>1, <1>2, SMT
  <1>4. NotYetEnqueued
    BY <1>1 DEF NotYetEnqueued
  <1>5. QueuedFair /\ HeldFair /\ ChannelFair
    BY <1>1, <1>3 DEF QueuedFair, HeldFair, ChannelFair
  <1>6. OvertakenFair
    <2> SUFFICES ASSUME NEW j \in Jobs PROVE 0 <= Limit(CustomerOf[j], 0)
      BY <1>1 DEF OvertakenFair
    <2>1. CustomerOf[j] \in Customers
      BY SchedulerAssumption
    <2>2. EventsPerCustomer[CustomerOf[j]] \in Nat /\ OtherCustomers \in Nat
      BY <1>1, <2>1, LimitFacts
    <2>. QED
      BY <1>2, <2>2, SMT DEF Limit
  <1>. QED
    BY <1>3, <1>4, <1>5, <1>6 DEF FairInv

\* Every step of a run keeps FairInv: one case per step that moves a job towards the workers.
LEMMA FairStep == RunInv /\ RunInv' /\ FairInv /\ [RunNext]_runVars => FairInv'
  <1> SUFFICES ASSUME RunInv, RunInv', FairInv, [RunNext]_runVars PROVE FairInv'
    OBVIOUS
  <1>1. IInv' /\ NoneReturned /\ mode' = mode
    BY RunReturnsNone, ModeIsFixed DEF RunInv
  <1>2. CASE SchedulerStep
    BY <1>1, <1>2, FairSchedulerStep
  <1>3. CASE EnqueueNext
    <2>1. PICK j \in claimed : Enqueue(j)
      BY <1>3 DEF EnqueueNext
    <2>2. j \in Jobs /\ UNCHANGED overtaken
      BY <1>3, <2>1 DEF EnqueueNext, workerVars, RunInv, RunTypeOK
    <2>. QED
      BY <1>1, <2>1, <2>2, FairEnqueue DEF RunInv
  <1>4. ASSUME NEW w \in Workers, TakeJob(w) PROVE FairInv'
    BY <1>1, <1>4, FairTakeJob
  <1>5. CASE ReceiveJob
    BY <1>1, <1>5, FairReceiveJob
  <1>6. CASE UNCHANGED <<customerQueues, bypassed, held, output, overtaken>>
    BY <1>1, <1>6, FairQuiet
  <1>7. \/ SchedulerStep \/ EnqueueNext \/ ReceiveJob \/ \E w \in Workers : TakeJob(w)
        \/ UNCHANGED <<customerQueues, bypassed, held, output, overtaken>>
    <2>1. CASE ClaimAvailableDeliveries \/ StopPoller \/ WaitForGroup \/ UNCHANGED runVars
      BY <2>1 DEF ClaimAvailableDeliveries, StopPoller, WaitForGroup, runVars, schedulerVars, vars,
                  queueVars, channelVars, workerVars
    <2>2. CASE EndDeliveries \/ EndScheduler
      BY <2>2 DEF EndDeliveries, EndScheduler, Cancel, Close, queueVars, channelVars, workerVars
    <2>3. ASSUME NEW w \in Workers, Worker(w), ~ TakeJob(w)
          PROVE  UNCHANGED <<customerQueues, bypassed, held, output, overtaken>>
      <3>1. UNCHANGED <<schedulerVars, overtaken>>
        BY <2>3 DEF Worker, LeaveWorker, Deliver, OnCompletion, DeliveryDone, MarkDelivered
      <3>. QED
        BY <3>1 DEF schedulerVars, vars, queueVars, channelVars
    <2>. QED
      BY <2>1, <2>2, <2>3 DEF RunNext, Poller, Main
  <1>. QED
    BY <1>2, <1>3, <1>4, <1>5, <1>6, <1>7

(***************************************************************************)
(* The fairness the benchmark demonstrates holds of every run, for any     *)
(* number of customers, jobs and workers and any size of the channel:      *)
(* before a worker starts a job, workers start at most one job of every    *)
(* other customer per job of its own customer, plus what dispatch had      *)
(* taken out already.                                                      *)
(***************************************************************************)
THEOREM StartFairness == RunSpec => []StartIsFair
  <1>1. RunInv /\ FairInv => StartIsFair
    <2> SUFFICES ASSUME RunInv, FairInv, NEW j \in Jobs
                 PROVE  overtaken[j] <= OutputCapacity + 1
                           + EventsPerCustomer[CustomerOf[j]] * (Cardinality(Customers) - 1)
      BY DEF StartIsFair
    <2> DEFINE E == EventsPerCustomer[CustomerOf[j]]
    <2>1. overtaken[j] <= OutputCapacity + 1 + (E - 0) * OtherCustomers
      BY DEF FairInv, OvertakenFair, Limit
    <2>2. E \in Nat
      <3>1. CustomerOf[j] \in Customers /\ mode \in Modes
        BY SchedulerAssumption DEF RunInv, RunTypeOK
      <3>. QED
        BY <3>1, LimitFacts
    <2>. HIDE DEF E
    <2>3. E - 0 = E
      BY <2>2, SMT
    <2>4. OtherCustomers = Cardinality(Customers) - 1
      BY DEF OtherCustomers
    <2>. QED
      BY <2>1, <2>3, <2>4 DEF E
  <1>2. RunInv /\ [RunNext]_runVars => RunInv'
    BY RunInductiveStep
  <1>. QED
    BY <1>1, <1>2, InitFair, FairStep, RunInvariance, PTL DEF RunSpec
=============================================================================

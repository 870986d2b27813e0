---------------------------- MODULE IngestProofs ----------------------------
(***************************************************************************)
(* Proofs about Ingest, for any number of concurrent requests, any bodies, *)
(* registrations and database errors.  A handler writes only rows of its   *)
(* own request, so the invariant is one predicate per request, Progress,   *)
(* which the steps of all the others leave alone (Untouched).              *)
(***************************************************************************)
EXTENDS Ingest, FiniteSetTheorems, TLAPS

(***************************************************************************)
(* Most leaves are first-order reasoning for Zenon; a leaf that needs      *)
(* arithmetic, functions or records cites SMT.                             *)
(***************************************************************************)
USE Zenon

\* The rows that the k-th event of request r was resolved to.
UrlRows(r, k) == {[request |-> r, event |-> k, url |-> u] : u \in resolved[r][k]}

\* What is stored, counted and answered at each point of a handler.
Progress(r) ==
    /\ IsFiniteSet(RowsFor(r))
    /\ \A row \in RowsFor(r) : row.event \in 1 .. Len(resolved[r])
    /\ \A k \in 1 .. Len(resolved[r]) :
          \/ RowsOf(r, k) = UrlRows(r, k)
          \/ /\ k = Len(resolved[r]) /\ RowsOf(r, k) = {}
             /\ handler[r] # "looping" /\ response[r].code # 202
    /\ handler[r] = "unsent" => resolved[r] = <<>>
    /\ handler[r] = "storing" => /\ Len(resolved[r]) > 0
                                 /\ RowsOf(r, Len(resolved[r])) = {}
    /\ handler[r] \in {"looping", "storing"} => Len(resolved[r]) <= Len(body[r])
    /\ handler[r] # "answered" => /\ response[r] = NoResponse
                                  /\ createdJobs[r] = Cardinality(RowsFor(r))
    /\ response[r].code = 202 => /\ Len(resolved[r]) = Len(body[r])
                                 /\ response[r].createdJobs = Cardinality(RowsFor(r))

\* The events that were counted.
ResolvedEvents == {e \in Requests \X Nat : e[2] \in 1 .. Len(resolved[e[1]])}

CountIsExact == IsFiniteSet(ResolvedEvents) /\ Cardinality(ResolvedEvents) = receivedEvents

IInv == TypeOK /\ (\A r \in Requests : Progress(r)) /\ CountIsExact

-----------------------------------------------------------------------------
\* A step that leaves the request's own state and rows alone keeps Progress.
LEMMA Untouched ==
    ASSUME NEW r \in Requests, Progress(r),
           handler'[r] = handler[r], body'[r] = body[r], resolved'[r] = resolved[r],
           createdJobs'[r] = createdJobs[r], response'[r] = response[r],
           RowsFor(r)' = RowsFor(r)
    PROVE  Progress(r)'
  BY SMT DEF Progress, RowsOf, UrlRows

\* Responding is the end of a handler: 400, 404 or 202.
LEMMA RespondType ==
    ASSUME TypeOK, NEW r \in Requests, NEW code \in {202, 400, 404}, NEW jobs \in Nat,
           Respond(r, code, jobs)
    PROVE  /\ handler' \in [Requests -> {"unsent", "looping", "storing", "answered"}]
           /\ response' \in [Requests -> [code : {0, 202, 400, 404}, createdJobs : Nat]]
           /\ handler'[r] = "answered"
           /\ response'[r] = [code |-> code, createdJobs |-> jobs]
           /\ \A q \in Requests : q # r => handler'[q] = handler[q] /\ response'[q] = response[q]
  BY SMT DEF TypeOK, Respond

\* The rows of the event that is being stored.
LEMMA EventRowsFacts ==
    ASSUME TypeOK, NEW r \in Requests, Len(resolved[r]) > 0
    PROVE  /\ EventRows(r) = UrlRows(r, Len(resolved[r]))
           /\ EventRows(r) \subseteq [request : Requests, event : Nat, url : Urls]
           /\ IsFiniteSet(EventRows(r))
           /\ EventRows(r) # {}
           /\ \A row \in EventRows(r) : row.request = r /\ row.event = Len(resolved[r])
  <1> DEFINE n == Len(resolved[r])
             S == resolved[r][n]
  <1>1. n \in Nat /\ n \in DOMAIN resolved[r] /\ S \in (SUBSET Urls) \ {{}}
    BY SMT DEF TypeOK
  <1>2. IsFiniteSet(S)
    BY <1>1, IngestAssumption, FS_Subset
  <1> DEFINE row(u) == [request |-> r, event |-> n, url |-> u]
             T == {row(u) : u \in S}
             f == [u \in S |-> row(u)]
  <1>3. IsFiniteSet(T)
    <2> HIDE DEF row, S
    <2>1. f \in Surjection(S, T)
      BY DEF Surjection
    <2>. QED
      BY <1>2, <2>1, FS_Surjection
  <1>4. EventRows(r) = T /\ UrlRows(r, n) = T
    BY DEF EventRows, UrlRows
  <1>5. T \subseteq [request : Requests, event : Nat, url : Urls]
    BY <1>1, SMT
  <1>6. T # {}
    <2>1. PICK u \in Urls : u \in S
      <3>. HIDE DEF S
      <3>1. S \subseteq Urls /\ S # {}
        BY <1>1
      <3>. QED
        BY <3>1
    <2>2. row(u) \in T
      BY <2>1
    <2>. QED
      BY <2>2
  <1>7. \A x \in T : x.request = r /\ x.event = n
    BY SMT
  <1>. QED
    BY <1>3, <1>4, <1>5, <1>6, <1>7

-----------------------------------------------------------------------------
\* While nothing is resolved the count stays exact.
LEMMA CountUntouched ==
    ASSUME CountIsExact, UNCHANGED <<resolved, receivedEvents>>
    PROVE  CountIsExact'
  BY DEF CountIsExact, ResolvedEvents

\* What a step that only answers a request has to show of the types.
LEMMA AnswerKeepsType ==
    ASSUME TypeOK,
           handler' \in [Requests -> {"unsent", "looping", "storing", "answered"}],
           response' \in [Requests -> [code : {0, 202, 400, 404}, createdJobs : Nat]],
           databaseErrors' \in 0 .. MaxDatabaseErrors,
           UNCHANGED <<registry, body, resolved, createdJobs, receivedEvents, registryChanges>>,
           rows' \subseteq [request : Requests, event : Nat, url : Urls]
    PROVE  TypeOK'
  BY DEF TypeOK

\* A handler that answers with an error outside a store.
LEMMA RefuseKeepsInv ==
    ASSUME IInv, NEW r \in Requests, NEW code \in {400, 404}, Respond(r, code, 0),
           handler[r] \in {"unsent", "looping"},
           databaseErrors' \in 0 .. MaxDatabaseErrors,
           UNCHANGED <<registry, rows, body, resolved, createdJobs, receivedEvents, registryChanges>>
    PROVE  IInv'
  <1>1. /\ handler' \in [Requests -> {"unsent", "looping", "storing", "answered"}]
        /\ response' \in [Requests -> [code : {0, 202, 400, 404}, createdJobs : Nat]]
        /\ handler'[r] = "answered" /\ response'[r] = [code |-> code, createdJobs |-> 0]
        /\ \A q \in Requests : q # r => handler'[q] = handler[q] /\ response'[q] = response[q]
    BY RespondType, SMT DEF IInv
  <1>2. TypeOK'
    <2>1. TypeOK /\ rows' \subseteq [request : Requests, event : Nat, url : Urls]
      BY DEF IInv, TypeOK
    <2>. QED
      BY <1>1, <2>1, AnswerKeepsType
  <1>3. ASSUME NEW q \in Requests PROVE RowsFor(q)' = RowsFor(q)
    BY DEF RowsFor
  <1>4. ASSUME NEW q \in Requests, q # r PROVE Progress(q)'
    BY <1>1, <1>3, <1>4, Untouched, SMT DEF IInv
  <1>5. Progress(r)'
    <2>1. response'[r].code # 202 /\ Progress(r)
      BY <1>1, SMT DEF IInv
    <2>2. RowsFor(r)' = RowsFor(r)
      BY <1>3
    <2>. QED
      BY <1>1, <2>1, <2>2, SMT DEF Progress, RowsOf, UrlRows
  <1>. QED
    BY <1>2, <1>4, <1>5, CountUntouched DEF IInv

\* Decoding a body starts the loop over its events.
LEMMA DecodeKeepsInv ==
    ASSUME IInv, NEW r \in Requests, NEW b \in Bodies, Decode(r, b)
    PROVE  IInv'
  <1>1. b \in Seq(Event) /\ handler[r] = "unsent"
    BY IngestAssumption DEF Decode
  <1>2. TypeOK'
    BY <1>1 DEF IInv, TypeOK, Decode
  <1>3. ASSUME NEW q \in Requests PROVE RowsFor(q)' = RowsFor(q)
    BY DEF RowsFor, Decode
  <1>4. ASSUME NEW q \in Requests, q # r PROVE Progress(q)'
    <2>1. /\ handler'[q] = handler[q] /\ body'[q] = body[q] /\ resolved'[q] = resolved[q]
          /\ createdJobs'[q] = createdJobs[q] /\ response'[q] = response[q]
      BY <1>4, SMT DEF Decode, IInv, TypeOK
    <2>. QED
      BY <1>3, <2>1, Untouched DEF IInv
  <1>5. Progress(r)'
    <2>1. Progress(r) /\ resolved[r] = <<>> /\ response[r] = NoResponse
      BY <1>1, SMT DEF IInv, Progress
    <2>2. /\ handler'[r] = "looping" /\ body'[r] = b /\ Len(b) \in Nat /\ NoResponse.code = 0
          /\ UNCHANGED <<resolved, createdJobs, response>> /\ RowsFor(r)' = RowsFor(r)
      BY <1>1, <1>3, SMT DEF Decode, IInv, TypeOK, NoResponse
    <2>3. Len(resolved[r]) = 0 /\ Len(resolved'[r]) = 0 /\ 1 .. 0 = {}
      BY <2>1, <2>2, SMT
    <2>4. /\ IsFiniteSet(RowsFor(r)) /\ RowsFor(r) = {}
          /\ createdJobs[r] = Cardinality(RowsFor(r))
      BY <1>1, <2>1, <2>3 DEF Progress
    <2>. QED
      BY <2>1, <2>2, <2>3, <2>4, SMT DEF Progress
  <1>. QED
    BY <1>2, <1>4, <1>5, CountUntouched DEF IInv, Decode

-----------------------------------------------------------------------------
\* ResolveWebhookURLs appends the URLs of one more event and counts it.
LEMMA ResolveKeepsInv ==
    ASSUME IInv, NEW r \in Requests, ResolveWebhookURLs(r)
    PROVE  IInv'
  <1> DEFINE urls == registry[CurrentEvent(r).customerId]
  <1>0. PICK n \in Nat : n = Len(resolved[r])
    BY SMT DEF IInv, TypeOK
  <1>1. /\ n = Len(resolved[r]) /\ n + 1 <= Len(body[r]) /\ Len(body[r]) \in Nat
        /\ handler[r] = "looping" /\ urls # {}
        /\ resolved' = [resolved EXCEPT ![r] = Append(resolved[r], urls)]
        /\ receivedEvents' = receivedEvents + 1
        /\ handler' = [handler EXCEPT ![r] = "storing"]
        /\ UNCHANGED <<registry, rows, body, createdJobs, response, registryChanges, databaseErrors>>
    BY <1>0, SMT DEF ResolveWebhookURLs, HasEvent, Position, IsRegistered, IInv, TypeOK
  <1>2. urls \in (SUBSET Urls) \ {{}}
    <2>1. CurrentEvent(r) \in Event
      BY <1>1, SMT DEF CurrentEvent, Position, IInv, TypeOK
    <2>2. CurrentEvent(r).customerId \in Customers
      BY <2>1 DEF Event
    <2>. QED
      BY <1>1, <2>2, SMT DEF IInv, TypeOK
  <1>. HIDE DEF urls
  <1>3. /\ Append(resolved[r], urls) \in Seq((SUBSET Urls) \ {{}})
        /\ resolved'[r] = Append(resolved[r], urls) /\ Len(resolved'[r]) = n + 1
        /\ handler'[r] = "storing"
        /\ \A k \in 1 .. n : resolved'[r][k] = resolved[r][k]
    <2> DEFINE UrlSets == (SUBSET Urls) \ {{}}
    <2>1. resolved \in [Requests -> Seq(UrlSets)] /\ urls \in UrlSets
      BY <1>2 DEF IInv, TypeOK
    <2>. HIDE DEF UrlSets
    <2>2. resolved'[r] = Append(resolved[r], urls) /\ resolved[r] \in Seq(UrlSets)
      BY <1>1, <2>1
    <2>3. Append(resolved[r], urls) \in Seq(UrlSets) /\ Len(Append(resolved[r], urls)) = n + 1
      BY <1>0, <2>1, <2>2, SMT
    <2>4. \A k \in 1 .. n : Append(resolved[r], urls)[k] = resolved[r][k]
      BY <1>0, <2>1, <2>2, SMT
    <2>5. handler'[r] = "storing"
      BY <1>1, SMT DEF IInv, TypeOK
    <2>. QED
      BY <2>2, <2>3, <2>4, <2>5 DEF UrlSets
  <1>4. TypeOK'
    <2>1. resolved' \in [Requests -> Seq((SUBSET Urls) \ {{}})]
      BY <1>1, <1>3 DEF IInv, TypeOK
    <2>2. handler' \in [Requests -> {"unsent", "looping", "storing", "answered"}]
      BY <1>1 DEF IInv, TypeOK
    <2>3. receivedEvents' \in Nat
      BY <1>1, SMT DEF IInv, TypeOK
    <2>4. UNCHANGED <<registry, rows, body, createdJobs, response, registryChanges, databaseErrors>>
      BY <1>1
    <2>. QED
      BY <2>1, <2>2, <2>3, <2>4 DEF IInv, TypeOK
  <1>5. ASSUME NEW q \in Requests PROVE RowsFor(q)' = RowsFor(q)
    BY <1>1 DEF RowsFor
  <1>6. ASSUME NEW q \in Requests, q # r PROVE Progress(q)'
    <2>1. /\ handler'[q] = handler[q] /\ body'[q] = body[q] /\ resolved'[q] = resolved[q]
          /\ createdJobs'[q] = createdJobs[q] /\ response'[q] = response[q]
      BY <1>1, <1>6, SMT DEF IInv, TypeOK
    <2>. QED
      BY <1>5, <2>1, Untouched DEF IInv
  <1>7. Progress(r)'
    <2>1. Progress(r) /\ RowsFor(r)' = RowsFor(r) /\ NoResponse.code = 0
      BY <1>5 DEF IInv, NoResponse
    <2>2. RowsOf(r, n + 1)' = {}
      BY <1>1, <2>1, SMT DEF Progress, RowsOf
    <2>3. ASSUME NEW k \in 1 .. n PROVE (RowsOf(r, k) = UrlRows(r, k))'
      BY <1>0, <1>1, <1>3, <2>1, SMT DEF Progress, RowsOf, UrlRows
    <2>4. \A row \in RowsFor(r)' : row.event \in 1 .. n + 1
      BY <1>1, <2>1, SMT DEF Progress
    <2>5. response'[r].code # 202 /\ response'[r] = NoResponse
      BY <1>1, <2>1, SMT DEF Progress
    <2>6. \A k \in 1 .. n + 1 : k \in 1 .. n \/ k = n + 1
      BY <1>1, SMT
    <2>7. IsFiniteSet(RowsFor(r)') /\ createdJobs'[r] = Cardinality(RowsFor(r)')
      BY <1>1, <2>1 DEF Progress
    <2>8. \A k \in 1 .. n + 1 :
             (RowsOf(r, k) = UrlRows(r, k))' \/ (k = n + 1 /\ RowsOf(r, k)' = {})
      BY <2>2, <2>3, <2>6
    <2>9. /\ Len(resolved'[r]) = n + 1 /\ n + 1 > 0 /\ handler'[r] = "storing"
          /\ n + 1 <= Len(body'[r])
      BY <1>1, <1>3, SMT
    <2>. QED
      BY <2>2, <2>4, <2>5, <2>7, <2>8, <2>9, SMT DEF Progress
  <1>8. CountIsExact'
    <2>1. ResolvedEvents' = ResolvedEvents \cup {<<r, n + 1>>}
      <3>1. ASSUME NEW q \in Requests, NEW k \in Nat
            PROVE  k \in 1 .. Len(resolved'[q]) <=>
                      k \in 1 .. Len(resolved[q]) \/ (q = r /\ k = n + 1)
        <4>1. CASE q = r
          BY <1>1, <1>3, <4>1, SMT
        <4>2. CASE q # r
          BY <1>1, <4>2, SMT DEF IInv, TypeOK
        <4>. QED
          BY <4>1, <4>2
      <3>. QED
        BY <1>1, <3>1, SMT DEF ResolvedEvents
    <2>2. <<r, n + 1>> \notin ResolvedEvents
      BY <1>1, SMT DEF ResolvedEvents
    <2>. QED
      BY <1>1, <2>1, <2>2, FS_AddElement DEF CountIsExact, IInv
  <1>. QED
    BY <1>4, <1>6, <1>7, <1>8 DEF IInv

-----------------------------------------------------------------------------
\* The rows of a request when its current event is stored, and everyone else's.
LEMMA StoreEffect ==
    ASSUME IInv, NEW r \in Requests, handler[r] = "storing", rows' = rows \cup EventRows(r),
           UNCHANGED resolved
    PROVE  /\ rows' \subseteq [request : Requests, event : Nat, url : Urls]
           /\ RowsFor(r)' = RowsFor(r) \cup EventRows(r)
           /\ IsFiniteSet(RowsFor(r)')
           /\ Cardinality(RowsFor(r)') = Cardinality(RowsFor(r)) + Cardinality(EventRows(r))
           /\ Cardinality(EventRows(r)) \in Nat
           /\ \A row \in RowsFor(r)' : row.event \in 1 .. Len(resolved[r])
           /\ \A k \in 1 .. Len(resolved[r]) : RowsOf(r, k)' = UrlRows(r, k)'
           /\ \A q \in Requests : q # r => RowsFor(q)' = RowsFor(q)
  <1>0. PICK n \in Nat : n = Len(resolved[r])
    BY SMT DEF IInv, TypeOK
  <1>1. /\ n > 0 /\ RowsOf(r, n) = {} /\ IsFiniteSet(RowsFor(r))
        /\ \A row \in RowsFor(r) : row.event \in 1 .. n
        /\ \A k \in 1 .. n : k # n => RowsOf(r, k) = UrlRows(r, k)
    <2>1. Progress(r) /\ handler[r] = "storing"
      BY DEF IInv
    <2>. QED
      BY <1>0, <2>1, SMT DEF Progress
  <1>2. /\ EventRows(r) = UrlRows(r, n)
        /\ EventRows(r) \subseteq [request : Requests, event : Nat, url : Urls]
        /\ IsFiniteSet(EventRows(r))
        /\ \A row \in EventRows(r) : row.request = r /\ row.event = n
    BY <1>0, <1>1, EventRowsFacts DEF IInv
  <1>3. rows' \subseteq [request : Requests, event : Nat, url : Urls]
    BY <1>2, SMT DEF IInv, TypeOK
  <1>4. RowsFor(r)' = RowsFor(r) \cup EventRows(r)
    BY <1>2 DEF RowsFor
  <1>5. ASSUME NEW q \in Requests, q # r PROVE RowsFor(q)' = RowsFor(q)
    BY <1>2, <1>5 DEF RowsFor
  <1>6. RowsFor(r) \cap EventRows(r) = {}
    BY <1>1, <1>2 DEF RowsOf
  <1>7. /\ IsFiniteSet(RowsFor(r)')
        /\ Cardinality(RowsFor(r)') = Cardinality(RowsFor(r)) + Cardinality(EventRows(r))
        /\ Cardinality(EventRows(r)) \in Nat
    <2>1. Cardinality(RowsFor(r)) \in Nat /\ Cardinality(EventRows(r)) \in Nat
      BY <1>1, <1>2, FS_CardinalityType
    <2>2. Cardinality({}) = 0
      BY FS_EmptySet
    <2>3. /\ IsFiniteSet(RowsFor(r) \cup EventRows(r))
          /\ Cardinality(RowsFor(r) \cup EventRows(r)) =
                Cardinality(RowsFor(r)) + Cardinality(EventRows(r))
                   - Cardinality(RowsFor(r) \cap EventRows(r))
      BY <1>1, <1>2, FS_Union
    <2>4. Cardinality(RowsFor(r) \cap EventRows(r)) = 0
      BY <1>6, <2>2
    <2>. QED
      BY <1>4, <2>1, <2>3, <2>4, SMT
  <1>8. \A row \in RowsFor(r)' : row.event \in 1 .. n
    BY <1>1, <1>2, <1>4, SMT
  <1>9. ASSUME NEW k \in 1 .. n PROVE RowsOf(r, k)' = UrlRows(r, k)'
    <2>1. UrlRows(r, k)' = UrlRows(r, k)
      BY DEF UrlRows
    <2>2. CASE k = n
      BY <1>1, <1>2, <1>4, <2>1, <2>2 DEF RowsOf
    <2>3. CASE k # n
      <3>1. RowsOf(r, k)' = RowsOf(r, k)
        BY <1>2, <1>4, <2>3 DEF RowsOf
      <3>. QED
        BY <1>1, <2>1, <2>3, <3>1
    <2>. QED
      BY <2>2, <2>3
  <1>. QED
    BY <1>0, <1>3, <1>4, <1>5, <1>7, <1>8, <1>9

\* EnqueueDeliveries: one more event is complete.
LEMMA EnqueueKeepsInv ==
    ASSUME IInv, NEW r \in Requests, EnqueueDeliveries(r)
    PROVE  IInv'
  <1>1. /\ handler[r] = "storing" /\ rows' = rows \cup EventRows(r)
        /\ createdJobs' = [createdJobs EXCEPT ![r] = createdJobs[r] + Cardinality(EventRows(r))]
        /\ handler' = [handler EXCEPT ![r] = "looping"]
        /\ UNCHANGED <<registry, body, resolved, response, receivedEvents,
                       registryChanges, databaseErrors>>
    BY DEF EnqueueDeliveries
  <1>2. /\ rows' \subseteq [request : Requests, event : Nat, url : Urls]
        /\ IsFiniteSet(RowsFor(r)')
        /\ Cardinality(RowsFor(r)') = Cardinality(RowsFor(r)) + Cardinality(EventRows(r))
        /\ Cardinality(EventRows(r)) \in Nat
        /\ \A row \in RowsFor(r)' : row.event \in 1 .. Len(resolved[r])
        /\ \A k \in 1 .. Len(resolved[r]) : RowsOf(r, k)' = UrlRows(r, k)'
        /\ \A q \in Requests : q # r => RowsFor(q)' = RowsFor(q)
    BY <1>1, StoreEffect
  <1>3. TypeOK'
    <2>1. createdJobs' \in [Requests -> Nat]
      BY <1>1, <1>2, SMT DEF IInv, TypeOK
    <2>2. handler' \in [Requests -> {"unsent", "looping", "storing", "answered"}]
      BY <1>1 DEF IInv, TypeOK
    <2>3. UNCHANGED <<registry, body, resolved, response, receivedEvents,
                      registryChanges, databaseErrors>>
      BY <1>1
    <2>. QED
      BY <1>2, <2>1, <2>2, <2>3 DEF IInv, TypeOK
  <1>4. ASSUME NEW q \in Requests, q # r PROVE Progress(q)'
    <2>1. /\ handler'[q] = handler[q] /\ body'[q] = body[q] /\ resolved'[q] = resolved[q]
          /\ createdJobs'[q] = createdJobs[q] /\ response'[q] = response[q]
      BY <1>1, <1>4, SMT DEF IInv, TypeOK
    <2>. QED
      BY <1>2, <1>4, <2>1, Untouched DEF IInv
  <1>5. Progress(r)'
    <2>1. /\ handler'[r] = "looping" /\ response'[r] = NoResponse /\ NoResponse.code = 0
          /\ Len(resolved[r]) <= Len(body[r]) /\ createdJobs[r] = Cardinality(RowsFor(r))
      BY <1>1, SMT DEF IInv, TypeOK, Progress, NoResponse
    <2>2. createdJobs'[r] = Cardinality(RowsFor(r)')
      BY <1>1, <1>2, <2>1, SMT DEF IInv, TypeOK
    <2>3. resolved'[r] = resolved[r] /\ body'[r] = body[r]
      BY <1>1
    <2>. QED
      BY <1>2, <2>1, <2>2, <2>3, SMT DEF Progress
  <1>. QED
    BY <1>1, <1>3, <1>4, <1>5, CountUntouched DEF IInv

\* A failed store answers 400, whether or not the transaction took effect.
LEMMA FailEnqueueKeepsInv ==
    ASSUME IInv, NEW r \in Requests, FailEnqueue(r)
    PROVE  IInv'
  <1>1. /\ handler[r] = "storing" /\ rows' \in {rows, rows \cup EventRows(r)}
        /\ databaseErrors' \in 0 .. MaxDatabaseErrors
        /\ Respond(r, 400, 0)
        /\ UNCHANGED <<registry, body, resolved, createdJobs, receivedEvents, registryChanges>>
    BY IngestAssumption, SMT DEF FailEnqueue, DatabaseError, IInv, TypeOK
  <1>2. /\ handler' \in [Requests -> {"unsent", "looping", "storing", "answered"}]
        /\ response' \in [Requests -> [code : {0, 202, 400, 404}, createdJobs : Nat]]
        /\ handler'[r] = "answered" /\ response'[r] = [code |-> 400, createdJobs |-> 0]
        /\ \A q \in Requests : q # r => handler'[q] = handler[q] /\ response'[q] = response[q]
    BY <1>1, RespondType, SMT DEF IInv
  <1>3. /\ rows' \subseteq [request : Requests, event : Nat, url : Urls]
        /\ IsFiniteSet(RowsFor(r)')
        /\ \A row \in RowsFor(r)' : row.event \in 1 .. Len(resolved[r])
        /\ \A k \in 1 .. Len(resolved[r]) :
              RowsOf(r, k)' = UrlRows(r, k)' \/ (k = Len(resolved[r]) /\ RowsOf(r, k)' = {})
        /\ \A q \in Requests : q # r => RowsFor(q)' = RowsFor(q)
    <2>1. CASE rows' = rows \cup EventRows(r)
      BY <1>1, <2>1, StoreEffect
    <2>2. CASE rows' = rows
      <3>1. Progress(r) /\ rows \subseteq [request : Requests, event : Nat, url : Urls]
        BY DEF IInv, TypeOK
      <3>2. \A q \in Requests : RowsFor(q)' = RowsFor(q)
        BY <2>2 DEF RowsFor
      <3>3. \A k : RowsOf(r, k)' = RowsOf(r, k) /\ UrlRows(r, k)' = UrlRows(r, k)
        BY <1>1, <3>2 DEF RowsOf, UrlRows
      <3>. QED
        BY <2>2, <3>1, <3>2, <3>3, SMT DEF Progress
    <2>. QED
      BY <1>1, <2>1, <2>2
  <1>4. TypeOK'
    BY <1>1, <1>2, <1>3, AnswerKeepsType DEF IInv
  <1>5. ASSUME NEW q \in Requests, q # r PROVE Progress(q)'
    BY <1>1, <1>2, <1>3, <1>5, Untouched, SMT DEF IInv
  <1>6. Progress(r)'
    <2>1. resolved'[r] = resolved[r] /\ response'[r].code # 202
      BY <1>1, <1>2, SMT
    <2>. QED
      BY <1>2, <1>3, <2>1, SMT DEF Progress
  <1>. QED
    BY <1>1, <1>4, <1>5, <1>6, CountUntouched DEF IInv

\* Accept: the loop is over, so every event is stored and counted.
LEMMA AcceptKeepsInv ==
    ASSUME IInv, NEW r \in Requests, Accept(r)
    PROVE  IInv'
  <1>1. /\ handler[r] = "looping" /\ ~HasEvent(r) /\ createdJobs[r] \in Nat
        /\ Respond(r, 202, createdJobs[r])
        /\ UNCHANGED <<registry, rows, body, resolved, createdJobs, receivedEvents,
                       registryChanges, databaseErrors>>
    BY SMT DEF Accept, IInv, TypeOK
  <1>2. /\ handler' \in [Requests -> {"unsent", "looping", "storing", "answered"}]
        /\ response' \in [Requests -> [code : {0, 202, 400, 404}, createdJobs : Nat]]
        /\ handler'[r] = "answered" /\ response'[r] = [code |-> 202, createdJobs |-> createdJobs[r]]
        /\ \A q \in Requests : q # r => handler'[q] = handler[q] /\ response'[q] = response[q]
    BY <1>1, RespondType, SMT DEF IInv
  <1>3. TypeOK'
    <2>1. /\ TypeOK /\ databaseErrors' \in 0 .. MaxDatabaseErrors
          /\ rows' \subseteq [request : Requests, event : Nat, url : Urls]
      BY <1>1 DEF IInv, TypeOK
    <2>. QED
      BY <1>1, <1>2, <2>1, AnswerKeepsType
  <1>4. \A q \in Requests : RowsFor(q)' = RowsFor(q)
    BY <1>1 DEF RowsFor
  <1>5. ASSUME NEW q \in Requests, q # r PROVE Progress(q)'
    BY <1>1, <1>2, <1>4, <1>5, Untouched, SMT DEF IInv
  <1>6. Progress(r)'
    <2>1. Progress(r) /\ Len(resolved[r]) \in Nat /\ Len(body[r]) \in Nat
      BY SMT DEF IInv, TypeOK
    <2>2. Len(resolved[r]) = Len(body[r]) /\ createdJobs[r] = Cardinality(RowsFor(r))
      BY <1>1, <2>1, SMT DEF Progress, HasEvent, Position
    <2>3. \A k : RowsOf(r, k)' = RowsOf(r, k) /\ UrlRows(r, k)' = UrlRows(r, k)
      BY <1>1, <1>4 DEF RowsOf, UrlRows
    <2>4. resolved'[r] = resolved[r] /\ body'[r] = body[r] /\ RowsFor(r)' = RowsFor(r)
      BY <1>1, <1>4
    <2>. QED
      BY <1>1, <1>2, <2>1, <2>2, <2>3, <2>4, SMT DEF Progress
  <1>. QED
    BY <1>1, <1>3, <1>5, <1>6, CountUntouched DEF IInv

-----------------------------------------------------------------------------
\* Nothing is stored, counted or answered at first.
LEMMA InitInv == Init => IInv
  <1> SUFFICES ASSUME Init PROVE IInv
    OBVIOUS
  <1>1. TypeOK
    <2>1. /\ resolved \in [Requests -> Seq((SUBSET Urls) \ {{}})]
          /\ body \in [Requests -> Seq(Event)]
      BY SMT DEF Init
    <2>2. response \in [Requests -> [code : {0, 202, 400, 404}, createdJobs : Nat]]
      BY DEF Init, NoResponse
    <2>. QED
      BY <2>1, <2>2, IngestAssumption, SMT DEF Init, TypeOK
  <1>2. ASSUME NEW r \in Requests PROVE Progress(r)
    <2>1. RowsFor(r) = {} /\ IsFiniteSet({}) /\ Cardinality({}) = 0
      BY FS_EmptySet DEF Init, RowsFor
    <2>2. resolved[r] = <<>> /\ Len(<<>>) = 0 /\ 1 .. 0 = {} /\ handler[r] = "unsent"
      BY SMT DEF Init
    <2>3. response[r] = NoResponse /\ NoResponse.code = 0 /\ createdJobs[r] = 0
      BY DEF Init, NoResponse
    <2>. QED
      BY <2>1, <2>2, <2>3, SMT DEF Progress
  <1>3. CountIsExact
    <2>1. ResolvedEvents = {}
      <3>1. \A r \in Requests : Len(resolved[r]) = 0
        BY DEF Init
      <3>. QED
        BY <3>1, SMT DEF ResolvedEvents
    <2>. QED
      BY <2>1, FS_EmptySet DEF CountIsExact, Init
  <1>. QED
    BY <1>1, <1>2, <1>3 DEF IInv

\* Every step of every handler, and every change of the registrations.
LEMMA InductiveStep == IInv /\ [Next]_vars => IInv'
  <1> SUFFICES ASSUME IInv, [Next]_vars PROVE IInv'
    OBVIOUS
  <1>1. ASSUME NEW c \in Customers, NEW S \in SUBSET Urls, ChangeRegistry(c, S) PROVE IInv'
    <2>1. TypeOK'
      <3>1. /\ registry' \in [Customers -> SUBSET Urls]
            /\ registryChanges' \in 0 .. MaxRegistryChanges
        BY <1>1, IngestAssumption, SMT DEF IInv, TypeOK, ChangeRegistry
      <3>. QED
        BY <1>1, <3>1 DEF IInv, TypeOK, ChangeRegistry, requestVars
    <2>2. ASSUME NEW r \in Requests PROVE Progress(r)'
      <3>1. RowsFor(r)' = RowsFor(r)
        BY <1>1 DEF ChangeRegistry, RowsFor
      <3>. QED
        BY <1>1, <3>1, Untouched DEF IInv, ChangeRegistry, requestVars
    <2>. QED
      BY <1>1, <2>1, <2>2, CountUntouched DEF IInv, ChangeRegistry, requestVars
  <1>2. ASSUME NEW r \in Requests, NEW b \in Bodies, Decode(r, b) PROVE IInv'
    BY <1>2, DecodeKeepsInv
  <1>3. ASSUME NEW r \in Requests, RefuseBody(r) \/ RejectEvent(r) \/ RejectCustomer(r)
        PROVE  IInv'
    <2>1. PICK code \in {400, 404} : Respond(r, code, 0)
      BY <1>3, SMT DEF RefuseBody, RejectEvent, RejectCustomer
    <2>2. /\ handler[r] \in {"unsent", "looping"} /\ databaseErrors' \in 0 .. MaxDatabaseErrors
          /\ UNCHANGED <<registry, rows, body, resolved, createdJobs, receivedEvents,
                         registryChanges>>
      BY <1>3, SMT DEF RefuseBody, RejectEvent, RejectCustomer, HasEvent, IInv, TypeOK
    <2>. QED
      BY <2>1, <2>2, RefuseKeepsInv, SMT
  <1>4. ASSUME NEW r \in Requests, FailResolve(r) PROVE IInv'
    <2>1. /\ handler[r] \in {"unsent", "looping"} /\ databaseErrors' \in 0 .. MaxDatabaseErrors
          /\ Respond(r, 400, 0)
          /\ UNCHANGED <<registry, rows, body, resolved, createdJobs, receivedEvents,
                         registryChanges>>
      BY <1>4, IngestAssumption, SMT DEF FailResolve, DatabaseError, HasEvent, IInv, TypeOK
    <2>. QED
      BY <2>1, RefuseKeepsInv, SMT
  <1>5. ASSUME NEW r \in Requests,
               \/ ResolveWebhookURLs(r) \/ EnqueueDeliveries(r) \/ FailEnqueue(r) \/ Accept(r)
        PROVE  IInv'
    BY <1>5, ResolveKeepsInv, EnqueueKeepsInv, FailEnqueueKeepsInv, AcceptKeepsInv
  <1>6. CASE UNCHANGED vars
    <2>1. ASSUME NEW r \in Requests PROVE Progress(r)'
      <3>1. RowsFor(r)' = RowsFor(r)
        BY <1>6 DEF vars, RowsFor
      <3>. QED
        BY <1>6, <3>1, Untouched DEF IInv, vars, requestVars
    <2>. QED
      BY <1>6, <2>1, CountUntouched DEF IInv, TypeOK, vars, requestVars
  <1>. QED
    BY <1>1, <1>2, <1>3, <1>4, <1>5, <1>6 DEF Next, Handle

\* The invariant holds throughout.
LEMMA Invariance == Spec => []IInv
  BY InitInv, InductiveStep, PTL DEF Spec

-----------------------------------------------------------------------------
(***************************************************************************)
(* 202 means stored (enqueueEvents): every event of an accepted body has   *)
(* rows, and createdJobs is the exact number of rows of this request.      *)
(***************************************************************************)
THEOREM AcceptanceIsTruthful == Spec => []AcceptedIsStored
  <1>1. IInv => AcceptedIsStored
    <2> SUFFICES ASSUME IInv, NEW r \in Requests, response[r].code = 202
                 PROVE  /\ \A k \in DOMAIN body[r] : RowsOf(r, k) # {}
                        /\ response[r].createdJobs = Cardinality(RowsFor(r))
      BY DEF AcceptedIsStored
    <2>1. Progress(r) /\ Len(resolved[r]) = Len(body[r]) /\ DOMAIN body[r] = 1 .. Len(body[r])
      BY SMT DEF IInv, Progress, TypeOK
    <2>2. ASSUME NEW k \in DOMAIN body[r] PROVE RowsOf(r, k) # {}
      <3>1. k \in 1 .. Len(resolved[r]) /\ RowsOf(r, k) = UrlRows(r, k)
        BY <2>1 DEF Progress
      <3>2. resolved[r][k] # {}
        BY <3>1, SMT DEF IInv, TypeOK
      <3>3. PICK u : u \in resolved[r][k]
        BY <3>2, SMT
      <3>4. [request |-> r, event |-> k, url |-> u] \in UrlRows(r, k)
        BY <3>3 DEF UrlRows
      <3>. QED
        BY <3>1, <3>4, SMT
    <2>. QED
      BY <2>1, <2>2 DEF Progress
  <1>. QED
    BY <1>1, Invariance, PTL

(***************************************************************************)
(* An event is stored completely, as one reading of the registrations gave *)
(* it, or not at all, and only the last event handled can be missing.      *)
(***************************************************************************)
THEOREM StorageIsAtomic == Spec => []StoredAsResolved
  <1>1. IInv => StoredAsResolved
    <2> SUFFICES ASSUME IInv, NEW r \in Requests
                 PROVE  /\ \A k \in DOMAIN resolved[r] :
                              \/ {row.url : row \in RowsOf(r, k)} = resolved[r][k]
                              \/ {row.url : row \in RowsOf(r, k)} = {} /\ k = Len(resolved[r])
                        /\ \A row \in RowsFor(r) : row.event \in DOMAIN resolved[r]
      BY DEF StoredAsResolved
    <2>1. Progress(r) /\ DOMAIN resolved[r] = 1 .. Len(resolved[r])
      BY SMT DEF IInv, TypeOK
    <2>2. ASSUME NEW k \in DOMAIN resolved[r], RowsOf(r, k) = UrlRows(r, k)
          PROVE  {row.url : row \in RowsOf(r, k)} = resolved[r][k]
      <3>1. \A row \in UrlRows(r, k) : row.url \in resolved[r][k]
        BY SMT DEF UrlRows
      <3>2. ASSUME NEW u \in resolved[r][k] PROVE \E row \in UrlRows(r, k) : row.url = u
        <4>1. [request |-> r, event |-> k, url |-> u] \in UrlRows(r, k)
          BY DEF UrlRows
        <4>. QED
          BY <4>1
      <3>. QED
        BY <2>2, <3>1, <3>2
    <2>3. ASSUME NEW k \in DOMAIN resolved[r], RowsOf(r, k) = {}
          PROVE  {row.url : row \in RowsOf(r, k)} = {}
      BY <2>3
    <2>. QED
      BY <2>1, <2>2, <2>3, SMT DEF Progress
  <1>. QED
    BY <1>1, Invariance, PTL

(***************************************************************************)
(* The counter of received events covers the stored events.                *)
(***************************************************************************)
THEOREM CounterIsAhead == Spec => []CounterCoversStored
  <1>1. IInv => CounterCoversStored
    <2> SUFFICES ASSUME IInv PROVE Cardinality(StoredEvents) <= receivedEvents
      BY DEF CounterCoversStored
    <2>1. ASSUME NEW row \in rows PROVE <<row.request, row.event>> \in ResolvedEvents
      <3>1. row \in [request : Requests, event : Nat, url : Urls]
        BY DEF IInv, TypeOK
      <3>2. row.request \in Requests /\ row.event \in Nat
        BY <3>1
      <3>3. row \in RowsFor(row.request)
        BY DEF RowsFor
      <3>4. row.event \in 1 .. Len(resolved[row.request])
        BY <3>2, <3>3 DEF IInv, Progress
      <3>. QED
        BY <3>2, <3>4 DEF ResolvedEvents
    <2>2. StoredEvents \in SUBSET ResolvedEvents
      BY <2>1 DEF StoredEvents
    <2>. QED
      BY <2>2, FS_Subset DEF IInv, CountIsExact
  <1>. QED
    BY <1>1, Invariance, PTL
=============================================================================

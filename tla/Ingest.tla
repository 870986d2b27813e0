------------------------------- MODULE Ingest -------------------------------
(***************************************************************************)
(* Ingestion of subscriber events (internal/notifier/handlers.go): HTTP    *)
(* handlers that run concurrently, resolve the webhook URLs of each event  *)
(* in the registration table, which an operator may change meanwhile, and  *)
(* store one queue row per URL, one transaction per event.                 *)
(***************************************************************************)
EXTENDS Integers, Sequences, FiniteSets

CONSTANTS
    Requests,             \* HTTP requests
    Bodies,               \* request bodies: Malformed or a sequence of events
    Malformed,            \* a body json.Decode refuses
    Customers,
    Urls,                 \* webhook URLs
    MaxRegistryChanges,   \* bound
    MaxDatabaseErrors     \* bound

Event == [valid : BOOLEAN, customerId : Customers]

ASSUME IngestAssumption ==
    /\ Bodies \subseteq Seq(Event) \cup {Malformed}
    /\ IsFiniteSet(Urls)
    /\ MaxRegistryChanges \in Nat
    /\ MaxDatabaseErrors \in Nat

VARIABLES
    registry,          \* webhook_registrations: customer -> URLs
    rows,              \* webhook_delivery_queue: [request, event, url]
    handler,           \* program counter of each request's handler
    body,              \* the decoded events
    resolved,          \* webhookURLs of the events handled so far
    createdJobs,
    response,          \* [code, createdJobs], or NoResponse
    receivedEvents,    \* the counter behind /stats and /metrics
    registryChanges,
    databaseErrors

requestVars == <<handler, body, resolved, createdJobs, response>>
vars == <<registry, rows, requestVars, receivedEvents, registryChanges, databaseErrors>>

NoResponse == [code |-> 0, createdJobs |-> 0]

Init ==
    /\ registry \in [Customers -> SUBSET Urls]
    /\ rows = {}
    /\ handler = [r \in Requests |-> "unsent"]
    /\ body = [r \in Requests |-> <<>>]
    /\ resolved = [r \in Requests |-> <<>>]
    /\ createdJobs = [r \in Requests |-> 0]
    /\ response = [r \in Requests |-> NoResponse]
    /\ receivedEvents = 0
    /\ registryChanges = 0
    /\ databaseErrors = 0

ChangeRegistry(c, S) ==
    /\ registryChanges < MaxRegistryChanges
    /\ registry[c] # S
    /\ registry' = [registry EXCEPT ![c] = S]
    /\ registryChanges' = registryChanges + 1
    /\ UNCHANGED <<rows, requestVars, receivedEvents, databaseErrors>>

DatabaseError ==
    /\ databaseErrors < MaxDatabaseErrors
    /\ databaseErrors' = databaseErrors + 1

Respond(r, code, jobs) ==
    /\ handler' = [handler EXCEPT ![r] = "answered"]
    /\ response' = [response EXCEPT ![r] = [code |-> code, createdJobs |-> jobs]]

\* The event of request r at the loop's current position.
Position(r) == Len(resolved[r]) + 1

CurrentEvent(r) == body[r][Position(r)]

HasEvent(r) == handler[r] = "looping" /\ Position(r) <= Len(body[r])

-----------------------------------------------------------------------------
(***************************************************************************)
(* handleSingleEvent and handleBatchEvents: decode, then enqueueEvents.    *)
(* A single event is a batch of one.                                       *)
(***************************************************************************)
Decode(r, b) ==
    /\ handler[r] = "unsent"
    /\ b # Malformed
    /\ body' = [body EXCEPT ![r] = b]
    /\ handler' = [handler EXCEPT ![r] = "looping"]
    /\ UNCHANGED <<registry, rows, resolved, createdJobs, response, receivedEvents,
                   registryChanges, databaseErrors>>

RefuseBody(r) ==
    /\ handler[r] = "unsent"
    /\ Malformed \in Bodies
    /\ Respond(r, 400, 0)
    /\ UNCHANGED <<registry, rows, body, resolved, createdJobs, receivedEvents,
                   registryChanges, databaseErrors>>

(***************************************************************************)
(* One round of enqueueEvents: validateEvent, then ResolveWebhookURLs.  A  *)
(* customer without rows is ErrCustomerNotRegistered, the only error       *)
(* answered with 404.  The counter moves before the rows are stored.       *)
(***************************************************************************)
RejectEvent(r) ==
    /\ HasEvent(r)
    /\ ~CurrentEvent(r).valid
    /\ Respond(r, 400, 0)
    /\ UNCHANGED <<registry, rows, body, resolved, createdJobs, receivedEvents,
                   registryChanges, databaseErrors>>

FailResolve(r) ==
    /\ HasEvent(r)
    /\ CurrentEvent(r).valid
    /\ DatabaseError
    /\ Respond(r, 400, 0)
    /\ UNCHANGED <<registry, rows, body, resolved, createdJobs, receivedEvents, registryChanges>>

IsRegistered(c) == registry[c] # {}

RejectCustomer(r) ==
    /\ HasEvent(r)
    /\ CurrentEvent(r).valid
    /\ ~IsRegistered(CurrentEvent(r).customerId)
    /\ Respond(r, 404, 0)
    /\ UNCHANGED <<registry, rows, body, resolved, createdJobs, receivedEvents,
                   registryChanges, databaseErrors>>

FaultyResolveWebhookURLs(r) ==
    /\ HasEvent(r)
    /\ CurrentEvent(r).valid
    /\ IsRegistered(CurrentEvent(r).customerId)
    /\ resolved' = [resolved EXCEPT ![r] = Append(@, registry[CurrentEvent(r).customerId])]
    /\ receivedEvents' = IF Position(r) = 1 THEN receivedEvents + 1 ELSE receivedEvents
    /\ handler' = [handler EXCEPT ![r] = "storing"]
    /\ UNCHANGED <<registry, rows, body, createdJobs, response, registryChanges, databaseErrors>>

ResolveWebhookURLs(r) ==
    /\ HasEvent(r)
    /\ CurrentEvent(r).valid
    /\ IsRegistered(CurrentEvent(r).customerId)
    /\ resolved' = [resolved EXCEPT ![r] = Append(@, registry[CurrentEvent(r).customerId])]
    /\ receivedEvents' = receivedEvents + 1
    /\ handler' = [handler EXCEPT ![r] = "storing"]
    /\ UNCHANGED <<registry, rows, body, createdJobs, response, registryChanges, databaseErrors>>

(***************************************************************************)
(* EnqueueDeliveries stores the rows of the event in one transaction.      *)
(* When it fails, what was stored for earlier events stays.  A COMMIT that *)
(* reported an error may have taken effect.                                *)
(***************************************************************************)
FaultyEventRows(r) ==
    {[request |-> r, event |-> Len(resolved[r]), url |-> u] :
        u \in registry[body[r][Len(resolved[r])].customerId]}

EventRows(r) ==
    {[request |-> r, event |-> Len(resolved[r]), url |-> u] : u \in resolved[r][Len(resolved[r])]}

EnqueueDeliveries(r) ==
    /\ handler[r] = "storing"
    /\ rows' = rows \cup EventRows(r)
    /\ createdJobs' = [createdJobs EXCEPT ![r] = @ + Cardinality(EventRows(r))]
    /\ handler' = [handler EXCEPT ![r] = "looping"]
    /\ UNCHANGED <<registry, body, resolved, response, receivedEvents,
                   registryChanges, databaseErrors>>

FaultyFailEnqueue(r) ==
    /\ handler[r] = "storing"
    /\ DatabaseError
    /\ handler' = [handler EXCEPT ![r] = "looping"]
    /\ UNCHANGED <<registry, rows, response, body, resolved, createdJobs, receivedEvents,
                   registryChanges>>

FailEnqueue(r) ==
    /\ handler[r] = "storing"
    /\ DatabaseError
    /\ rows' \in {rows, rows \cup EventRows(r)}
    /\ Respond(r, 400, 0)
    /\ UNCHANGED <<registry, body, resolved, createdJobs, receivedEvents, registryChanges>>

Accept(r) ==
    /\ handler[r] = "looping"
    /\ ~HasEvent(r)
    /\ Respond(r, 202, createdJobs[r])
    /\ UNCHANGED <<registry, rows, body, resolved, createdJobs, receivedEvents,
                   registryChanges, databaseErrors>>

-----------------------------------------------------------------------------
Handle(r) ==
    \/ RejectEvent(r)
    \/ FailResolve(r)
    \/ RejectCustomer(r)
    \/ ResolveWebhookURLs(r)
    \/ EnqueueDeliveries(r)
    \/ FailEnqueue(r)
    \/ Accept(r)

Next ==
    \/ \E c \in Customers, S \in SUBSET Urls : ChangeRegistry(c, S)
    \/ \E r \in Requests : \/ \E b \in Bodies : Decode(r, b)
                         \/ RefuseBody(r)
                         \/ Handle(r)

Spec == Init /\ [][Next]_vars

-----------------------------------------------------------------------------
(***************************************************************************)
(* Types.  No event passes ResolveWebhookURLs with an empty list of URLs,  *)
(* which EnqueueDeliveries would accept without storing anything.          *)
(***************************************************************************)
TypeOK ==
    /\ registry \in [Customers -> SUBSET Urls]
    /\ rows \subseteq [request : Requests, event : Nat, url : Urls]
    /\ handler \in [Requests -> {"unsent", "looping", "storing", "answered"}]
    /\ body \in [Requests -> Seq(Event)]
    /\ resolved \in [Requests -> Seq((SUBSET Urls) \ {{}})]
    /\ createdJobs \in [Requests -> Nat]
    /\ response \in [Requests -> [code : {0, 202, 400, 404}, createdJobs : Nat]]
    /\ receivedEvents \in Nat
    /\ registryChanges \in 0 .. MaxRegistryChanges
    /\ databaseErrors \in 0 .. MaxDatabaseErrors

RowsFor(r) == {row \in rows : row.request = r}

RowsOf(r, k) == {row \in RowsFor(r) : row.event = k}

StoredEvents == {<<row.request, row.event>> : row \in rows}

(***************************************************************************)
(* 202 means stored: every event of an accepted body has its rows in the   *)
(* queue, and the createdJobs of the answer counts exactly the rows of     *)
(* this request, whatever the other handlers and the operator do.          *)
(***************************************************************************)
AcceptedIsStored ==
    \A r \in Requests : response[r].code = 202 =>
        /\ \A k \in DOMAIN body[r] : RowsOf(r, k) # {}
        /\ response[r].createdJobs = Cardinality(RowsFor(r))

(***************************************************************************)
(* The rows of an event are all the URLs of one reading of the             *)
(* registrations, or none; a request stores its events in order, and only  *)
(* the last one it handled can be without rows.                            *)
(***************************************************************************)
StoredAsResolved ==
    \A r \in Requests :
        /\ \A k \in DOMAIN resolved[r] :
              LET found == {row.url : row \in RowsOf(r, k)} IN
              \/ found = resolved[r][k]
              \/ found = {} /\ k = Len(resolved[r])
        /\ \A row \in RowsFor(r) : row.event \in DOMAIN resolved[r]

(***************************************************************************)
(* The counter of received events never lags behind the table: every       *)
(* stored event was counted first (enqueueEvents, lines 118-120).  It may  *)
(* be ahead, by the events whose insert failed.                            *)
(***************************************************************************)
CounterCoversStored ==
    Cardinality(StoredEvents) <= receivedEvents
=============================================================================

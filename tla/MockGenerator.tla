---------------------------- MODULE MockGenerator ----------------------------
(***************************************************************************)
(* The mock event generator (internal/mockgenerator): concurrent handlers  *)
(* that make a batch of events with newEvent and publish it to the         *)
(* notifier's POST /events/batch.  newEvent runs under a mutex and draws a *)
(* subscriber from a shared random source; handleMixedScenario draws from  *)
(* the same source WITHOUT the mutex.                                      *)
(***************************************************************************)
EXTENDS Integers, SequencesExt

CONSTANTS
    Requests,
    Orders,                    \* what request bodies ask for
    DefaultCustomerCount,
    DefaultEventsPerCustomer,  \* 100 in the code
    WhaleCounts,               \* <<2000, 100, 100>> in the code
    MixedCounts,               \* 25 .. 99 in the code
    Nobody                     \* no goroutine holds the mutex

ASSUME GeneratorAssumption ==
    /\ Orders \subseteq [kind : {"generate"}, count : Int]
                          \cup [kind : {"bulk"}, customers : Int, eventsPerCustomer : Int]
                          \cup [kind : {"whale", "mixed"}]
    /\ DefaultCustomerCount \in Nat \ {0}
    /\ DefaultEventsPerCustomer \in Nat \ {0}
    /\ WhaleCounts \in Seq(Nat)
    /\ MixedCounts \subseteq Nat
    /\ Nobody \notin Requests

VARIABLES
    handler,              \* how far each handler is
    order,                \* the decoded request
    todo,                 \* events still to be made: <<customer, eventIndex>>
    customersLeft,        \* customers whose eventCount is still to be drawn
    batch,                \* eventsBatch
    mutex,                \* who holds generationStateMutex
    generatedEventCount,
    raced,                \* handlers whose draw overlaps or overlapped another
    raceSeen,             \* history: two draws have overlapped
    stored,               \* events the notifier has stored
    server                \* the HTTP server, as Run sees it

vars == <<handler, order, todo, customersLeft, batch, mutex, generatedEventCount, raced, raceSeen,
          stored, server>>

NoOrder == [kind |-> "none"]

Init ==
    /\ handler = [r \in Requests |-> "unsent"]
    /\ order = [r \in Requests |-> NoOrder]
    /\ todo = [r \in Requests |-> <<>>]
    /\ customersLeft = [r \in Requests |-> 0]
    /\ batch = [r \in Requests |-> <<>>]
    /\ mutex = Nobody
    /\ generatedEventCount = 0
    /\ raced = {}
    /\ raceSeen = FALSE
    /\ stored = {}
    /\ server = "serving"

Goto(r, step) == handler' = [handler EXCEPT ![r] = step]

-----------------------------------------------------------------------------
(***************************************************************************)
(* decodeJSONRequest, validation and defaults.  Negative numbers are       *)
(* refused; zero, which an omitted field also is, means the default.       *)
(***************************************************************************)
IsValid(o) ==
    CASE o.kind = "generate" -> o.count >= 0
      [] o.kind = "bulk" -> o.customers >= 0 /\ o.eventsPerCustomer >= 0
      [] OTHER -> TRUE

OrDefault(n, default) == IF n <= 0 THEN default ELSE n

EventsFor(c, count) == [i \in 1 .. count |-> <<c, i - 1>>]

PerCustomer(counts) == FlattenSeq([c \in DOMAIN counts |-> EventsFor(c, counts[c])])

Plan(o) ==
    CASE o.kind = "generate" -> EventsFor(1, OrDefault(o.count, 1))
      [] o.kind = "bulk" ->
           PerCustomer([c \in 1 .. OrDefault(o.customers, DefaultCustomerCount) |->
                           OrDefault(o.eventsPerCustomer, DefaultEventsPerCustomer)])
      [] o.kind = "whale" -> PerCustomer(WhaleCounts)
      [] o.kind = "mixed" -> <<>>

RefuseRequest(r) ==
    /\ server = "serving"
    /\ handler[r] = "unsent"
    /\ \E o \in Orders : ~IsValid(o) /\ order' = [order EXCEPT ![r] = o]
    /\ Goto(r, "refused")
    /\ UNCHANGED <<todo, customersLeft, batch, mutex, generatedEventCount, raced, raceSeen, stored, server>>

BeginRequest(r, o) ==
    /\ server = "serving"
    /\ handler[r] = "unsent"
    /\ IsValid(o)
    /\ Goto(r, "generating")
    /\ order' = [order EXCEPT ![r] = o]
    /\ todo' = [todo EXCEPT ![r] = Plan(o)]
    /\ customersLeft' = [customersLeft EXCEPT ![r] = IF o.kind = "mixed" THEN DefaultCustomerCount ELSE 0]
    /\ UNCHANGED <<batch, mutex, generatedEventCount, raced, raceSeen, stored, server>>

-----------------------------------------------------------------------------
(***************************************************************************)
(* Draws from randomSource.  Two at the same time are a data race on the   *)
(* indexes of the generator: the draws may still return numbers, or one    *)
(* panics with an index out of range.                                      *)
(***************************************************************************)
Drawing == {r \in Requests : handler[r] \in {"countDraw", "typeDraw", "newEvent"}}

BeginDraw(r, step) ==
    /\ Goto(r, step)
    /\ IF Drawing = {} THEN UNCHANGED <<raced, raceSeen>>
                       ELSE raced' = raced \cup Drawing \cup {r} /\ raceSeen' = TRUE

EndDraw(r, step) ==
    /\ Goto(r, step)
    /\ raced' = raced \ {r}
    /\ UNCHANGED raceSeen

(***************************************************************************)
(* handleMixedScenario draws the number of events of each customer, and    *)
(* the type of each event before newEvent makes it.                        *)
(***************************************************************************)
BeginCountDraw(r) ==
    /\ handler[r] = "generating"
    /\ todo[r] = <<>>
    /\ customersLeft[r] > 0
    /\ BeginDraw(r, "countDraw")
    /\ UNCHANGED <<order, todo, customersLeft, batch, mutex, generatedEventCount, stored, server>>

EndCountDraw(r) ==
    /\ handler[r] = "countDraw"
    /\ EndDraw(r, "generating")
    /\ \E count \in MixedCounts :
          todo' = [todo EXCEPT ![r] = EventsFor(DefaultCustomerCount - customersLeft[r] + 1, count)]
    /\ customersLeft' = [customersLeft EXCEPT ![r] = @ - 1]
    /\ UNCHANGED <<order, batch, mutex, generatedEventCount, stored, server>>

BeginTypeDraw(r) ==
    /\ handler[r] = "generating"
    /\ order[r].kind = "mixed"
    /\ todo[r] # <<>>
    /\ BeginDraw(r, "typeDraw")
    /\ UNCHANGED <<order, todo, customersLeft, batch, mutex, generatedEventCount, stored, server>>

EndTypeDraw(r) ==
    /\ handler[r] = "typeDraw"
    /\ EndDraw(r, "typed")
    /\ UNCHANGED <<order, todo, customersLeft, batch, mutex, generatedEventCount, stored, server>>

(***************************************************************************)
(* newEvent: take the mutex and draw; then number the event, count it and  *)
(* release the mutex.                                                      *)
(***************************************************************************)
MutexFree == mutex = Nobody

LockGenerationState(r) ==
    /\ IF order[r].kind = "mixed" THEN handler[r] = "typed"
                                  ELSE handler[r] = "generating" /\ todo[r] # <<>>
    /\ MutexFree
    /\ mutex' = r
    /\ BeginDraw(r, "newEvent")
    /\ UNCHANGED <<order, todo, customersLeft, batch, generatedEventCount, stored, server>>

FaultyNewEvent(r) ==
    [customer |-> Head(todo[r])[1], index |-> Head(todo[r])[2], sequence |-> Len(batch[r])]

NewEvent(r) ==
    [customer |-> Head(todo[r])[1], index |-> Head(todo[r])[2], sequence |-> generatedEventCount]

FaultyUnlockGenerationState(r) == mutex' = mutex

UnlockGenerationState(r) == mutex' = Nobody

AppendEvent(r) ==
    /\ handler[r] = "newEvent"
    /\ EndDraw(r, "generating")
    /\ batch' = [batch EXCEPT ![r] = Append(@, NewEvent(r))]
    /\ generatedEventCount' = generatedEventCount + 1
    /\ UnlockGenerationState(r)
    /\ todo' = [todo EXCEPT ![r] = Tail(@)]
    /\ UNCHANGED <<order, customersLeft, stored, server>>

(***************************************************************************)
(* A panic ends the handler; net/http recovers it.  newEvent has no defer, *)
(* so the mutex stays locked when the panic was in its draw.               *)
(***************************************************************************)
PanicInDraw(r) ==
    /\ r \in Drawing \cap raced
    /\ EndDraw(r, "broken")
    /\ UNCHANGED <<order, todo, customersLeft, batch, mutex, generatedEventCount, stored, server>>

-----------------------------------------------------------------------------
(***************************************************************************)
(* publishEvents.  When the notifier answers 2xx it has stored the batch.  *)
(* Otherwise, or when no answer comes in time, it may have stored the      *)
(* first events (module Ingest), and the handler answers 502.              *)
(***************************************************************************)
BatchIsComplete(r) ==
    /\ handler[r] = "generating"
    /\ todo[r] = <<>>
    /\ customersLeft[r] = 0

PublishEvents(r) ==
    /\ BatchIsComplete(r)
    /\ stored' = stored \cup ToSet(batch[r])
    /\ Goto(r, "accepted")
    /\ UNCHANGED <<order, todo, customersLeft, batch, mutex, generatedEventCount, raced, raceSeen, server>>

FaultyFailPublish(r) ==
    /\ BatchIsComplete(r)
    /\ \E k \in 0 .. Len(batch[r]) : stored' = stored \cup ToSet(SubSeq(batch[r], 1, k))
    /\ Goto(r, "accepted")
    /\ UNCHANGED <<order, todo, customersLeft, batch, mutex, generatedEventCount, raced, raceSeen, server>>

FailPublish(r) ==
    /\ BatchIsComplete(r)
    /\ \E k \in 0 .. Len(batch[r]) : stored' = stored \cup ToSet(SubSeq(batch[r], 1, k))
    /\ Goto(r, "failed")
    /\ UNCHANGED <<order, todo, customersLeft, batch, mutex, generatedEventCount, raced, raceSeen, server>>

(***************************************************************************)
(* Run: on the signal it calls Shutdown, which takes no new requests and   *)
(* returns when no handler is left, or with an error at ShutdownTimeout.   *)
(* When ListenAndServe fails, Run returns its error at once.  Then main    *)
(* returns: the handlers that are left, and all the memory, are gone.      *)
(***************************************************************************)
Active == {r \in Requests : handler[r] \in {"generating", "countDraw", "typeDraw", "typed", "newEvent"}}

Exit(result) ==
    /\ server' = result
    /\ handler' = [r \in Requests |-> "ended"]
    /\ order' = [r \in Requests |-> NoOrder]
    /\ todo' = [r \in Requests |-> <<>>]
    /\ customersLeft' = [r \in Requests |-> 0]
    /\ batch' = [r \in Requests |-> <<>>]
    /\ mutex' = Nobody
    /\ generatedEventCount' = 0
    /\ raced' = {}
    /\ UNCHANGED <<raceSeen, stored>>

FailListen ==
    /\ server = "serving"
    /\ Exit("failed")

Signal ==
    /\ server = "serving"
    /\ server' = "draining"
    /\ UNCHANGED <<handler, order, todo, customersLeft, batch, mutex, generatedEventCount,
                   raced, raceSeen, stored>>

FaultyShutdown ==
    /\ server = "draining"
    /\ Active = {}
    /\ Exit("stopped")

Shutdown ==
    /\ server = "draining"
    /\ Exit(IF Active = {} THEN "stopped" ELSE "timedOut")

-----------------------------------------------------------------------------
Handle(r) ==
    \/ BeginCountDraw(r)
    \/ EndCountDraw(r)
    \/ BeginTypeDraw(r)
    \/ EndTypeDraw(r)
    \/ LockGenerationState(r)
    \/ AppendEvent(r)
    \/ PanicInDraw(r)
    \/ PublishEvents(r)
    \/ FailPublish(r)

Next ==
    \/ \E r \in Requests :
          \/ RefuseRequest(r)
          \/ \E o \in Orders : BeginRequest(r, o)
          \/ Handle(r)
    \/ FailListen
    \/ Signal
    \/ Shutdown

Spec == Init /\ [][Next]_vars

(***************************************************************************)
(* net/http runs every handler, and a Go mutex is handed to a waiter that  *)
(* has waited long enough, so a handler that can take it again and again   *)
(* does take it.  Shutdown has a timeout.                                  *)
(***************************************************************************)
FairSpec ==
    /\ Spec
    /\ \A r \in Requests : WF_vars(Handle(r)) /\ SF_vars(LockGenerationState(r))
    /\ WF_vars(Shutdown)

-----------------------------------------------------------------------------
(***************************************************************************)
(* The sequence numbers, which make event IDs unique and OccurredAt grow,  *)
(* are dealt out to the concurrent handlers without gap or repetition, and *)
(* grow within each batch, even after a panic.                             *)
(***************************************************************************)
SequenceIsShared ==
    /\ {e.sequence : e \in UNION {ToSet(batch[r]) : r \in Requests}} = 0 .. generatedEventCount - 1
    /\ \A r, q \in Requests : \A i \in DOMAIN batch[r], k \in DOMAIN batch[q] :
          /\ batch[r][i].sequence = batch[q][k].sequence => r = q /\ i = k
          /\ r = q /\ i < k => batch[r][i].sequence < batch[q][k].sequence

(***************************************************************************)
(* A 202 answer means that the batch is exactly what was ordered, for      *)
(* mixed orders an allowed number for every default customer, and that the *)
(* notifier stored all of it.                                              *)
(***************************************************************************)
AcceptedIsPublished ==
    \A r \in Requests : handler[r] = "accepted" =>
        LET made == [k \in DOMAIN batch[r] |-> <<batch[r][k].customer, batch[r][k].index>>] IN
        /\ ToSet(batch[r]) \subseteq stored
        /\ IF order[r].kind = "mixed"
              THEN \E counts \in [1 .. DefaultCustomerCount -> MixedCounts] : made = PerCustomer(counts)
              ELSE made = Plan(order[r])

(***************************************************************************)
(* Every request that was begun is answered, even if the server is told to *)
(* stop meanwhile and Shutdown returns nil, unless two draws overlapped:   *)
(* then one may panic in newEvent with the mutex locked, and every later   *)
(* newEvent waits for ever.  Draws under the mutex exclude each other, so  *)
(* that takes a mixed scenario.                                            *)
(***************************************************************************)
StuckOnlyAfterRace ==
    \A r \in Requests :
        handler[r] = "generating" ~>
            \/ handler[r] \in {"accepted", "failed"}
            \/ raceSeen /\ \E q \in Requests : order[q].kind = "mixed"
            \/ server \in {"timedOut", "failed"}

(***************************************************************************)
(* A signal ends the server, even when handlers wait for ever for the      *)
(* mutex: Shutdown returns nil, or an error at its timeout.                *)
(***************************************************************************)
SignalEndsServer == server = "draining" ~> server \in {"stopped", "timedOut"}
=============================================================================

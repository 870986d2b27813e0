------------------------------ MODULE Pipeline ------------------------------
(***************************************************************************)
(* From POST /events to the settled delivery: the HTTP handlers of Ingest  *)
(* and the processes of Notifier over one table.  Both modules store rows; *)
(* here they do it in one step, the transaction of EnqueueDeliveries, so   *)
(* that a claim may find the rows of a request's first event while its     *)
(* handler is still at the second.                                         *)
(***************************************************************************)
EXTENDS Notifier, Sequences, Functions

CONSTANTS
    Requests, Bodies, Malformed, Customers, Urls, MaxRegistryChanges, MaxDatabaseErrors

VARIABLES
    registry, handler, body, resolved, createdJobs, response, receivedEvents,
    registryChanges, databaseErrors,
    origin      \* stored row -> the request, event and URL it is for

ingestVars == <<registry, handler, body, resolved, createdJobs, response, receivedEvents,
                registryChanges, databaseErrors>>

pipelineVars == <<vars, ingestVars, origin>>

Handlers == INSTANCE Ingest WITH rows <- {origin[i] : i \in DOMAIN origin}

ASSUME PipelineAssumption ==
    /\ Bodies \subseteq Seq(Handlers!Event) \cup {Malformed}
    /\ IsFiniteSet(Urls) /\ Cardinality(Urls) <= MaxUrlsPerEvent
    /\ MaxRegistryChanges \in Nat
    /\ MaxDatabaseErrors \in Nat

PipelineInit ==
    /\ Init
    /\ origin = <<>>
    /\ Handlers!Init

-----------------------------------------------------------------------------
(***************************************************************************)
(* The INSERTs of one event.  Ids are drawn from a sequence; which of the  *)
(* event's URLs gets which id makes no difference to the processes.        *)
(***************************************************************************)
NextIds(count) ==
    {i \in Rows : /\ i \notin DOMAIN origin
                  /\ Cardinality({k \in Rows \ DOMAIN origin : k < i}) < count}

FaultyInsertRows(r) ==
    LET ids == NextIds(Cardinality(Handlers!EventRows(r)))
        inserted == CHOOSE f \in Bijection(ids, Handlers!EventRows(r)) : TRUE
    IN  /\ Cardinality(ids) = Cardinality(Handlers!EventRows(r))
        /\ origin' = [i \in DOMAIN origin \cup ids |->
                         IF i \in ids THEN inserted[i] ELSE origin[i]]
        /\ UNCHANGED vars

InsertRows(r) ==
    LET ids == NextIds(Cardinality(Handlers!EventRows(r)))
        inserted == CHOOSE f \in Bijection(ids, Handlers!EventRows(r)) : TRUE
    IN  /\ Cardinality(ids) = Cardinality(Handlers!EventRows(r))
        /\ EnqueueDeliveries(ids, now)
        /\ origin' = [i \in DOMAIN origin \cup ids |->
                         IF i \in ids THEN inserted[i] ELSE origin[i]]
        /\ UNCHANGED <<now, phase, locked, jobs, received, faults>>

StoreEvent(r) ==
    /\ handler[r] = "storing"
    /\ InsertRows(r)
    /\ Handlers!EnqueueDeliveries(r) \/ Handlers!FailEnqueue(r)

Handle(r) ==
    \/ StoreEvent(r)
    \/ UNCHANGED <<vars, origin>> /\ Handlers!Handle(r)

\* A request comes in or is refused, or the operator changes the registrations.
OutsideStep ==
    /\ UNCHANGED <<vars, origin>>
    /\ Handlers!Next

ProcessStep ==
    /\ \/ Tick
       \/ \E n \in Owners : Poller(n) \/ Scheduler(n) \/ Worker(n) \/ Lifetime(n) \/ Environment(n)
    /\ UNCHANGED <<ingestVars, origin>>

PipelineNext ==
    \/ \E r \in Requests : Handle(r)
    \/ OutsideStep
    \/ ProcessStep

\* The fairness of Notifier, and net/http runs every handler.
PipelineSpec ==
    /\ PipelineInit
    /\ [][PipelineNext]_pipelineVars
    /\ Fairness
    /\ \A r \in Requests : WF_pipelineVars(Handle(r))

-----------------------------------------------------------------------------
(***************************************************************************)
(* Every request is answered, and 202 is kept: every URL resolved for      *)
(* every event of an accepted request gets a row that is completed or      *)
(* dead-lettered in the end, however the handler, the poller and the       *)
(* workers interleave.                                                     *)
(***************************************************************************)
SettledFor(r) ==
    /\ Len(resolved[r]) = Len(body[r])
    /\ \A k \in DOMAIN body[r] : \A u \in resolved[r][k] :
          \E i \in DOMAIN origin :
              origin[i] = [request |-> r, event |-> k, url |-> u] /\ Terminal(i)

EveryRequestSettles ==
    \A r \in Requests :
        handler[r] = "looping" ~>
            /\ handler[r] = "answered"
            /\ response[r].code = 202 => SettledFor(r)
=============================================================================

-------------------------- MODULE DeliveryLifecycle --------------------------
(***************************************************************************)
(* The life of a delivery as the documentation promises it (README,        *)
(* "Current Flow"), without processes, locks, memory or failures: a row is *)
(* accepted, claimed, and then completed, dead-lettered or returned for    *)
(* another attempt, at most MaxRetryAttempts times.                        *)
(***************************************************************************)
EXTENDS Naturals

CONSTANTS
    Rows,
    MaxRetryAttempts

VARIABLES
    status,
    retryCount

lifecycleVars == <<status, retryCount>>

Init ==
    /\ status = [i \in Rows |-> "absent"]
    /\ retryCount = [i \in Rows |-> 0]

\* Every row of S goes from one status to another.
Transition(S, from, to) ==
    /\ \A i \in S : status[i] = from
    /\ status' = [i \in Rows |-> IF i \in S THEN to ELSE status[i]]

Accept(S) == Transition(S, "absent", "pending") /\ UNCHANGED retryCount

Claim(S) == Transition(S, "pending", "claimed") /\ UNCHANGED retryCount

Complete(i) == Transition({i}, "claimed", "completed") /\ UNCHANGED retryCount

DeadLetter(i) == Transition({i}, "claimed", "dead_lettered") /\ UNCHANGED retryCount

Retry(i) ==
    /\ retryCount[i] < MaxRetryAttempts
    /\ Transition({i}, "claimed", "pending")
    /\ retryCount' = [retryCount EXCEPT ![i] = @ + 1]

Next ==
    \/ \E S \in SUBSET Rows : Accept(S) \/ Claim(S)
    \/ \E i \in Rows : Complete(i) \/ DeadLetter(i) \/ Retry(i)

Spec == Init /\ [][Next]_lifecycleVars
=============================================================================

----------------------------- MODULE MCDelivery -----------------------------
(***************************************************************************)
(* Two deliveries and three configurations that start up: two workers with *)
(* the default delays and retries; an odd delay and one retry; one worker, *)
(* an odd delay and a blank number of retries.  The other environments do  *)
(* not load (a bare number or a text for a duration, a blank DSN) or do    *)
(* not start up (a zero interval).  With 13 bits a duration holds 4095 ms: *)
(* 1000 ms can be doubled twice and 1500 ms once.                          *)
(***************************************************************************)
EXTENDS Delivery, TLC

With(settings) == settings @@ [postgresDSN |-> Text]

MCEnvironments ==
    {With([workerCount |-> Number(2)]),
     With([maxRetryAttempts |-> Number(1), initialRetryDelay |-> Duration(1500)]),
     With([maxRetryAttempts |-> Blank, initialRetryDelay |-> Duration(1500),
           requestTimeout |-> Number(0), workerCount |-> Number(1)]),
     With([initialRetryDelay |-> Number(5)]),
     With([initialRetryDelay |-> Text]),
     With([queuePollInterval |-> Number(0)]),
     [postgresDSN |-> Blank]}

Symmetry == Permutations(Deliveries)
=============================================================================

---------------------------- MODULE MCScheduler ----------------------------
(***************************************************************************)
(* Small instances of RoundRobinScheduler: a customer with two jobs (the   *)
(* whale) and two customers with one.                                      *)
(***************************************************************************)
EXTENDS RoundRobinScheduler

MCJobs == {"a1", "a2", "b1", "c1"}
MCCustomers == {"a", "b", "c"}
MCCustomerOf == [j \in MCJobs |-> CASE j \in {"a1", "a2"} -> "a" [] j = "b1" -> "b" [] j = "c1" -> "c"]
=============================================================================

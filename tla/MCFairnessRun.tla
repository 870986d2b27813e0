---------------------------- MODULE MCFairnessRun ----------------------------
(***************************************************************************)
(* A whale whose events come first and a customer with one event, two      *)
(* workers.  The claim batch, the queue limit and the app's channel are    *)
(* scaled down so that several polls, a full queue and a full channel      *)
(* occur; the other modes have room for every job, as in the code.         *)
(***************************************************************************)
EXTENDS FairnessRun

MCJobs == 1 .. 5
MCCustomers == {"customer-a", "customer-b"}
MCCustomerOf == [j \in MCJobs |-> IF j = 5 THEN "customer-b" ELSE "customer-a"]
MCCustomerSegments == [c \in MCCustomers |-> IF c = "customer-a" THEN "whale" ELSE "non-whale"]
=============================================================================

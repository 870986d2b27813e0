----------------------------- MODULE MCPipeline -----------------------------
(***************************************************************************)
(* One process and one request of three events for a customer with one     *)
(* webhook URL, or none.  One of its database calls may fail.              *)
(***************************************************************************)
EXTENDS Pipeline

MCRows == 1 .. 3
MCNextDelay == [a \in 0 .. MaxRetryAttempts |-> 2 ^ a]
MCEvent == [valid |-> TRUE, customerId |-> "a"]
MCBodies == {<<MCEvent, MCEvent, MCEvent>>}
=============================================================================

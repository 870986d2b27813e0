------------------------------ MODULE MCIngest ------------------------------
(***************************************************************************)
(* Two concurrent requests of at most two events, for a customer a with up *)
(* to two webhook URLs and a customer b.                                   *)
(***************************************************************************)
EXTENDS Ingest

Good(c) == [valid |-> TRUE, customerId |-> c]
Bad(c) == [valid |-> FALSE, customerId |-> c]

MCBodies ==
    {Malformed, <<>>, <<Good("a")>>, <<Good("a"), Good("b")>>, <<Good("b"), Bad("a")>>}
=============================================================================

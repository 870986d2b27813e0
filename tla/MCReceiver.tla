----------------------------- MODULE MCReceiver -----------------------------
(***************************************************************************)
(* A small instance of MockReceiver: two webhooks for one customer.  A     *)
(* body is malformed, or names that customer, or the other one, whose      *)
(* record must stay empty.                                                 *)
(***************************************************************************)
EXTENDS MockReceiver

CONSTANTS r1, r2, a, b

MCWebhooks == {r1, r2}
MCCustomerOf == [r \in MCWebhooks |-> a]
=============================================================================

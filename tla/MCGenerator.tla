---------------------------- MODULE MCGenerator ----------------------------
(***************************************************************************)
(* A small instance of MockGenerator, with an order of every kind, with    *)
(* zero, positive and negative numbers.                                    *)
(***************************************************************************)
EXTENDS MockGenerator

MCOrders ==
    {[kind |-> "generate", count |-> n] : n \in {-1, 0, 2}}
        \cup {[kind |-> "bulk", customers |-> c, eventsPerCustomer |-> n] : c \in {0, 2}, n \in {-1, 0}}
        \cup {[kind |-> k] : k \in {"whale", "mixed"}}
MCWhaleCounts == <<2, 1>>
=============================================================================

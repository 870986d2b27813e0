----------------------------- MODULE MCNotifier -----------------------------
(***************************************************************************)
(* Small instances of Notifier.  The backoff is the doubling of            *)
(* retry.Policy with an initial delay of one tick.                         *)
(***************************************************************************)
EXTENDS Notifier, TLC

CONSTANTS n1, n2

TwoRows == 1 .. 2
TwoProcesses == {n1, n2}
MCNextDelay == [a \in 0 .. MaxRetryAttempts |-> 2 ^ a]
Symmetry == Permutations(TwoProcesses)
=============================================================================

------------------------ MODULE MCCreditReconciliation ------------------------
(***************************************************************************)
(* An instance of CreditReconciliation: one company with a credit from      *)
(* before the tracking rows, and two users.                                 *)
(***************************************************************************)
EXTENDS CreditReconciliation, TLC

CONSTANTS c1, i1, p1, u1, u2, none

Quiet     == [kind \in Rare |-> 0]
OldCredit == <<[company |-> c1, amount |-> 2]>>

Symmetric == Permutations({u1, u2})
===============================================================================

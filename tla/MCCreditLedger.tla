---------------------------- MODULE MCCreditLedger ----------------------------
(***************************************************************************)
(* Instances of CreditLedger for TLC.  The numbers are cents; "Rarely" says *)
(* how often each rare operation may happen in a run.                       *)
(***************************************************************************)
EXTENDS CreditLedger, TLC

CONSTANTS c1, c2, i1, i2, p1, p2, none

Quiet        == [kind \in Rare |-> 0]
Everything   == [kind \in Rare |-> 1]
Windowed     == [Quiet EXCEPT !["window"] = 1]

SmallTotals == {3, -1}

Symmetric == Permutations({c1, c2}) \cup Permutations({i1, i2})
===============================================================================

-------------------------- MODULE MCInvoiceGeneration --------------------------
(***************************************************************************)
(* Instances of InvoiceGeneration and BillingCycles with a calendar of      *)
(* cycles that start at the multiples of their length.                      *)
(***************************************************************************)
EXTENDS InvoiceGeneration, TLC

CONSTANTS e1, g1, g2, job, short, long

Length(f) == IF f = short THEN 2 ELSE 4

MCStartOfCycle(f, t)  == t - (t % Length(f))
MCNextCycleDate(f, t) == t + Length(f)

Symmetric == Permutations({g1, g2})

ASSUME CalendarAligned
================================================================================

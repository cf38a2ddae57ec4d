--------------------------- MODULE MCScheduleEntries ---------------------------
(***************************************************************************)
(* The instance of ScheduleEntries with two users and a daily rule.         *)
(***************************************************************************)
EXTENDS ScheduleEntries, TLC

CONSTANTS u1, u2, daily

MCOnRule(r, s, d) == r = daily /\ s <= d

Symmetric == Permutations(Users)

ASSUME RulesGoOn
================================================================================

-------------------------- MODULE MCDistributedLock --------------------------
(***************************************************************************)
(* Instances of DistributedLock for TLC.  The owner ids are distinct, as    *)
(* those of executeTransaction are.                                         *)
(***************************************************************************)
EXTENDS DistributedLock

CONSTANTS C1, C2, C3

MCCallers == {C1, C2, C3}
MCOwner   == [p \in MCCallers |-> p]

=============================================================================

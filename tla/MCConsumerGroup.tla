--------------------------- MODULE MCConsumerGroup ---------------------------
(***************************************************************************)
(* Instances of ConsumerGroup for TLC.                                      *)
(***************************************************************************)
EXTENDS ConsumerGroup, TLC

CONSTANTS Crashes, Fails, Errors, Reprocesses, W1, W2

MCConsumers == {W1, W2}

MCLimit ==
  [crash |-> Crashes, fail |-> Fails, error |-> Errors, reprocess |-> Reprocesses]

Symmetric == Permutations(MCConsumers)

=============================================================================

--------------------------- MODULE MCWorkflowWorker ---------------------------
(***************************************************************************)
(* Instances of WorkflowWorker for TLC.                                     *)
(***************************************************************************)
EXTENDS WorkflowWorker, TLC

CONSTANTS W1, W2, E1, F1, F2, F3, Crashes, Errors, Drops

MCWorkers   == {W1, W2}
MCEvents    == {E1}
MCWorkflows == {F1, F2, F3}
MCAttached  == (E1 :> {F1, F2})
MCFirstStop == (F1 :> "waiting") @@ (F2 :> "busy") @@ (F3 :> "done")
MCLimit     == [crash |-> Crashes, error |-> Errors, drop |-> Drops]

=============================================================================

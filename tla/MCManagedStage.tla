---------------------------- MODULE MCManagedStage ----------------------------
(* ManagedStage on a small instance.                                       *)
EXTENDS ManagedStage, TLC
=============================================================================

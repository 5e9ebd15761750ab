---------------------- MODULE MCDynamicThreadPoolGroup ----------------------
(***************************************************************************)
(* Instances of DynamicThreadPoolGroup for TLC: one user submits while     *)
(* another only stops and waits, so that submissions overlap with the      *)
(* completion of earlier ones through the items, which submit as well.     *)
(***************************************************************************)
EXTENDS DynamicThreadPoolGroup

=============================================================================

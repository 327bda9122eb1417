------------------------ MODULE MCReconcilerRestart ------------------------
(* A small instance of ReconcilerRestarts for TLC. *)
EXTENDS MCReconciler, ReconcilerRestarts
=============================================================================

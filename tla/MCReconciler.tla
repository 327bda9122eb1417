---------------------------- MODULE MCReconciler ----------------------------
(* Small instances of Reconciler for TLC. *)
EXTENDS Reconciler, TLC

CONSTANTS i1, i2, p1, p2

(* Instances and ports are interchangeable. *)
Symmetry == Permutations({i1, i2}) \cup Permutations({p1, p2})
=============================================================================

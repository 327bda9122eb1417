--------------------------- MODULE MCCheckpoints ---------------------------
(* Instance of Checkpoints for TLC. *)
EXTENDS Checkpoints

CONSTANTS c1, c2, p1, p2
=============================================================================

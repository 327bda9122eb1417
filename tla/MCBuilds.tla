----------------------------- MODULE MCBuilds ------------------------------
(* Instance of Builds for TLC: two calls of BuildFlavorVersion. *)
EXTENDS Builds

CONSTANTS r1, r2
=============================================================================

----------------------------- MODULE MCCatalog -----------------------------
(* Instance of Catalog for TLC: a chunk with up to two flavors, the first   *)
(* of which may get a version.                                              *)
EXTENDS Catalog

CONSTANTS f1, f2, v1, w1

MCFlavorOf == [v \in Versions |-> f1]
=============================================================================

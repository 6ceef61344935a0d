---------------------------- MODULE MC_IndexStore ----------------------------
(* An instance of IndexStore for TLC. *)
EXTENDS IndexStore, TLC

CONSTANTS p1, p2, c1, c2, t1
=============================================================================

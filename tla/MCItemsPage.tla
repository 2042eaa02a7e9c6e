------------------------------ MODULE MCItemsPage ------------------------------
(* Instances of ItemsPage for TLC. *)
EXTENDS ItemsPage, TLC

Symmetry == Permutations(Calls)
=============================================================================

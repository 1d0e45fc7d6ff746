---------------------------- MODULE MCSupplyChain ----------------------------
(* SupplyChain with interchangeable suppliers and calls. *)
EXTENDS SupplyChain, TLC

Symmetry == Permutations(Supplier) \cup Permutations(Call)
=============================================================================

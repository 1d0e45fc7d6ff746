------------------------------ MODULE MCProduct ------------------------------
(* Product with interchangeable versions, calls and parts. *)
EXTENDS Product, TLC

Symmetry == Permutations(Version) \cup Permutations(Call) \cup Permutations(Part)
=============================================================================

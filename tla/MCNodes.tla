------------------------------ MODULE MCNodes ------------------------------
(* Nodes for TLC: ids and requests are model values, interchangeable. *)
EXTENDS Nodes

NodeSymmetry == Permutations(Ids) \cup Permutations(Requests)
=============================================================================

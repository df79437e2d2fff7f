----------------------------- MODULE MCUpdates -----------------------------
(* Updates for TLC: ids and clients are model values. *)
EXTENDS Updates, TLC

UpdateSymmetry == Permutations(Ids) \cup Permutations(Clients)
=============================================================================

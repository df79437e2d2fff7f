-------------------------- MODULE MCConnectivity --------------------------
(* Connectivity for TLC: the subscribers are model values. *)
EXTENDS Connectivity, TLC
=============================================================================

---------------------------- MODULE MCDispensing ----------------------------
(* Dispensing for TLC: payments are model values. *)
EXTENDS Dispensing
=============================================================================

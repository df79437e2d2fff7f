------------------------------- MODULE MCScan -------------------------------
(* Scan for TLC: scans and networks are model values. *)
EXTENDS Scan
=============================================================================

------------------------------ MODULE MCWifi ------------------------------
(* Wifi for TLC: networks and requests are model values. *)
EXTENDS Wifi, TLC

WifiSymmetry == Permutations(Wifis) \cup Permutations(Requests)
=============================================================================

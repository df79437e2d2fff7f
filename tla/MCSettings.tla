----------------------------- MODULE MCSettings -----------------------------
(* Settings for TLC: values and requests are model values, interchangeable. *)
EXTENDS Settings, TLC

SettingSymmetry == Permutations(Values) \cup Permutations(Requests)
=============================================================================

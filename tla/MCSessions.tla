----------------------------- MODULE MCSessions -----------------------------
(* Two users who may have two sessions and one remembered device each, out *)
(* of four session ids and two devices, and timeouts short enough for      *)
(* either of them to come first.                                           *)
EXTENDS SessionManager, TLC

Symmetry == Permutations(Tokens) \cup Permutations(Devices) \cup Permutations(Users)
=============================================================================

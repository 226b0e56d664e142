------------------------------- MODULE MCAuth -------------------------------
(***************************************************************************)
(* Auth for TLC: browsers and request slots are interchangeable.           *)
(***************************************************************************)
EXTENDS Auth, TLC

Symmetry == Permutations(Devices) \cup Permutations(Slots)
=============================================================================

----------------------------- MODULE MCStunVpv -----------------------------
(* Bounds for TLC: see the README for why they are enough. *)
EXTENDS StunVpv, TLC

ClientSymmetry == Permutations(Clients)
=============================================================================

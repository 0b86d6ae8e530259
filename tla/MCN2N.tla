------------------------------- MODULE MCN2N -------------------------------
(* Bounds for TLC: see the README for why they are enough. *)
EXTENDS N2N
=============================================================================

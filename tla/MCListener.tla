----------------------------- MODULE MCListener -----------------------------
(* Bounds for TLC: see the README for why they are enough. *)
EXTENDS Listener
=============================================================================

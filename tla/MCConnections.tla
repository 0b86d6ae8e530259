--------------------------- MODULE MCConnections ---------------------------
(* Bounds for TLC: see the README for why they are enough. *)
EXTENDS Connections
=============================================================================

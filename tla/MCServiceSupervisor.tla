------------------------ MODULE MCServiceSupervisor ------------------------
(* Bounds for TLC: see the README for why they are enough. *)
EXTENDS ServiceSupervisor
=============================================================================

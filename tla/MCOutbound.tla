----------------------------- MODULE MCOutbound -----------------------------
(* Outbound for TLC: every protocol alone and every chain of two hops. *)
EXTENDS Outbound
=============================================================================

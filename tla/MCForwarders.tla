---------------------------- MODULE MCForwarders ----------------------------
(***************************************************************************)
(* Forwarders on an instance TLC checks; the bounds are in the cfg.        *)
(***************************************************************************)
EXTENDS Forwarders
=============================================================================

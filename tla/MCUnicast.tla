----------------------------- MODULE MCUnicast -----------------------------
(* Instances of Unicast for TLC. *)
EXTENDS Unicast
=============================================================================

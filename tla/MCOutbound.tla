----------------------------- MODULE MCOutbound -----------------------------
(* Small instances of OutboundProperties for TLC: the model values of the cfgs. *)
EXTENDS OutboundProperties
=============================================================================

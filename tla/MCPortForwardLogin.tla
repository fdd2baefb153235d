------------------------ MODULE MCPortForwardLogin ------------------------
(* PortForwardLogin for TLC: two mappings, one of them probing. *)
EXTENDS PortForwardLogin
=============================================================================

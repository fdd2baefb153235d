----------------------- MODULE MCPortForwardListener -----------------------
(* PortForwardListener for TLC: a few accepts, so that tunnels follow each *)
(* other, and a short queue of user commands.                              *)
EXTENDS PortForwardListener
=============================================================================

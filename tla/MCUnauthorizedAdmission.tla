---------------------- MODULE MCUnauthorizedAdmission ----------------------
(* Three connections from up to three addresses over two places, with a      *)
(* share of one: the limit, the share and an eviction are all within reach.  *)
EXTENDS UnauthorizedAdmission
============================================================================

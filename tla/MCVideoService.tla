--------------------------- MODULE MCVideoService ---------------------------
(* The cfgs give the viewers: model values, some of which acknowledge.      *)
EXTENDS VideoService
=============================================================================

--------------------------- MODULE MCPrivacyMode ---------------------------
(***************************************************************************)
(* Instances of PrivacyMode for TLC: one thing at a time goes wrong around *)
(* it.                                                                     *)
(***************************************************************************)
EXTENDS PrivacyMode

Fine == [fails |-> FALSE, slow |-> FALSE, quick |-> FALSE, user |-> FALSE, asks |-> 1]

OneThingWrong ==
  {[Fine EXCEPT !.asks = 2], [Fine EXCEPT !.user = TRUE], [Fine EXCEPT !.slow = TRUE],
   [Fine EXCEPT !.quick = TRUE], [Fine EXCEPT !.fails = TRUE]}
=============================================================================

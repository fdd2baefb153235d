--------------------------- MODULE MCCreditFlow ---------------------------
(* CreditFlow for TLC: windows of a few units, every split of them. *)
EXTENDS CreditFlow
=============================================================================

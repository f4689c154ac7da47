------------------------- MODULE MCCreditPurchases -------------------------
(* Instances of CreditPurchases for TLC. *)
EXTENDS CreditPurchases, TLC
=============================================================================
